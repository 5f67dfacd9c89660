------------------------------ MODULE MCWaSend ------------------------------
(***************************************************************************)
(* Small instances of WaSend for TLC.                                      *)
(***************************************************************************)
EXTENDS WaSend

CONSTANTS m1, m2

\* Two messages: to a person and to a group; to a person and to nobody
MCGroup  == [m \in Msgs |-> IF m = m2 THEN "group" ELSE "direct"]
MCBad    == [m \in Msgs |-> IF m = m2 THEN "bad" ELSE "direct"]
=============================================================================
