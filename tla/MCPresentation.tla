--------------------------- MODULE MCPresentation ---------------------------
(***************************************************************************)
(* A small instance of Presentation for TLC.                               *)
(***************************************************************************)
EXTENDS Presentation

CONSTANTS s1, s2

\* Two people use the same reference
MCSender    == [s \in Sms |-> IF s = s1 THEN 1 ELSE 2]
MCReference == [s \in Sms |-> 7]

\* Every text of two fragments of two characters, of one or two bytes, or
\* newlines, and every one of three without a header; a short SMS of two
\* fragments
MCTexts ==
  [s \in Sms |->
     IF s = s1
     THEN {<<f, g>> : f \in [1 .. 2 -> {Newline, 1, 2}], g \in [1 .. 2 -> {Newline, 1, 2}]}
          \cup {<<f>> : f \in [1 .. 3 -> {Newline, 1, 2}]}
     ELSE {<< <<1>>, <<1>> >>}]
=============================================================================
