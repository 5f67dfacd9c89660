-------------------------------- MODULE Maps --------------------------------
(***************************************************************************)
(* Maps: functions whose domain grows and shrinks, for HashMap (insert,    *)
(* remove) and for a table of the database (upsert, delete).               *)
(***************************************************************************)

Put(f, x, v)  == [y \in DOMAIN f \cup {x} |-> IF y = x THEN v ELSE f[y]]
Without(f, S) == [y \in DOMAIN f \ S |-> f[y]]
Empty         == [x \in {} |-> x]
IsPartial(f, S, T) == DOMAIN f \subseteq S /\ f \in [DOMAIN f -> T]

\* What is in a sequence
Elements(s) == {s[i] : i \in DOMAIN s}
=============================================================================
