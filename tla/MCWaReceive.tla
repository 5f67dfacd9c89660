---------------------------- MODULE MCWaReceive -----------------------------
(***************************************************************************)
(* A small instance of WaReceive for TLC.                                  *)
(***************************************************************************)
EXTENDS WaReceive

CONSTANTS g1, g2, c1

\* Two groups with the same subject
MCSubject == [g \in Groups |-> c1]

Msg(id, chat) == [id |-> id, chat |-> chat, text |-> TRUE, quoted |-> FALSE, file |-> FALSE,
                  ours |-> FALSE, old |-> FALSE]

\* A message of a person with a quotation, a captioned file in a group, an empty
\* message, one of ours to a person, and an old one of ours in a group
MCMsgs == {
  [Msg(1, Person) EXCEPT !.quoted = TRUE],
  [Msg(2, g1)     EXCEPT !.file = TRUE],
  [Msg(3, Person) EXCEPT !.text = FALSE],
  [Msg(4, Person) EXCEPT !.ours = TRUE],
  [Msg(5, g2)     EXCEPT !.ours = TRUE, !.old = TRUE]}
=============================================================================
