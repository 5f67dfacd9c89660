--------------------------- MODULE MCInspNetwork ---------------------------
(***************************************************************************)
(* Small instances of InspNetwork for TLC.                                 *)
(***************************************************************************)
EXTENDS InspNetwork, TLC

\* Nicks: the administrator's, the control user's, one that everybody likes,
\* and another one
MCAdminNick   == <<0>>
MCControlNick == <<1>>
MCNicks       == {<<2>>, <<3>>}
MCOneNick     == {<<2>>}

\* A database that knows one or two contacts, and an administrator
\* on the network
CONSTANTS a1, a2, r1
MCStoredOne == [a \in {a1} |-> [nick |-> <<2>>, wa |-> TRUE]]
MCStoredAlike == [a \in {a1, a2} |-> [nick |-> <<2>>, wa |-> FALSE]]
MCAdminOnline == [u \in {r1} |-> <<0>>]

\* Contacts are alike
MCSymmetry == Permutations(Addrs)
============================================================================
