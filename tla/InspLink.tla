------------------------------ MODULE InspLink ------------------------------
(***************************************************************************)
(* The InspIRCd link of the bridge (src/src/insp_s2s.rs, with the shared   *)
(* traits of contact_common.rs, control_common.rs and sender_common.rs):   *)
(* the pseudo-server that introduces one IRC user (a ghost) per stored     *)
(* recipient, shows the queued messages to the administrator through the   *)
(* ghosts, and passes what the administrator answers to the modem or to    *)
(* WhatsApp.                                                               *)
(*                                                                         *)
(* The process is single threaded.  One input (a line of the server, or a  *)
(* ContactFactoryCommand) is handled to its end before anything else runs; *)
(* a handler that loops is a sequence of steps here, and the rest of it is *)
(* kept in todo, so that the process may die between two iterations.       *)
(*                                                                         *)
(* Left out: groups and channels, topics, AWAY and host changes, PING and  *)
(* the log.                                                                *)
(***************************************************************************)
EXTENDS Naturals, Sequences, FiniteSets, Maps

CONSTANTS
  Addrs,        \* phone numbers (PduAddress)
  Remotes,      \* UUIDs of the users that belong to the IRC network
  Leaf,         \* those of them that sit on a server which may split
  Nicks,        \* nicks people choose: contacts, the administrator, others
  AdminNick,    \* cfg.admin_nick
  ControlNick,  \* cfg.control_nick
  UserIdLimit,  \* 99999 in get_uuid
  Stored,       \* the recipients in the database at first
  Online,       \* the network's users at first: UUID -> nick
  Events,       \* the kinds of outside events that may happen
  MaxInputs     \* bound: outside events in a behaviour

VARIABLES
  state,               \* LinkState
  users,               \* UUID -> nick, of every user the bridge knows
  contacts,            \* address -> [uuid, wa] of its ghost
  contacts_uuid_pdua,  \* UUID of a ghost -> its address
  next_user_id,        \* number of the next UUID of ours
  outbox,              \* lines sent that the server has not handled yet
  todo,                \* what is left of the handler that runs
  recipients,          \* database: address -> [nick, wa]
  messages,            \* database: the queued messages; ids grow, ts says when
                       \* they were sent (WhatsApp) or stored (SMS)
  cf_rx,               \* ContactFactoryCommands for the link
  mgr_rx,              \* commands for the modem and the WhatsApp manager
  inbound,             \* lines of the server the bridge has not read yet
  accepted,            \* the server has accepted our SERVER line
  net,                 \* UUID -> nick of the network's own users
  departed,            \* those of them that have left (a UUID is not reused)
  seen,                \* UUID -> address of our users, as the server sees them
  got,                 \* messages the administrator was shown, and whose they
                       \* seem to be
  inputs               \* how many outside events have happened

registry == <<users, contacts, contacts_uuid_pdua, next_user_id>>
store    == <<recipients, messages>>
network  == <<accepted, net, departed, seen, got>>
vars == <<state, users, contacts, contacts_uuid_pdua, next_user_id, outbox,
          todo, recipients, messages, cf_rx, mgr_rx, inbound, accepted, net,
          departed, seen, got, inputs>>

-----------------------------------------------------------------------------
(* Data.  A nick is a sequence of numbers: the chosen name, then the        *)
(* numbers that check_nick_for_collisions appended to it.                   *)

Nick     == Seq(Nat)
Control  == 0                       \* control_uuid, "<sid>A00000"
Ids      == 1 .. UserIdLimit        \* "<sid>Z00001" and on
OwnUuids == {Control} \cup Ids
Uuids    == OwnUuids \cup Remotes
Nobody   == "control"               \* what seen has for the control user
Sources  == {"sms", "wa"}

\* "partial": an SMS that cannot be shown (yet): undecodable, or a
\* fragment of a concatenated message whose other fragments are missing
Kinds    == {"sms", "wa", "partial"}
Message  == [id : Nat, ts : Nat, addr : Addrs, kind : Kinds]

Command ==
       [c : {"messages"}]
  \cup [c : {"setup"}, addr : Addrs]
  \cup [c : {"query"}, addr : Addrs, src : Sources]
  \cup [c : {"drop"}, nick : Nick]
  \cup [c : {"nick"}, nick : Nick, new : Nick]
  \cup [c : {"mode"}, nick : Nick, wa : BOOLEAN]
  \cup [c : {"autonick"}, addr : Addrs, new : Nick]

\* meant is not in the program: the contact the administrator wrote to
Request ==
       [r : {"make"}, addr : Addrs]
  \cup [r : {"send"}, addr : Addrs, meant : Addrs]

Task ==
       [t : {"quasiburst"}, left : SUBSET Addrs]
  \cup [t : {"linked", "messages"}]
  \cup [t : {"setup"}, addr : Addrs]
  \cup [t : {"show"}, left : SUBSET Message]

LineOut ==
       [l : {"SERVER"}]
  \cup [l : {"UID"}, uuid : {Control}, addr : {Nobody}]
  \cup [l : {"UID"}, uuid : Ids, addr : Addrs]
  \cup [l : {"QUIT"}, uuid : Ids]
  \cup [l : {"MSG"}, uuid : Ids, to : Remotes, msg : Message]

LineIn ==
       [l : {"SERVER", "ENDBURST", "SQUIT"}]
  \cup [l : {"UID", "NICK"}, uuid : Remotes, nick : Nick]
  \cup [l : {"QUIT"}, uuid : Remotes]
  \cup [l : {"KILL"}, uuid : OwnUuids]
  \cup [l : {"DM"}, from : Remotes, uuid : Ids, meant : Addrs]
  \cup [l : {"CMD"}, from : Remotes, cmd : Command]


ASSUME LinkAssumption ==
  /\ Remotes \cap Nat = {}
  /\ IsFiniteSet(Remotes)
  /\ Leaf \subseteq Remotes
  /\ UserIdLimit \in Nat
  /\ MaxInputs \in Nat
  /\ Nicks \subseteq Nick
  /\ {AdminNick, ControlNick} \subseteq Nick
  /\ AdminNick # ControlNick
  /\ IsPartial(Stored, Addrs, [nick : Nick, wa : BOOLEAN])
  /\ IsPartial(Online, Remotes, Nick)

TypeOK ==
  /\ state \in {"TcpConnected", "ServerSent", "BurstSent", "Linked"}
  /\ IsPartial(users, Uuids, Nick)
  /\ IsPartial(contacts, Addrs, [uuid : Ids, wa : BOOLEAN])
  /\ IsPartial(contacts_uuid_pdua, Ids, Addrs)
  /\ next_user_id \in 1 .. UserIdLimit + 1
  /\ outbox \in Seq(LineOut)
  /\ todo \in Seq(Task)
  /\ IsPartial(recipients, Addrs, [nick : Nick, wa : BOOLEAN])
  /\ messages \in SUBSET Message
  /\ cf_rx \in Seq(Command)
  /\ mgr_rx \in [Sources -> Seq(Request)]
  /\ inbound \in Seq(LineIn)
  /\ accepted \in BOOLEAN
  /\ IsPartial(net, Remotes, Nick)
  /\ departed \in SUBSET Remotes
  /\ IsPartial(seen, OwnUuids, Addrs \cup {Nobody})
  /\ \A u \in DOMAIN seen \ {Control} : seen[u] \in Addrs
  /\ got \in Seq([msg : Message, as : Addrs])
  /\ inputs \in 0 .. MaxInputs

Init ==
  /\ state = "TcpConnected"
  /\ users = Empty
  /\ contacts = Empty
  /\ contacts_uuid_pdua = Empty
  /\ next_user_id = 1
  /\ outbox = <<>>
  /\ todo = <<>>
  /\ cf_rx = <<>>
  /\ mgr_rx = [s \in Sources |-> <<>>]
  /\ recipients = Stored
  /\ messages = {}
  /\ inbound = <<>>
  /\ accepted = FALSE
  /\ net = Online
  /\ departed = {}
  /\ seen = Empty
  /\ got = <<>>
  /\ inputs = 0

-----------------------------------------------------------------------------
(* Nicks *)

\* UUIDs of the users the bridge takes for the administrator
Admins == {u \in DOMAIN users : users[u] = AdminNick}

Taken(n) == n = AdminNick \/ \E u \in DOMAIN users : users[u] = n

\* Mutant: nobody looks whether the nick is taken
SettledBlindly(n) == {n}

\* The nick a ghost gets that wants nick n: n itself, or n with the first
\* number that makes it free
Settled(n) ==
  IF ~Taken(n) THEN {n}
  ELSE {Append(n, i) : i \in {k \in 0 .. Cardinality(DOMAIN users) + 1 :
                                /\ ~Taken(Append(n, k))
                                /\ \A j \in 0 .. k - 1 : Taken(Append(n, j))}}

-----------------------------------------------------------------------------
(* Ghosts.  Idle: no handler is running.  Done: the step ends with the rest *)
(* of the handler that runs still to do.                                    *)

Idle == todo = <<>>
Busy(t) == todo # <<>> /\ Head(todo).t = t
Done == todo' = Tail(todo)
Send(line) == outbox' = Append(outbox, line)

\* Mutants: one UUID too many; the UUID of a user that is gone is used again
UuidsLeftLate == next_user_id <= UserIdLimit + 1
GetUuidReused ==
  CHOOSE u \in 1 .. UserIdLimit + 1 : u \notin DOMAIN users /\ \A v \in 1 .. u - 1 : v \in DOMAIN users

\* get_uuid: numbers are given out once
UuidsLeft == next_user_id <= UserIdLimit
GetUuid   == next_user_id

\* Mutants: the contact stays behind; the ghost is not set up again
RemoveUserOnly(u) ==
  /\ users' = Without(users, {u})
  /\ contacts_uuid_pdua' = Without(contacts_uuid_pdua, {u})
  /\ UNCHANGED <<contacts, todo, next_user_id>>

RemoveUserForGood(u) ==
  /\ users' = Without(users, {u})
  /\ contacts_uuid_pdua' = Without(contacts_uuid_pdua, {u})
  /\ contacts' = Without(contacts, {contacts_uuid_pdua[v] : v \in {u} \cap DOMAIN contacts_uuid_pdua})
  /\ UNCHANGED <<todo, next_user_id>>

\* remove_user(uuid, TRUE): a ghost that is removed is set up again
RemoveUser(u) ==
  /\ users' = Without(users, {u})
  /\ contacts_uuid_pdua' = Without(contacts_uuid_pdua, {u})
  /\ IF u \in DOMAIN contacts_uuid_pdua
       THEN LET a == contacts_uuid_pdua[u] IN
            /\ contacts' = Without(contacts, {a})
            /\ todo' = <<[t |-> "setup", addr |-> a]>>
       ELSE UNCHANGED <<contacts, todo>>
  /\ UNCHANGED next_user_id

\* setup_contact and setup_recipient for an address that has no recipient,
\* or has its ghost already
SetupNothing ==
  /\ Busy("setup")
  /\ LET a == Head(todo).addr IN a \notin DOMAIN recipients \/ a \in DOMAIN contacts
  /\ Done
  /\ UNCHANGED <<state, registry, outbox, store, cf_rx, mgr_rx, inbound, network, inputs>>

\* setup_contact_for, with get_uuid and new_user
SetupGhost ==
  /\ Busy("setup")
  /\ UuidsLeft
  /\ LET a == Head(todo).addr
         u == GetUuid IN
     /\ a \in DOMAIN recipients
     /\ a \notin DOMAIN contacts
     /\ \E n \in Settled(recipients[a].nick) :
          /\ recipients' = [recipients EXCEPT ![a].nick = n]
          /\ users' = Put(users, u, n)
     /\ contacts' = Put(contacts, a, [uuid |-> u, wa |-> recipients[a].wa])
     /\ contacts_uuid_pdua' = Put(contacts_uuid_pdua, u, a)
     /\ next_user_id' = next_user_id + 1
     /\ Send([l |-> "UID", uuid |-> u, addr |-> a])
  /\ Done
  /\ UNCHANGED <<state, messages, cf_rx, mgr_rx, inbound, network, inputs>>

\* The process has died and runs again with nothing in memory; the server
\* notices that the link is gone
Restarted ==
  /\ state' = "TcpConnected"
  /\ users' = Empty
  /\ contacts' = Empty
  /\ contacts_uuid_pdua' = Empty
  /\ next_user_id' = 1
  /\ outbox' = <<>>
  /\ todo' = <<>>
  /\ cf_rx' = <<>>
  /\ mgr_rx' = [s \in Sources |-> <<>>]
  /\ inbound' = <<>>
  /\ accepted' = FALSE
  /\ seen' = Empty
  /\ UNCHANGED <<net, departed, got>>

\* get_uuid fails: the error ends the link, and main panics
UuidsExhausted ==
  /\ Busy("setup")
  /\ ~UuidsLeft
  /\ LET a == Head(todo).addr IN
     /\ a \in DOMAIN recipients
     /\ a \notin DOMAIN contacts
     /\ \E n \in Settled(recipients[a].nick) :
          recipients' = [recipients EXCEPT ![a].nick = n]
  /\ Restarted
  /\ UNCHANGED <<messages, inputs>>

-----------------------------------------------------------------------------
(* The handshake *)

\* poll: CAPAB and SERVER lines when the TCP connection is there
SendServer ==
  /\ state = "TcpConnected"
  /\ state' = "ServerSent"
  /\ Send([l |-> "SERVER"])
  /\ UNCHANGED <<registry, todo, store, cf_rx, mgr_rx, inbound, network, inputs>>

\* A line of the server is read when no handler is running
Read(l) ==
  /\ Idle
  /\ state # "TcpConnected"
  /\ inbound # <<>>
  /\ Head(inbound).l = l
  /\ inbound' = Tail(inbound)

\* The server's SERVER line: do_burst introduces the control user
ReadServer ==
  /\ Read("SERVER")
  /\ state' = "BurstSent"
  /\ users' = Put(users, Control, ControlNick)
  /\ Send([l |-> "UID", uuid |-> Control, addr |-> Nobody])
  /\ UNCHANGED <<contacts, contacts_uuid_pdua, next_user_id, todo, store, cf_rx,
                 mgr_rx, network, inputs>>

\* The end of the netburst: do_quasiburst, then on_linked
ReadEndburst ==
  /\ Read("ENDBURST")
  /\ todo' = <<[t |-> "quasiburst", left |-> DOMAIN recipients], [t |-> "linked"]>>
  /\ UNCHANGED <<state, registry, outbox, store, cf_rx, mgr_rx, network, inputs>>

\* One recipient of the loop of do_quasiburst; their order is the database's
QuasiburstStep ==
  /\ Busy("quasiburst")
  /\ \E a \in Head(todo).left :
       todo' = <<[t |-> "setup", addr |-> a],
                 [t |-> "quasiburst", left |-> Head(todo).left \ {a}]>> \o Tail(todo)
  /\ UNCHANGED <<state, registry, outbox, store, cf_rx, mgr_rx, inbound, network, inputs>>

QuasiburstEnd ==
  /\ Busy("quasiburst")
  /\ Head(todo).left = {}
  /\ Done
  /\ UNCHANGED <<state, registry, outbox, store, cf_rx, mgr_rx, inbound, network, inputs>>

BecomeLinked ==
  /\ Busy("linked")
  /\ state' = "Linked"
  /\ todo' = <<[t |-> "messages"]>>
  /\ UNCHANGED <<registry, outbox, store, cf_rx, mgr_rx, inbound, network, inputs>>

-----------------------------------------------------------------------------
(* What the server says of the network's users *)

\* Mutant: the administrator's return is not noticed
ReadUidOnly ==
  /\ Read("UID")
  /\ users' = Put(users, Head(inbound).uuid, Head(inbound).nick)
  /\ UNCHANGED <<state, contacts, contacts_uuid_pdua, next_user_id, outbox, todo,
                 store, cf_rx, mgr_rx, network, inputs>>

\* UID: when it is the administrator, the queued messages are processed
ReadUid ==
  /\ Read("UID")
  /\ users' = Put(users, Head(inbound).uuid, Head(inbound).nick)
  /\ todo' = IF Head(inbound).nick = AdminNick THEN <<[t |-> "messages"]>> ELSE <<>>
  /\ UNCHANGED <<state, contacts, contacts_uuid_pdua, next_user_id, outbox, store,
                 cf_rx, mgr_rx, network, inputs>>

\* NICK: nothing but the nick is changed, whoever comes back by it
ReadNick ==
  /\ Read("NICK")
  /\ LET u == Head(inbound).uuid IN
     users' = IF u \in DOMAIN users THEN [users EXCEPT ![u] = Head(inbound).nick] ELSE users
  /\ UNCHANGED <<state, contacts, contacts_uuid_pdua, next_user_id, outbox, todo,
                 store, cf_rx, mgr_rx, network, inputs>>

ReadQuitOrKill ==
  /\ Read("QUIT") \/ Read("KILL")
  /\ RemoveUser(Head(inbound).uuid)
  /\ UNCHANGED <<state, outbox, store, cf_rx, mgr_rx, network, inputs>>

\* SQUIT: the users of the server that split are forgotten
ReadSquit ==
  /\ Read("SQUIT")
  /\ users' = Without(users, Leaf)
  /\ UNCHANGED <<state, contacts, contacts_uuid_pdua, next_user_id, outbox, todo,
                 store, cf_rx, mgr_rx, network, inputs>>

-----------------------------------------------------------------------------
(* What the administrator says *)

Ask(src, request) == mgr_rx' = [mgr_rx EXCEPT ![src] = Append(@, request)]

\* PRIVMSG to a ghost: passed on, by the ghost's mode, when it is from the
\* administrator and the ghost still exists
ReadDirectMessage ==
  /\ Read("DM")
  /\ LET line == Head(inbound) IN
     IF line.from \in Admins /\ line.uuid \in DOMAIN contacts_uuid_pdua
     THEN LET a == contacts_uuid_pdua[line.uuid] IN
          Ask(IF contacts[a].wa THEN "wa" ELSE "sms",
              [r |-> "send", addr |-> a, meant |-> line.meant])
     ELSE UNCHANGED mgr_rx
  /\ UNCHANGED <<state, registry, outbox, todo, store, cf_rx, network, inputs>>

\* PRIVMSG to the control user: process_admin_command queues a command
ReadCommand ==
  /\ Read("CMD")
  /\ cf_rx' = IF Head(inbound).from \in Admins
              THEN Append(cf_rx, Head(inbound).cmd) ELSE cf_rx
  /\ UNCHANGED <<state, registry, outbox, todo, store, mgr_rx, network, inputs>>

-----------------------------------------------------------------------------
(* process_messages *)

\* The messages queued now are gone through, if the administrator is there
StartMessages ==
  /\ Busy("messages")
  /\ todo' = (IF Admins = {} THEN <<>> ELSE <<[t |-> "show", left |-> messages]>>)
             \o Tail(todo)
  /\ UNCHANGED <<state, registry, outbox, store, cf_rx, mgr_rx, inbound, network, inputs>>

\* get_all_messages has them by timestamp, then by id: m is the next one of
\* the loop
NextToShow(m) ==
  /\ Busy("show")
  /\ m \in Head(todo).left
  /\ \A x \in Head(todo).left : m.ts < x.ts \/ (m.ts = x.ts /\ m.id <= x.id)

DoneWith(m) == todo' = <<[t |-> "show", left |-> Head(todo).left \ {m}]>> \o Tail(todo)

MessagesEnd ==
  /\ Busy("show")
  /\ Head(todo).left = {}
  /\ Done
  /\ UNCHANGED <<state, registry, outbox, store, cf_rx, mgr_rx, inbound, network, inputs>>

\* request_contact for a sender without a recipient: the message waits
MessageOfStranger(m) ==
  /\ NextToShow(m)
  /\ m.addr \notin DOMAIN contacts
  /\ m.addr \notin DOMAIN recipients
  /\ Ask(IF m.kind = "wa" THEN "wa" ELSE "sms", [r |-> "make", addr |-> m.addr])
  /\ DoneWith(m)
  /\ UNCHANGED <<state, registry, outbox, store, cf_rx, inbound, network, inputs>>

\* request_contact for a sender whose ghost is missing: set up first
MessageNeedsGhost(m) ==
  /\ NextToShow(m)
  /\ m.addr \notin DOMAIN contacts
  /\ m.addr \in DOMAIN recipients
  /\ todo' = <<[t |-> "setup", addr |-> m.addr]>> \o todo
  /\ UNCHANGED <<state, registry, outbox, store, cf_rx, mgr_rx, inbound, network, inputs>>

\* set_wa_state, in the database and for the ghost
SetMode(a, wa) ==
  /\ contacts' = [contacts EXCEPT ![a].wa = wa]
  /\ recipients' = [recipients EXCEPT ![a].wa = wa]

\* Mutant: the message is not deleted
ProcessMsgKeeping(m) ==
  /\ IF m.kind = "partial" THEN UNCHANGED outbox
     ELSE \E adm \in Admins :
            Send([l |-> "MSG", uuid |-> contacts[m.addr].uuid, to |-> adm, msg |-> m])
  /\ UNCHANGED messages

\* process_msg_plain or process_msg_pdu: m goes from the ghost to
\* private_target and is deleted; what cannot be shown stays
ProcessMsg(m) ==
  IF m.kind = "partial" THEN UNCHANGED <<outbox, messages>>
  ELSE /\ \E adm \in Admins :
            Send([l |-> "MSG", uuid |-> contacts[m.addr].uuid, to |-> adm, msg |-> m])
       /\ messages' = messages \ {m}

\* The contact's mode follows the way its message came
MessageShown(m) ==
  /\ NextToShow(m)
  /\ m.addr \in DOMAIN contacts
  /\ SetMode(m.addr, m.kind = "wa")
  /\ ProcessMsg(m)
  /\ DoneWith(m)
  /\ UNCHANGED <<state, users, contacts_uuid_pdua, next_user_id, cf_rx, mgr_rx,
                 inbound, network, inputs>>

-----------------------------------------------------------------------------
(* ContactFactoryCommands, read only when the link is up *)

\* Mutant: they are read as soon as the process runs
TakeEarly(c) ==
  /\ Idle
  /\ cf_rx # <<>>
  /\ Head(cf_rx).c = c
  /\ cf_rx' = Tail(cf_rx)

Take(c) ==
  /\ Idle
  /\ state = "Linked"
  /\ cf_rx # <<>>
  /\ Head(cf_rx).c = c
  /\ cf_rx' = Tail(cf_rx)

TakeProcessMessages ==
  /\ Take("messages")
  /\ todo' = <<[t |-> "messages"]>>
  /\ UNCHANGED <<state, registry, outbox, store, mgr_rx, inbound, network, inputs>>

TakeSetupContact ==
  /\ Take("setup")
  /\ todo' = <<[t |-> "setup", addr |-> Head(cf_rx).addr]>>
  /\ UNCHANGED <<state, registry, outbox, store, mgr_rx, inbound, network, inputs>>

\* query_contact: an unknown number is asked for
TakeQueryContact ==
  /\ Take("query")
  /\ LET a == Head(cf_rx).addr IN
     IF a \in DOMAIN recipients
     THEN todo' = <<[t |-> "setup", addr |-> a]>> /\ UNCHANGED mgr_rx
     ELSE Ask(Head(cf_rx).src, [r |-> "make", addr |-> a]) /\ UNCHANGED todo
  /\ UNCHANGED <<state, registry, outbox, store, inbound, network, inputs>>

\* resolve_nick: the ghosts that bear nick n
Named(n) == {u \in DOMAIN users : users[u] = n /\ u \in DOMAIN contacts_uuid_pdua}

\* Mutant: the server is not told
RemoveContactSilently(u) ==
  /\ users' = Without(users, {u})
  /\ contacts' = Without(contacts, {contacts_uuid_pdua[u]})
  /\ contacts_uuid_pdua' = Without(contacts_uuid_pdua, {u})
  /\ UNCHANGED outbox

\* remove_contact_for, for the ghost u
RemoveContact(u) ==
  /\ Send([l |-> "QUIT", uuid |-> u])
  /\ users' = Without(users, {u})
  /\ contacts' = Without(contacts, {contacts_uuid_pdua[u]})
  /\ contacts_uuid_pdua' = Without(contacts_uuid_pdua, {u})

\* drop_contact_by_nick and drop_contact: the recipient goes as well
TakeDropContactByNick ==
  /\ Take("drop")
  /\ IF Named(Head(cf_rx).nick) = {}
     THEN UNCHANGED <<users, contacts, contacts_uuid_pdua, outbox, recipients>>
     ELSE \E u \in Named(Head(cf_rx).nick) :
          /\ recipients' = Without(recipients, {contacts_uuid_pdua[u]})
          /\ RemoveContact(u)
  /\ UNCHANGED <<state, next_user_id, todo, messages, mgr_rx, inbound, network, inputs>>

\* Mutant: the new nick is not stored
ChangeNickUnstored(a, wanted) ==
  LET u == contacts[a].uuid IN
  /\ \E n \in IF users[u] = wanted THEN {wanted} ELSE Settled(wanted) :
       users' = [users EXCEPT ![u] = n]
  /\ UNCHANGED recipients

\* forward_cmd(ChangeNick) for the contact of address a
ChangeNick(a, wanted) ==
  LET u == contacts[a].uuid IN
  IF users[u] = wanted THEN UNCHANGED <<users, recipients>>
  ELSE \E n \in Settled(wanted) :
       /\ users' = [users EXCEPT ![u] = n]
       /\ recipients' = [recipients EXCEPT ![a].nick = n]

TakeChangeNickByNick ==
  /\ Take("nick")
  /\ IF Named(Head(cf_rx).nick) = {} THEN UNCHANGED <<users, recipients>>
     ELSE \E u \in Named(Head(cf_rx).nick) :
          ChangeNick(contacts_uuid_pdua[u], Head(cf_rx).new)
  /\ UNCHANGED <<state, contacts, contacts_uuid_pdua, next_user_id, outbox, todo,
                 messages, mgr_rx, inbound, network, inputs>>

\* ChangeNick by address, from WhatsApp's contact list
TakeChangeNick ==
  /\ Take("autonick")
  /\ IF Head(cf_rx).addr \in DOMAIN contacts
     THEN ChangeNick(Head(cf_rx).addr, Head(cf_rx).new)
     ELSE UNCHANGED <<users, recipients>>
  /\ UNCHANGED <<state, contacts, contacts_uuid_pdua, next_user_id, outbox, todo,
                 messages, mgr_rx, inbound, network, inputs>>

TakeSetWhatsappByNick ==
  /\ Take("mode")
  /\ IF Named(Head(cf_rx).nick) = {} THEN UNCHANGED <<contacts, recipients>>
     ELSE \E u \in Named(Head(cf_rx).nick) :
          SetMode(contacts_uuid_pdua[u], Head(cf_rx).wa)
  /\ UNCHANGED <<state, users, contacts_uuid_pdua, next_user_id, outbox, todo,
                 messages, mgr_rx, inbound, network, inputs>>

-----------------------------------------------------------------------------
(* One step of the poll of the link *)

Handler ==
  \/ SetupNothing \/ SetupGhost \/ UuidsExhausted
  \/ QuasiburstStep \/ QuasiburstEnd \/ BecomeLinked
  \/ StartMessages \/ MessagesEnd
  \/ \E m \in messages : MessageOfStranger(m) \/ MessageNeedsGhost(m) \/ MessageShown(m)

ReadLine ==
  \/ ReadServer \/ ReadEndburst
  \/ ReadUid
  \/ ReadNick \/ ReadQuitOrKill \/ ReadSquit
  \/ ReadDirectMessage \/ ReadCommand

TakeCommand ==
  \/ TakeProcessMessages \/ TakeSetupContact \/ TakeQueryContact
  \/ TakeDropContactByNick \/ TakeChangeNickByNick \/ TakeChangeNick
  \/ TakeSetWhatsappByNick

Bridge == SendServer \/ Handler \/ ReadLine \/ TakeCommand
=============================================================================
