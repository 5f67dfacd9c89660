----------------------------- MODULE InspProofs -----------------------------
(***************************************************************************)
(* Proofs about InspNetwork: the inductive invariant of the link, whom a   *)
(* ghost stands for, which recipients have a ghost, and what the server    *)
(* knows of our users.                                                     *)
(***************************************************************************)
EXTENDS InspNetwork, MapsProofs, FiniteSetTheorems

-----------------------------------------------------------------------------
(* The tasks, lines and commands that the steps find and leave *)

\* The task at the head of todo is a proper one, and so are those after it.
LEMMA TaskAtHand ==
  ASSUME TypeOK, todo # <<>>
  PROVE  /\ Tail(todo) \in Seq(Task)
         /\ Head(todo).t = "setup" => Head(todo).addr \in Addrs
         /\ Head(todo).t = "quasiburst" => Head(todo).left \in SUBSET Addrs
         /\ Head(todo).t = "show" => Head(todo).left \in SUBSET Message
<1>1. Tail(todo) \in Seq(Task) /\ Head(todo) \in Task
  BY SeqType DEF TypeOK
<1> QED
  BY <1>1 DEF Task

\* A line of the server that a handler reads is a line of the type of inbound.
LEMMA LineAtHand ==
  ASSUME TypeOK, inbound # <<>>
  PROVE  /\ Tail(inbound) \in Seq(LineIn)
         /\ Head(inbound).l \in {"UID", "NICK"} =>
              Head(inbound).uuid \in Remotes /\ Head(inbound).nick \in Nick
         /\ Head(inbound).l = "QUIT" => Head(inbound).uuid \in Remotes
         /\ Head(inbound).l = "KILL" => Head(inbound).uuid \in OwnUuids
         /\ Head(inbound).l = "DM" =>
              Head(inbound).uuid \in Ids /\ Head(inbound).meant \in Addrs
         /\ Head(inbound).l = "CMD" => Head(inbound).cmd \in Command
<1>1. Tail(inbound) \in Seq(LineIn) /\ Head(inbound) \in LineIn
  BY SeqType DEF TypeOK
<1> QED
  BY <1>1 DEF LineIn

\* A ContactFactoryCommand that is taken is one of the type of cf_rx.
LEMMA CommandAtHand ==
  ASSUME TypeOK, cf_rx # <<>>
  PROVE  /\ Tail(cf_rx) \in Seq(Command)
         /\ Head(cf_rx).c \in {"setup", "query", "autonick"} => Head(cf_rx).addr \in Addrs
         /\ Head(cf_rx).c = "query" => Head(cf_rx).src \in Sources
         /\ Head(cf_rx).c \in {"nick", "autonick"} => Head(cf_rx).new \in Nick
         /\ Head(cf_rx).c = "mode" => Head(cf_rx).wa \in BOOLEAN
<1>1. Tail(cf_rx) \in Seq(Command) /\ Head(cf_rx) \in Command
  BY SeqType DEF TypeOK
<1> QED
  BY <1>1 DEF Command

\* The loops of the handlers (do_quasiburst, process_messages) put only
\* proper tasks on todo.
LEMMA NewTask ==
  /\ \A a \in Addrs : <<[t |-> "setup", addr |-> a]>> \in Seq(Task)
  /\ <<[t |-> "messages"]>> \in Seq(Task)
  /\ <<[t |-> "linked"]>> \in Seq(Task)
  /\ \A X \in SUBSET Addrs : <<[t |-> "quasiburst", left |-> X]>> \in Seq(Task)
  /\ \A X \in SUBSET Message : <<[t |-> "show", left |-> X]>> \in Seq(Task)
BY DEF Task

\* A nick that is settled on is a nick that nobody has
LEMMA SettledFree ==
  ASSUME NEW n \in Nick, NEW m \in Settled(n)
  PROVE  m \in Nick /\ ~Taken(m)
<1>1. CASE ~Taken(n)
  BY <1>1 DEF Settled
<1>2. CASE Taken(n)
  <2>1. PICK i \in {k \in 0 .. Cardinality(DOMAIN users) + 1 : ~Taken(Append(n, k))} : m = Append(n, i)
    BY <1>2 DEF Settled
  <2>2. i \in Nat
    BY <2>1
  <2> QED
    BY <2>1, <2>2 DEF Nick
<1> QED
  BY <1>1, <1>2

-----------------------------------------------------------------------------
(* Type correctness, action by action *)

\* A process that has just started (main) has the right types.
LEMMA RestartedType ==
  ASSUME TypeOK, Restarted, messages' = messages, inputs' \in 0 .. MaxInputs,
         IsPartial(recipients', Addrs, [nick : Nick, wa : BOOLEAN])
  PROVE  TypeOK'
<1>1. /\ IsPartial(users', Uuids, Nick)
      /\ IsPartial(contacts', Addrs, [uuid : Ids, wa : BOOLEAN])
      /\ IsPartial(contacts_uuid_pdua', Ids, Addrs)
      /\ IsPartial(seen', OwnUuids, Addrs \cup {Nobody})
      /\ DOMAIN seen' = {}
  BY EmptyType DEF Restarted
<1>2. mgr_rx' \in [Sources -> Seq(Request)]
  BY DEF Restarted
<1>3. next_user_id' \in 1 .. UserIdLimit + 1
  BY LinkAssumption DEF Restarted
<1>4. outbox' \in Seq(LineOut) /\ todo' \in Seq(Task) /\ cf_rx' \in Seq(Command) /\ inbound' \in Seq(LineIn)
  BY DEF Restarted
<1>5. state' = "TcpConnected" /\ accepted' = FALSE /\ net' = net /\ departed' = departed /\ got' = got
  BY DEF Restarted
<1> QED
  BY <1>1, <1>2, <1>3, <1>4, <1>5 DEF TypeOK

\* What is left of the loop of process_messages is a proper task.
LEMMA DoneWithType ==
  ASSUME TypeOK, NEW m, Busy("show"), DoneWith(m)
  PROVE  todo' \in Seq(Task)
<1>1. Head(todo).left \ {m} \in SUBSET Message
  BY TaskAtHand DEF Busy
<1>2. <<[t |-> "show", left |-> Head(todo).left \ {m}]>> \in Seq(Task)
  BY <1>1, NewTask
<1> QED
  BY <1>2, SeqType, TaskAtHand DEF Busy, DoneWith

\* A request to a manager (request_contact, private messages) keeps the type
\* of its queue.
LEMMA AskType ==
  ASSUME TypeOK, NEW s \in Sources, NEW q \in Request, Ask(s, q)
  PROVE  mgr_rx' \in [Sources -> Seq(Request)]
<1>1. Append(mgr_rx[s], q) \in Seq(Request)
  BY DEF TypeOK
<1> QED
  BY <1>1 DEF Ask, TypeOK

\* set_wa_state keeps the types of the contacts and the recipients.
LEMMA SetModeType ==
  ASSUME TypeOK, NEW a \in Addrs, NEW wa \in BOOLEAN, SetMode(a, wa)
  PROVE  /\ IsPartial(contacts', Addrs, [uuid : Ids, wa : BOOLEAN])
         /\ IsPartial(recipients', Addrs, [nick : Nick, wa : BOOLEAN])
<1>1. IsPartial(contacts', Addrs, [uuid : Ids, wa : BOOLEAN])
  <2>1. /\ contacts' = [contacts EXCEPT ![a].wa = wa] /\ DOMAIN contacts \subseteq Addrs
        /\ contacts \in [DOMAIN contacts -> [uuid : Ids, wa : BOOLEAN]]
    BY DEF SetMode, TypeOK, IsPartial
  <2>2. DOMAIN contacts' = DOMAIN contacts /\ contacts' = [b \in DOMAIN contacts |-> contacts'[b]]
    BY <2>1
  <2>3. ASSUME NEW b \in DOMAIN contacts
        PROVE  contacts'[b] \in [uuid : Ids, wa : BOOLEAN]
    <3>1. contacts[b] \in [uuid : Ids, wa : BOOLEAN]
      BY <2>1
    <3>2. contacts'[b] = IF b = a THEN [contacts[b] EXCEPT !.wa = wa] ELSE contacts[b]
      BY <2>1
    <3> QED
      BY <3>1, <3>2
  <2>4. contacts' \in [DOMAIN contacts' -> [uuid : Ids, wa : BOOLEAN]]
    BY <2>2, <2>3
  <2> QED
    BY <2>1, <2>2, <2>4 DEF IsPartial
<1>2. IsPartial(recipients', Addrs, [nick : Nick, wa : BOOLEAN])
  <2>1. /\ recipients' = [recipients EXCEPT ![a].wa = wa] /\ DOMAIN recipients \subseteq Addrs
        /\ recipients \in [DOMAIN recipients -> [nick : Nick, wa : BOOLEAN]]
    BY DEF SetMode, TypeOK, IsPartial
  <2>2. DOMAIN recipients' = DOMAIN recipients /\ recipients' = [b \in DOMAIN recipients |-> recipients'[b]]
    BY <2>1
  <2>3. ASSUME NEW b \in DOMAIN recipients
        PROVE  recipients'[b] \in [nick : Nick, wa : BOOLEAN]
    <3>1. recipients[b] \in [nick : Nick, wa : BOOLEAN]
      BY <2>1
    <3>2. recipients'[b] = IF b = a THEN [recipients[b] EXCEPT !.wa = wa] ELSE recipients[b]
      BY <2>1
    <3> QED
      BY <3>1, <3>2
  <2>4. recipients' \in [DOMAIN recipients' -> [nick : Nick, wa : BOOLEAN]]
    BY <2>2, <2>3
  <2> QED
    BY <2>1, <2>2, <2>4 DEF IsPartial
<1> QED
  BY <1>1, <1>2

\* The steps of the handler that runs (setup_contact_for, do_quasiburst,
\* on_linked, process_messages) keep the types.
LEMMA HandlerType ==
  ASSUME TypeOK, NicksUnique, Handler
  PROVE  TypeOK'
<1> USE LinkAssumption
<1>1. CASE SetupNothing
  BY <1>1, TaskAtHand DEF SetupNothing, Busy, Done, TypeOK, registry, store, network
<1>2. CASE SetupGhost
  <2> DEFINE a == Head(todo).addr
             u == next_user_id
  <2>1. a \in Addrs /\ u \in Ids /\ u + 1 \in 1 .. UserIdLimit + 1
    BY <1>2, TaskAtHand DEF SetupGhost, Busy, UuidsLeft, TypeOK, Ids
  <2>2. PICK n \in Settled(recipients[a].nick) :
          /\ recipients' = [recipients EXCEPT ![a].nick = n]
          /\ users' = Put(users, u, n)
    BY <1>2 DEF SetupGhost, GetUuid
  <2>3. recipients[a] \in [nick : Nick, wa : BOOLEAN]
    BY <1>2 DEF SetupGhost, TypeOK, IsPartial
  <2>4. n \in Nick
    BY <2>3, SettledFree
  <2>5. IsPartial(users', Uuids, Nick)
    BY <2>1, <2>2, <2>4, PutType DEF TypeOK, Uuids, OwnUuids
  <2>6. IsPartial(recipients', Addrs, [nick : Nick, wa : BOOLEAN])
    BY <2>2, <2>3, <2>4 DEF TypeOK, IsPartial
  <2>7. IsPartial(contacts', Addrs, [uuid : Ids, wa : BOOLEAN])
    BY <1>2, <2>1, <2>3, PutType DEF SetupGhost, GetUuid, TypeOK
  <2>8. IsPartial(contacts_uuid_pdua', Ids, Addrs)
    BY <1>2, <2>1, PutType DEF SetupGhost, GetUuid, TypeOK
  <2>9. outbox' \in Seq(LineOut)
    BY <1>2, <2>1 DEF SetupGhost, GetUuid, Send, LineOut, TypeOK
  <2> QED
    BY <1>2, <2>1, <2>5, <2>6, <2>7, <2>8, <2>9, TaskAtHand
    DEF SetupGhost, Busy, Done, TypeOK, network
<1>3. CASE UuidsExhausted
  <2> DEFINE a == Head(todo).addr
  <2>1. PICK n \in Settled(recipients[a].nick) : recipients' = [recipients EXCEPT ![a].nick = n]
    BY <1>3 DEF UuidsExhausted
  <2>2. recipients[a] \in [nick : Nick, wa : BOOLEAN]
    BY <1>3 DEF UuidsExhausted, TypeOK, IsPartial
  <2>3. IsPartial(recipients', Addrs, [nick : Nick, wa : BOOLEAN])
    BY <2>1, <2>2, SettledFree DEF TypeOK, IsPartial
  <2>4. Restarted /\ messages' = messages /\ inputs' \in 0 .. MaxInputs
    BY <1>3 DEF UuidsExhausted, TypeOK
  <2> QED
    BY <2>3, <2>4, RestartedType
<1>4. CASE QuasiburstStep \/ QuasiburstEnd \/ BecomeLinked
  <2>1. CASE QuasiburstStep
    <3>1. PICK a \in Head(todo).left :
            todo' = <<[t |-> "setup", addr |-> a],
                      [t |-> "quasiburst", left |-> Head(todo).left \ {a}]>> \o Tail(todo)
      BY <2>1 DEF QuasiburstStep
    <3>2. a \in Addrs /\ Head(todo).left \ {a} \in SUBSET Addrs /\ Tail(todo) \in Seq(Task)
      BY <2>1, TaskAtHand DEF QuasiburstStep, Busy
    <3>3. <<[t |-> "setup", addr |-> a], [t |-> "quasiburst", left |-> Head(todo).left \ {a}]>> \in Seq(Task)
      BY <3>2 DEF Task
    <3>4. todo' \in Seq(Task)
      BY <3>1, <3>2, <3>3, SeqType
    <3> QED
      BY <2>1, <3>4 DEF QuasiburstStep, TypeOK, registry, store, network
  <2>2. CASE QuasiburstEnd
    BY <2>2, TaskAtHand DEF QuasiburstEnd, Busy, Done, TypeOK, registry, store, network
  <2>3. CASE BecomeLinked
    BY <2>3, NewTask DEF BecomeLinked, TypeOK, registry, store, network
  <2> QED
    BY <1>4, <2>1, <2>2, <2>3
<1>5. CASE StartMessages \/ MessagesEnd
  <2>1. CASE StartMessages
    <3> DEFINE first == IF Admins = {} THEN <<>> ELSE <<[t |-> "show", left |-> messages]>>
    <3>1. first \in Seq(Task)
      BY NewTask DEF TypeOK
    <3>2. todo' \in Seq(Task)
      BY <2>1, <3>1, SeqType, TaskAtHand DEF StartMessages, Busy
    <3> QED
      BY <2>1, <3>2 DEF StartMessages, TypeOK, registry, store, network
  <2>2. CASE MessagesEnd
    BY <2>2, TaskAtHand DEF MessagesEnd, Busy, Done, TypeOK, registry, store, network
  <2> QED
    BY <1>5, <2>1, <2>2
<1>6. ASSUME NEW m \in messages, MessageOfStranger(m) \/ MessageNeedsGhost(m)
      PROVE  TypeOK'
  <2>1. m \in Message /\ m.addr \in Addrs
    BY DEF TypeOK, Message
  <2>2. CASE MessageOfStranger(m)
    <3>1. todo' \in Seq(Task)
      BY <2>2, DoneWithType DEF MessageOfStranger, NextToShow
    <3>2. mgr_rx' \in [Sources -> Seq(Request)]
      BY <2>1, <2>2, AskType DEF MessageOfStranger, Request, Sources
    <3> QED
      BY <2>2, <3>1, <3>2 DEF MessageOfStranger, TypeOK, registry, store, network
  <2>3. CASE MessageNeedsGhost(m)
    <3>1. todo' \in Seq(Task)
      BY <2>1, <2>3, NewTask, SeqType DEF MessageNeedsGhost, TypeOK
    <3> QED
      BY <2>3, <3>1 DEF MessageNeedsGhost, TypeOK, registry, store, network
  <2> QED
    BY <1>6, <2>2, <2>3
<1>7. ASSUME NEW m \in messages, MessageShown(m)
      PROVE  TypeOK'
  <2>1. m \in Message /\ m.addr \in Addrs
    BY DEF TypeOK, Message
  <2>2. todo' \in Seq(Task)
    BY <1>7, DoneWithType DEF MessageShown, NextToShow
  <2>3. /\ IsPartial(contacts', Addrs, [uuid : Ids, wa : BOOLEAN])
        /\ IsPartial(recipients', Addrs, [nick : Nick, wa : BOOLEAN])
    BY <1>7, <2>1, SetModeType DEF MessageShown
  <2>4. messages' \in SUBSET Message
    BY <1>7 DEF MessageShown, ProcessMsg, TypeOK
  <2>5. outbox' \in Seq(LineOut)
    <3>1. CASE m.kind = "partial"
      BY <1>7, <3>1 DEF MessageShown, ProcessMsg, TypeOK
    <3>2. CASE m.kind # "partial"
      <4>1. PICK adm \in Admins :
              Send([l |-> "MSG", uuid |-> contacts[m.addr].uuid, to |-> adm, msg |-> m])
        BY <1>7, <3>2 DEF MessageShown, ProcessMsg
      <4>2. adm \in Remotes
        BY DEF Admins, NicksUnique, TypeOK, IsPartial, Uuids
      <4>3. contacts[m.addr].uuid \in Ids
        BY <1>7 DEF MessageShown, TypeOK, IsPartial
      <4> QED
        BY <4>1, <4>2, <4>3, <2>1, SeqType DEF Send, LineOut, TypeOK
    <3> QED
      BY <3>1, <3>2
  <2> QED
    BY <1>7, <2>2, <2>3, <2>4, <2>5 DEF MessageShown, TypeOK, network
<1> QED
  BY <1>1, <1>2, <1>3, <1>4, <1>5, <1>6, <1>7 DEF Handler

\* handle_remote_message keeps the types, whatever line is read.
LEMMA ReadLineType ==
  ASSUME TypeOK, ReadLine
  PROVE  TypeOK'
<1> USE LinkAssumption
<1>1. CASE ReadServer
  <2>1. IsPartial(users', Uuids, Nick)
    BY <1>1, PutType DEF ReadServer, TypeOK, Uuids, OwnUuids
  <2>2. outbox' \in Seq(LineOut)
    BY <1>1, SeqType DEF ReadServer, Send, LineOut, TypeOK
  <2>3. inbound' \in Seq(LineIn)
    BY <1>1, LineAtHand DEF ReadServer, Read
  <2> QED
    BY <1>1, <2>1, <2>2, <2>3 DEF ReadServer, TypeOK, store, network
<1>2. CASE ReadEndburst
  <2>1. inbound' \in Seq(LineIn)
    BY <1>2, LineAtHand DEF ReadEndburst, Read
  <2>2. DOMAIN recipients \in SUBSET Addrs
    BY DEF TypeOK, IsPartial
  <2>3. todo' \in Seq(Task)
    BY <1>2, <2>2 DEF ReadEndburst, Task
  <2> QED
    BY <1>2, <2>1, <2>3 DEF ReadEndburst, TypeOK, registry, store, network
<1>3. CASE ReadUid
  <2>1. inbound' \in Seq(LineIn)
    BY <1>3, LineAtHand DEF ReadUid, Read
  <2>2. IsPartial(users', Uuids, Nick)
    BY <1>3, LineAtHand, PutType DEF ReadUid, Read, TypeOK, Uuids
  <2>3. todo' \in Seq(Task)
    BY <1>3, NewTask DEF ReadUid
  <2> QED
    BY <1>3, <2>1, <2>2, <2>3 DEF ReadUid, TypeOK, store, network
<1>4. CASE ReadNick
  <2>1. inbound' \in Seq(LineIn)
    BY <1>4, LineAtHand DEF ReadNick, Read
  <2>2. IsPartial(users', Uuids, Nick)
    BY <1>4, LineAtHand DEF ReadNick, Read, TypeOK, IsPartial
  <2> QED
    BY <1>4, <2>1, <2>2 DEF ReadNick, TypeOK, store, network
<1>5. CASE ReadQuitOrKill
  <2> DEFINE u == Head(inbound).uuid
  <2>1. inbound' \in Seq(LineIn)
    BY <1>5, LineAtHand DEF ReadQuitOrKill, Read
  <2>2. /\ IsPartial(users', Uuids, Nick)
        /\ IsPartial(contacts_uuid_pdua', Ids, Addrs)
    BY <1>5, WithoutType DEF ReadQuitOrKill, RemoveUser, TypeOK
  <2>3. /\ IsPartial(contacts', Addrs, [uuid : Ids, wa : BOOLEAN])
        /\ todo' \in Seq(Task)
    <3>1. CASE u \in DOMAIN contacts_uuid_pdua
      <4>1. contacts_uuid_pdua[u] \in Addrs
        BY <3>1 DEF TypeOK, IsPartial
      <4>2. /\ contacts' = Without(contacts, {contacts_uuid_pdua[u]})
            /\ todo' = <<[t |-> "setup", addr |-> contacts_uuid_pdua[u]]>>
        BY <1>5, <3>1 DEF ReadQuitOrKill, RemoveUser
      <4>3. IsPartial(contacts', Addrs, [uuid : Ids, wa : BOOLEAN])
        BY <4>2, WithoutType DEF TypeOK
      <4> QED
        BY <4>1, <4>2, <4>3, NewTask
    <3>2. CASE u \notin DOMAIN contacts_uuid_pdua
      BY <1>5, <3>2 DEF ReadQuitOrKill, RemoveUser, TypeOK
    <3> QED
      BY <3>1, <3>2
  <2> QED
    BY <1>5, <2>1, <2>2, <2>3 DEF ReadQuitOrKill, RemoveUser, TypeOK, store, network
<1>6. CASE ReadSquit
  <2>1. inbound' \in Seq(LineIn)
    BY <1>6, LineAtHand DEF ReadSquit, Read
  <2>2. IsPartial(users', Uuids, Nick)
    BY <1>6, WithoutType DEF ReadSquit, TypeOK
  <2> QED
    BY <1>6, <2>1, <2>2 DEF ReadSquit, TypeOK, store, network
<1>7. CASE ReadDirectMessage
  <2> DEFINE line == Head(inbound)
             a    == contacts_uuid_pdua[line.uuid]
  <2>1. inbound' \in Seq(LineIn) /\ line.meant \in Addrs
    BY <1>7, LineAtHand DEF ReadDirectMessage, Read
  <2>2. mgr_rx' \in [Sources -> Seq(Request)]
    <3>1. CASE line.from \in Admins /\ line.uuid \in DOMAIN contacts_uuid_pdua
      <4>1. a \in Addrs
        BY <3>1 DEF TypeOK, IsPartial
      <4>2. [r |-> "send", addr |-> a, meant |-> line.meant] \in Request
        BY <4>1, <2>1 DEF Request
      <4>3. PICK s \in Sources : Ask(s, [r |-> "send", addr |-> a, meant |-> line.meant])
        BY <1>7, <3>1 DEF ReadDirectMessage, Sources
      <4> QED
        BY <4>2, <4>3, AskType
    <3>2. CASE ~(line.from \in Admins /\ line.uuid \in DOMAIN contacts_uuid_pdua)
      BY <1>7, <3>2 DEF ReadDirectMessage, TypeOK
    <3> QED
      BY <3>1, <3>2
  <2> QED
    BY <1>7, <2>1, <2>2 DEF ReadDirectMessage, TypeOK, registry, store, network
<1>8. CASE ReadCommand
  <2>1. inbound' \in Seq(LineIn) /\ Head(inbound).cmd \in Command
    BY <1>8, LineAtHand DEF ReadCommand, Read
  <2>2. cf_rx' \in Seq(Command)
    BY <1>8, <2>1, SeqType DEF ReadCommand, TypeOK
  <2> QED
    BY <1>8, <2>1, <2>2 DEF ReadCommand, TypeOK, registry, store, network
<1> QED
  BY <1>1, <1>2, <1>3, <1>4, <1>5, <1>6, <1>7, <1>8 DEF ReadLine
\* resolve_nick finds UUIDs of ghosts only.
LEMMA NamedType ==
  ASSUME TypeOK, NEW n, NEW u \in Named(n)
  PROVE  u \in DOMAIN contacts_uuid_pdua /\ contacts_uuid_pdua[u] \in Addrs /\ u \in Ids
BY DEF Named, TypeOK, IsPartial

\* forward_cmd(ChangeNick) keeps the types of the users and the recipients.
LEMMA ChangeNickType ==
  ASSUME TypeOK, NEW a \in Addrs, NEW wanted \in Nick, ChangeNick(a, wanted)
  PROVE  /\ IsPartial(users', Uuids, Nick)
         /\ IsPartial(recipients', Addrs, [nick : Nick, wa : BOOLEAN])
<1>1. CASE users[contacts[a].uuid] = wanted
  BY <1>1 DEF ChangeNick, TypeOK
<1>2. CASE users[contacts[a].uuid] # wanted
  <2>1. PICK n \in Settled(wanted) :
          /\ users' = [users EXCEPT ![contacts[a].uuid] = n]
          /\ recipients' = [recipients EXCEPT ![a].nick = n]
    BY <1>2 DEF ChangeNick
  <2>2. n \in Nick
    BY SettledFree
  <2>3. IsPartial(users', Uuids, Nick)
    BY <2>1, <2>2, ExceptType DEF TypeOK
  <2>4. IsPartial(recipients', Addrs, [nick : Nick, wa : BOOLEAN])
    BY <2>1, <2>2 DEF TypeOK, IsPartial
  <2> QED
    BY <2>3, <2>4
<1> QED
  BY <1>1, <1>2

\* handle_cf_command keeps the types, whatever command is taken.
LEMMA TakeCommandType ==
  ASSUME TypeOK, TakeCommand
  PROVE  TypeOK'
<1>1. CASE TakeProcessMessages
  <2>1. cf_rx' \in Seq(Command)
    BY <1>1, CommandAtHand DEF TakeProcessMessages, Take
  <2> QED
    BY <1>1, <2>1, NewTask DEF TakeProcessMessages, TypeOK, registry, store, network
<1>2. CASE TakeSetupContact
  <2>1. cf_rx' \in Seq(Command) /\ Head(cf_rx).addr \in Addrs
    BY <1>2, CommandAtHand DEF TakeSetupContact, Take
  <2> QED
    BY <1>2, <2>1, NewTask DEF TakeSetupContact, TypeOK, registry, store, network
<1>3. CASE TakeQueryContact
  <2>1. cf_rx' \in Seq(Command) /\ Head(cf_rx).addr \in Addrs /\ Head(cf_rx).src \in Sources
    BY <1>3, CommandAtHand DEF TakeQueryContact, Take
  <2>2. [r |-> "make", addr |-> Head(cf_rx).addr] \in Request
    BY <2>1 DEF Request
  <2>3. todo' \in Seq(Task) /\ mgr_rx' \in [Sources -> Seq(Request)]
    BY <1>3, <2>1, <2>2, AskType, NewTask DEF TakeQueryContact, TypeOK
  <2> QED
    BY <1>3, <2>1, <2>3 DEF TakeQueryContact, TypeOK, registry, store, network
<1>4. CASE TakeDropContactByNick
  <2>1. cf_rx' \in Seq(Command)
    BY <1>4, CommandAtHand DEF TakeDropContactByNick, Take
  <2>2. CASE Named(Head(cf_rx).nick) = {}
    BY <1>4, <2>1, <2>2 DEF TakeDropContactByNick, TypeOK, network
  <2>3. CASE Named(Head(cf_rx).nick) # {}
    <3>1. PICK u \in Named(Head(cf_rx).nick) :
            /\ recipients' = Without(recipients, {contacts_uuid_pdua[u]})
            /\ RemoveContact(u)
      BY <1>4, <2>3 DEF TakeDropContactByNick
    <3>2. /\ IsPartial(users', Uuids, Nick)
          /\ IsPartial(contacts', Addrs, [uuid : Ids, wa : BOOLEAN])
          /\ IsPartial(contacts_uuid_pdua', Ids, Addrs)
          /\ IsPartial(recipients', Addrs, [nick : Nick, wa : BOOLEAN])
      BY <3>1, WithoutType DEF RemoveContact, TypeOK
    <3>3. outbox' \in Seq(LineOut)
      BY <3>1, NamedType, SeqType DEF RemoveContact, Send, LineOut, TypeOK
    <3> QED
      BY <1>4, <2>1, <3>2, <3>3 DEF TakeDropContactByNick, TypeOK, network
  <2> QED
    BY <2>2, <2>3
<1>5. CASE TakeChangeNickByNick
  <2>1. cf_rx' \in Seq(Command) /\ Head(cf_rx).new \in Nick
    BY <1>5, CommandAtHand DEF TakeChangeNickByNick, Take
  <2>2. /\ IsPartial(users', Uuids, Nick)
        /\ IsPartial(recipients', Addrs, [nick : Nick, wa : BOOLEAN])
    <3>1. CASE Named(Head(cf_rx).nick) = {}
      BY <1>5, <3>1 DEF TakeChangeNickByNick, TypeOK
    <3>2. CASE Named(Head(cf_rx).nick) # {}
      <4>1. PICK u \in Named(Head(cf_rx).nick) : ChangeNick(contacts_uuid_pdua[u], Head(cf_rx).new)
        BY <1>5, <3>2 DEF TakeChangeNickByNick
      <4> QED
        BY <4>1, <2>1, NamedType, ChangeNickType
    <3> QED
      BY <3>1, <3>2
  <2> QED
    BY <1>5, <2>1, <2>2 DEF TakeChangeNickByNick, TypeOK, network
<1>6. CASE TakeChangeNick
  <2>1. cf_rx' \in Seq(Command) /\ Head(cf_rx).new \in Nick /\ Head(cf_rx).addr \in Addrs
    BY <1>6, CommandAtHand DEF TakeChangeNick, Take
  <2>2. /\ IsPartial(users', Uuids, Nick)
        /\ IsPartial(recipients', Addrs, [nick : Nick, wa : BOOLEAN])
    BY <1>6, <2>1, ChangeNickType DEF TakeChangeNick, TypeOK
  <2> QED
    BY <1>6, <2>1, <2>2 DEF TakeChangeNick, TypeOK, network
<1>7. CASE TakeSetWhatsappByNick
  <2>1. cf_rx' \in Seq(Command) /\ Head(cf_rx).wa \in BOOLEAN
    BY <1>7, CommandAtHand DEF TakeSetWhatsappByNick, Take
  <2>2. /\ IsPartial(contacts', Addrs, [uuid : Ids, wa : BOOLEAN])
        /\ IsPartial(recipients', Addrs, [nick : Nick, wa : BOOLEAN])
    <3>1. CASE Named(Head(cf_rx).nick) = {}
      BY <1>7, <3>1 DEF TakeSetWhatsappByNick, TypeOK
    <3>2. CASE Named(Head(cf_rx).nick) # {}
      BY <1>7, <3>2, <2>1, NamedType, SetModeType DEF TakeSetWhatsappByNick
    <3> QED
      BY <3>1, <3>2
  <2> QED
    BY <1>7, <2>1, <2>2 DEF TakeSetWhatsappByNick, TypeOK, network
<1> QED
  BY <1>1, <1>2, <1>3, <1>4, <1>5, <1>6, <1>7 DEF TakeCommand
\* A step of InspLink::poll keeps the types.
LEMMA BridgeType ==
  ASSUME TypeOK, NicksUnique, Bridge
  PROVE  TypeOK'
<1>1. CASE SendServer
  <2>1. outbox' \in Seq(LineOut)
    BY <1>1, SeqType DEF SendServer, Send, LineOut, TypeOK
  <2> QED
    BY <1>1, <2>1 DEF SendServer, TypeOK, registry, store, network
<1> QED
  BY <1>1, HandlerType, ReadLineType, TakeCommandType DEF Bridge

\* make_contact of ModemManager, and get_wa_recipient with what is sent after
\* it, keep the types of the recipients and the commands.
LEMMA MakeContactType ==
  ASSUME TypeOK, NEW a \in Addrs, NEW more \in Seq(Command),
         SmsMakeContact(a) \/ GetWaRecipient(a, more)
  PROVE  /\ cf_rx' \in Seq(Command)
         /\ IsPartial(recipients', Addrs, [nick : Nick, wa : BOOLEAN])
<1>1. <<SetupContact(a)>> \in Seq(Command) /\ <<SetupContact(a), ProcessMessages>> \in Seq(Command)
  BY DEF Command, SetupContact, ProcessMessages
<1>2. \A c \in Seq(Command) : cf_rx \o c \in Seq(Command)
  BY SeqType DEF TypeOK
<1>3. <<SetupContact(a)>> \o more \in Seq(Command)
  BY <1>1, SeqType
<1>4. CASE a \in DOMAIN recipients
  BY <1>2, <1>4 DEF SmsMakeContact, GetWaRecipient, CfSend, TypeOK
<1>5. CASE a \notin DOMAIN recipients
  <2>1. PICK n \in Nicks, w \in BOOLEAN, c \in Seq(Command) :
          recipients' = Put(recipients, a, [nick |-> n, wa |-> w]) /\ CfSend(c)
    BY <1>1, <1>3, <1>5 DEF SmsMakeContact, GetWaRecipient
  <2>2. n \in Nick
    BY LinkAssumption
  <2> QED
    BY <2>1, <2>2, <1>2, PutType DEF CfSend, TypeOK
<1> QED
  BY <1>4, <1>5

\* make_contact of the modem and of the WhatsApp manager keeps the types.
LEMMA ManagerStepType ==
  ASSUME TypeOK, NEW src \in Sources, ManagerStep(src)
  PROVE  TypeOK'
<1> DEFINE q == Head(mgr_rx[src])
<1>1. q \in Request /\ Tail(mgr_rx[src]) \in Seq(Request)
  BY SeqType DEF ManagerStep, TypeOK
<1>2. mgr_rx' \in [Sources -> Seq(Request)]
  BY <1>1 DEF ManagerStep, TypeOK
<1>3. <<ProcessMessages>> \in Seq(Command)
  BY DEF Command, ProcessMessages
<1>4. q.addr \in Addrs
  BY <1>1 DEF Request
<1>5. /\ cf_rx' \in Seq(Command)
      /\ IsPartial(recipients', Addrs, [nick : Nick, wa : BOOLEAN])
  <2>1. CASE q.r = "send"
    BY <2>1 DEF ManagerStep, TypeOK
  <2>2. CASE q.r = "make"
    BY <2>2, <1>3, <1>4, MakeContactType DEF ManagerStep, Sources
  <2> QED
    BY <2>1, <2>2, <1>1 DEF Request
<1> QED
  BY <1>2, <1>5 DEF ManagerStep, TypeOK, registry, network

\* The managers keep the types when a message or a contact comes in
\* (cmgl_complete, store_message, get_wa_recipient, on_contact_change).
LEMMA ManagerInputType ==
  ASSUME TypeOK,
         \/ \E a \in Addrs : SmsArrives(a) \/ WaArrives(a) \/ WaContactSeen(a)
         \/ \E a \in Addrs, n \in Nicks : WaContactRenamed(a, n)
  PROVE  TypeOK'
<1>1. \A e : Input(e) => inputs \in Nat /\ inputs' \in 0 .. MaxInputs
  BY LinkAssumption DEF Input, TypeOK
<1>2. \A a \in Addrs, k \in Kinds, ts \in Nat :
        inputs \in Nat /\ NewMessage(a, k, ts) => messages' \in SUBSET Message
  BY DEF NewMessage, Message, TypeOK
<1>3. <<ProcessMessages>> \in Seq(Command) /\ <<>> \in Seq(Command)
  BY DEF Command, ProcessMessages
<1>4. ASSUME NEW a \in Addrs, SmsArrives(a)
      PROVE  TypeOK'
  <2>1. messages' \in SUBSET Message
    BY <1>1, <1>2, <1>4 DEF SmsArrives, Kinds
  <2>2. cf_rx' \in Seq(Command)
    BY <1>3, <1>4, SeqType DEF SmsArrives, CfSend, TypeOK
  <2> QED
    BY <1>1, <1>4, <2>1, <2>2 DEF SmsArrives, TypeOK, registry, network
<1>5. ASSUME NEW a \in Addrs, WaArrives(a)
      PROVE  TypeOK'
  <2>1. messages' \in SUBSET Message
    BY <1>1, <1>2, <1>5 DEF WaArrives, Kinds
  <2>2. cf_rx' \in Seq(Command) /\ IsPartial(recipients', Addrs, [nick : Nick, wa : BOOLEAN])
    BY <1>3, <1>5, MakeContactType DEF WaArrives
  <2> QED
    BY <1>1, <1>5, <2>1, <2>2 DEF WaArrives, TypeOK, registry, network
<1>6. ASSUME NEW a \in Addrs, WaContactSeen(a)
      PROVE  TypeOK'
  <2>1. cf_rx' \in Seq(Command) /\ IsPartial(recipients', Addrs, [nick : Nick, wa : BOOLEAN])
    BY <1>3, <1>6, MakeContactType DEF WaContactSeen
  <2> QED
    BY <1>1, <1>6, <2>1 DEF WaContactSeen, TypeOK, registry, network
<1>7. ASSUME NEW a \in Addrs, NEW n \in Nicks, WaContactRenamed(a, n)
      PROVE  TypeOK'
  <2>1. <<[c |-> "autonick", addr |-> a, new |-> n]>> \in Seq(Command)
    BY LinkAssumption DEF Command
  <2>2. cf_rx' \in Seq(Command)
    BY <2>1, <1>7, SeqType DEF WaContactRenamed, CfSend, TypeOK
  <2> QED
    BY <1>1, <1>7, <2>2 DEF WaContactRenamed, TypeOK, registry, store, network
<1> QED
  BY <1>4, <1>5, <1>6, <1>7
\* The network has a finite number of users, so a netburst has an end.
LEMMA NetSize ==
  ASSUME TypeOK
  PROVE  Cardinality(DOMAIN net) \in Nat
<1>1. IsFiniteSet(DOMAIN net)
  BY LinkAssumption, FS_Subset DEF TypeOK, IsPartial
<1> QED
  BY <1>1, FS_CardinalityType

\* The netburst of the server consists of lines that the bridge knows.
LEMMA NetburstsType ==
  ASSUME TypeOK, NEW s \in Netbursts
  PROVE  s \in Seq(LineIn)
<1> DEFINE n == Cardinality(DOMAIN net)
<1>1. PICK f \in [1 .. n -> DOMAIN net] :
        s = <<[l |-> "SERVER"]>> \o [i \in 1 .. n |-> [l |-> "UID", uuid |-> f[i], nick |-> net[f[i]]]]
              \o <<[l |-> "ENDBURST"]>>
  BY DEF Netbursts
<1> n \in Nat
  BY NetSize
<1> HIDE DEF n
<1>2. \A i \in 1 .. n : f[i] \in Remotes /\ net[f[i]] \in Nick
  BY DEF TypeOK, IsPartial
<1>3. [i \in 1 .. n |-> [l |-> "UID", uuid |-> f[i], nick |-> net[f[i]]]] \in Seq(LineIn)
  BY <1>2 DEF LineIn
<1>4. <<[l |-> "SERVER"]>> \in Seq(LineIn) /\ <<[l |-> "ENDBURST"]>> \in Seq(LineIn)
  BY DEF LineIn
<1> QED
  BY <1>1, <1>3, <1>4, SeqType

\* The server's handling of a line of ours keeps the types.
LEMMA ServerReadsType ==
  ASSUME TypeOK, ServerReads
  PROVE  TypeOK'
<1> DEFINE line == Head(outbox)
<1>1. line \in LineOut /\ outbox' \in Seq(LineOut)
  BY SeqType DEF ServerReads, TypeOK
<1>2. /\ accepted' \in BOOLEAN
      /\ inbound' \in Seq(LineIn)
      /\ IsPartial(seen', OwnUuids, Addrs \cup {Nobody})
      /\ \A u \in DOMAIN seen' \ {Control} : seen'[u] \in Addrs
      /\ got' \in Seq([msg : Message, as : Addrs])
  <2>1. CASE line.l = "SERVER"
    <3>1. inbound' \in Seq(LineIn)
      BY <2>1, NetburstsType DEF ServerReads
    <3> QED
      BY <2>1, <3>1 DEF ServerReads, TypeOK
  <2>2. CASE line.l = "UID"
    <3>1. /\ line.uuid \in OwnUuids /\ line.addr \in Addrs \cup {Nobody}
          /\ line.uuid # Control => line.addr \in Addrs
      BY <1>1, <2>2 DEF LineOut, OwnUuids
    <3>2. seen' = Put(seen, line.uuid, line.addr)
      BY <2>2 DEF ServerReads
    <3>3. IsPartial(seen', OwnUuids, Addrs \cup {Nobody})
      BY <3>1, <3>2, PutType DEF TypeOK
    <3>4. \A u \in DOMAIN seen' \ {Control} : seen'[u] \in Addrs
      BY <3>1, <3>2 DEF Put, TypeOK
    <3> QED
      BY <2>2, <3>3, <3>4 DEF ServerReads, TypeOK
  <2>3. CASE line.l = "QUIT"
    <3>1. seen' = Without(seen, {line.uuid})
      BY <2>3 DEF ServerReads
    <3>2. IsPartial(seen', OwnUuids, Addrs \cup {Nobody})
      BY <3>1, WithoutType DEF TypeOK
    <3>3. \A u \in DOMAIN seen' \ {Control} : seen'[u] \in Addrs
      BY <3>1 DEF Without, TypeOK
    <3> QED
      BY <2>3, <3>2, <3>3 DEF ServerReads, TypeOK
  <2>4. CASE line.l = "MSG"
    <3>1. line.msg \in Message /\ line.uuid \in Ids
      BY <1>1, <2>4 DEF LineOut
    <3>2. line.uuid # Control
      BY <3>1 DEF Ids, Control
    <3>3. got' \in Seq([msg : Message, as : Addrs])
      <4>1. CASE line.uuid \in DOMAIN seen /\ line.to \in DOMAIN net
        <5>1. seen[line.uuid] \in Addrs
          BY <3>2, <4>1 DEF TypeOK
        <5>2. got' = Append(got, [msg |-> line.msg, as |-> seen[line.uuid]])
          BY <2>4, <4>1 DEF ServerReads
        <5>3. got \in Seq([msg : Message, as : Addrs])
          BY DEF TypeOK
        <5> QED
          BY <3>1, <5>1, <5>2, <5>3, SeqType
      <4>2. CASE ~(line.uuid \in DOMAIN seen /\ line.to \in DOMAIN net)
        BY <2>4, <4>2 DEF ServerReads, TypeOK
      <4> QED
        BY <4>1, <4>2
    <3> QED
      BY <2>4, <3>3 DEF ServerReads, TypeOK
  <2> QED
    BY <1>1, <2>1, <2>2, <2>3, <2>4 DEF LineOut
<1> QED
  BY <1>1, <1>2 DEF ServerReads, TypeOK, local, registry, store

\* A line that the server passes on keeps the type of inbound.
LEMMA TellType ==
  ASSUME TypeOK, NEW l \in LineIn, Tell(l)
  PROVE  inbound' \in Seq(LineIn)
BY SeqType DEF Tell, TypeOK

\* What users of the network do keeps the types.
LEMMA NetworkInputType ==
  ASSUME TypeOK,
         \/ Split
         \/ \E u \in Remotes, n \in Nicks \cup {AdminNick} : Connect(u, n) \/ Rename(u, n)
         \/ \E u \in Remotes : Quit(u)
         \/ \E u \in DOMAIN seen : Kill(u)
         \/ \E u \in Remotes, g \in DOMAIN seen : WriteToGhost(u, g)
         \/ \E u \in Remotes, cmd \in AdminCommands : WriteToControl(u, cmd)
  PROVE  TypeOK'
<1> USE LinkAssumption
<1>1. \A e : Input(e) => inputs' \in 0 .. MaxInputs
  BY DEF Input, TypeOK
<1>2. CASE Split
  <2>1. inbound' \in Seq(LineIn)
    BY <1>2, TellType DEF Split, LineIn
  <2>2. IsPartial(net', Remotes, Nick) /\ departed' \in SUBSET Remotes
    BY <1>2, WithoutType DEF Split, TypeOK
  <2> QED
    BY <1>1, <1>2, <2>1, <2>2 DEF Split, local, TypeOK, registry, store
<1>3. ASSUME NEW u \in Remotes, NEW n \in Nicks \cup {AdminNick}, Connect(u, n)
      PROVE  TypeOK'
  <2>1. n \in Nick
    OBVIOUS
  <2>2. inbound' \in Seq(LineIn)
    BY <2>1, <1>3, TellType DEF Connect, LineIn
  <2>3. IsPartial(net', Remotes, Nick)
    BY <2>1, <1>3, PutType DEF Connect, TypeOK
  <2> QED
    BY <1>1, <1>3, <2>2, <2>3 DEF Connect, local, TypeOK, registry, store
<1>4. ASSUME NEW u \in Remotes, NEW n \in Nicks \cup {AdminNick}, Rename(u, n)
      PROVE  TypeOK'
  <2>1. n \in Nick
    OBVIOUS
  <2>2. inbound' \in Seq(LineIn)
    BY <2>1, <1>4, TellType DEF Rename, LineIn
  <2>3. IsPartial(net', Remotes, Nick)
    BY <2>1, <1>4, ExceptType DEF Rename, TypeOK
  <2> QED
    BY <1>1, <1>4, <2>2, <2>3 DEF Rename, local, TypeOK, registry, store
<1>5. ASSUME NEW u \in Remotes, Quit(u)
      PROVE  TypeOK'
  <2>1. inbound' \in Seq(LineIn)
    BY <1>5, TellType DEF Quit, LineIn
  <2>2. IsPartial(net', Remotes, Nick) /\ departed' \in SUBSET Remotes
    BY <1>5, WithoutType DEF Quit, TypeOK
  <2> QED
    BY <1>1, <1>5, <2>1, <2>2 DEF Quit, local, TypeOK, registry, store
<1>6. ASSUME NEW u \in DOMAIN seen, Kill(u)
      PROVE  TypeOK'
  <2>1. u \in OwnUuids
    BY DEF TypeOK, IsPartial
  <2>2. inbound' \in Seq(LineIn)
    BY <2>1, <1>6, TellType DEF Kill, LineIn
  <2>3. IsPartial(seen', OwnUuids, Addrs \cup {Nobody})
    BY <1>6, WithoutType DEF Kill, TypeOK
  <2>4. \A v \in DOMAIN seen' \ {Control} : seen'[v] \in Addrs
    BY <1>6 DEF Kill, Without, TypeOK
  <2> QED
    BY <1>1, <1>6, <2>2, <2>3, <2>4 DEF Kill, local, TypeOK, registry, store
<1>7. ASSUME NEW u \in Remotes, NEW g \in DOMAIN seen, WriteToGhost(u, g)
      PROVE  TypeOK'
  <2>1. g \in Ids /\ seen[g] \in Addrs
    BY <1>7 DEF WriteToGhost, TypeOK, IsPartial, OwnUuids
  <2>2. inbound' \in Seq(LineIn)
    BY <2>1, <1>7, TellType DEF WriteToGhost, LineIn
  <2> QED
    BY <1>1, <1>7, <2>2 DEF WriteToGhost, local, network, TypeOK, registry, store
<1>8. ASSUME NEW u \in Remotes, NEW cmd \in AdminCommands, WriteToControl(u, cmd)
      PROVE  TypeOK'
  <2>1. {users[g] : g \in DOMAIN users \cap DOMAIN contacts_uuid_pdua} \subseteq Nick
    BY DEF TypeOK, IsPartial
  <2>2. cmd \in Command
    BY <2>1 DEF AdminCommands, Command
  <2>3. inbound' \in Seq(LineIn)
    BY <2>2, <1>8, TellType DEF WriteToControl, LineIn
  <2> QED
    BY <1>1, <1>8, <2>3 DEF WriteToControl, local, network, TypeOK, registry, store
<1> QED
  BY <1>2, <1>3, <1>4, <1>5, <1>6, <1>7, <1>8

\* Crashes, arriving messages and what users of the network do keep the types.
LEMMA OutsideType ==
  ASSUME TypeOK, Outside
  PROVE  TypeOK'
<1>1. CASE Crash
  <2>1. inputs' \in 0 .. MaxInputs
    BY <1>1, LinkAssumption DEF Crash, Input, TypeOK
  <2>2. messages' = messages /\ recipients' = recipients /\ Restarted
    BY <1>1 DEF Crash, store
  <2> QED
    BY <2>1, <2>2, RestartedType DEF TypeOK
<1> QED
  BY <1>1, ManagerInputType, NetworkInputType DEF Outside

\* InspLink::new starts with the right types.
LEMMA InitType == Init => TypeOK
<1> SUFFICES ASSUME Init PROVE TypeOK
  OBVIOUS
<1> USE LinkAssumption
<1>1. /\ IsPartial(users, Uuids, Nick)
      /\ IsPartial(contacts, Addrs, [uuid : Ids, wa : BOOLEAN])
      /\ IsPartial(contacts_uuid_pdua, Ids, Addrs)
      /\ IsPartial(seen, OwnUuids, Addrs \cup {Nobody})
      /\ DOMAIN seen = {}
  BY EmptyType DEF Init
<1>2. mgr_rx \in [Sources -> Seq(Request)]
  BY DEF Init
<1>3. outbox \in Seq(LineOut) /\ todo \in Seq(Task) /\ cf_rx \in Seq(Command)
      /\ inbound \in Seq(LineIn) /\ got \in Seq([msg : Message, as : Addrs])
  BY DEF Init
<1>4. next_user_id \in 1 .. UserIdLimit + 1 /\ inputs \in 0 .. MaxInputs
  BY DEF Init
<1> QED
  BY <1>1, <1>2, <1>3, <1>4 DEF Init, TypeOK

\* Every step keeps the types.
LEMMA NextType ==
  ASSUME TypeOK, NicksUnique, [Next]_vars
  PROVE  TypeOK'
<1>1. CASE UNCHANGED vars
  BY <1>1 DEF vars, TypeOK
<1> QED
  BY <1>1, BridgeType, ServerReadsType, ManagerStepType, OutsideType DEF Next
-----------------------------------------------------------------------------
(* The registry: its two maps, the users, and the database.  RegistryInv is *)
(* about five variables only; the lemmas say what the ways in which the     *)
(* actions change these do to it.                                           *)

RegistryInv == FreshUuids /\ RegistryConsistent /\ GhostsMatchDatabase /\ NicksUnique

\* A step that leaves the users, the ghosts and the recipients alone keeps
\* the registry as it is.
LEMMA RegistryUnchanged ==
  ASSUME RegistryInv, UNCHANGED <<registry, recipients>>
  PROVE  RegistryInv'
BY DEF RegistryInv, FreshUuids, RegistryConsistent, GhostsMatchDatabase, NicksUnique, Ghosts, registry

\* A recipient that is new in the database (make_contact, get_wa_recipient)
\* leaves the registry consistent.
LEMMA RegistryNewRecipient ==
  ASSUME TypeOK, RegistryInv, NEW a \in Addrs, a \notin DOMAIN recipients, NEW r,
         recipients' = Put(recipients, a, r), UNCHANGED registry
  PROVE  RegistryInv'
<1>1. /\ DOMAIN recipients' = DOMAIN recipients \cup {a}
      /\ \A b \in DOMAIN recipients : recipients'[b] = recipients[b]
  BY DEF Put
<1>2. GhostsMatchDatabase'
  BY <1>1 DEF RegistryInv, GhostsMatchDatabase, registry
<1> QED
  BY <1>2 DEF RegistryInv, FreshUuids, RegistryConsistent, NicksUnique, Ghosts, registry

\* Users of the network come, change nicks and go (UID, NICK, SQUIT): the
\* registry stays consistent.
LEMMA RegistryOtherUsers ==
  ASSUME TypeOK, RegistryInv,
         DOMAIN users' \cap OwnUuids = DOMAIN users \cap OwnUuids,
         \A u \in DOMAIN users \cap OwnUuids : users'[u] = users[u],
         UNCHANGED <<contacts, contacts_uuid_pdua, next_user_id, recipients>>
  PROVE  RegistryInv'
<1>1. FreshUuids' /\ NicksUnique'
  BY DEF RegistryInv, FreshUuids, NicksUnique, OwnUuids
<1>2. Ghosts \subseteq OwnUuids
  BY DEF Ghosts, TypeOK, IsPartial, OwnUuids
<1>3. RegistryConsistent'
  BY <1>2 DEF RegistryInv, RegistryConsistent, Ghosts
<1>4. \A a \in DOMAIN contacts : contacts[a].uuid \in DOMAIN users \cap OwnUuids
  BY <1>2 DEF RegistryInv, RegistryConsistent
<1>5. GhostsMatchDatabase'
  BY <1>4 DEF RegistryInv, GhostsMatchDatabase
<1> QED
  BY <1>1, <1>3, <1>5 DEF RegistryInv

\* When a ghost goes from the three maps, and perhaps its recipient with it
\* (remove_contact_for), the registry stays consistent.
LEMMA RegistryGhostGone ==
  ASSUME TypeOK, RegistryInv, NEW g \in Ghosts, NEW x, x = contacts_uuid_pdua[g],
         DOMAIN users' = DOMAIN users \ {g},
         \A v \in DOMAIN users \ {g} : users'[v] = users[v],
         DOMAIN contacts' = DOMAIN contacts \ {x},
         \A b \in DOMAIN contacts \ {x} : contacts'[b] = contacts[b],
         DOMAIN contacts_uuid_pdua' = DOMAIN contacts_uuid_pdua \ {g},
         \A v \in DOMAIN contacts_uuid_pdua \ {g} : contacts_uuid_pdua'[v] = contacts_uuid_pdua[v],
         DOMAIN recipients \ {x} \subseteq DOMAIN recipients',
         \A b \in DOMAIN recipients \ {x} : recipients'[b] = recipients[b],
         UNCHANGED next_user_id
  PROVE  RegistryInv'
<1>1. \A b \in DOMAIN contacts \ {x} :
        /\ contacts[b].uuid \in Ghosts \ {g}
        /\ contacts[b].uuid \in DOMAIN users
        /\ contacts_uuid_pdua[contacts[b].uuid] = b
  BY DEF RegistryInv, RegistryConsistent
<1>2. \A v \in Ghosts \ {g} :
        /\ contacts_uuid_pdua[v] \in DOMAIN contacts \ {x}
        /\ contacts[contacts_uuid_pdua[v]].uuid = v
        /\ v \in DOMAIN users
  BY DEF RegistryInv, RegistryConsistent
<1>3. FreshUuids' /\ NicksUnique'
  BY DEF RegistryInv, FreshUuids, NicksUnique
<1>4. RegistryConsistent'
  BY <1>1, <1>2 DEF RegistryConsistent, Ghosts
<1>5. GhostsMatchDatabase'
  BY <1>1 DEF RegistryInv, GhostsMatchDatabase
<1> QED
  BY <1>3, <1>4, <1>5 DEF RegistryInv

\* When a user that is no ghost goes (remove_user), the registry stays
\* consistent.
LEMMA RegistryUserGone ==
  ASSUME TypeOK, RegistryInv, NEW u, u \notin Ghosts,
         users' = Without(users, {u}),
         UNCHANGED <<contacts, contacts_uuid_pdua, next_user_id, recipients>>
  PROVE  RegistryInv'
<1>1. /\ DOMAIN users' = DOMAIN users \ {u}
      /\ \A v \in DOMAIN users \ {u} : users'[v] = users[v]
  BY DEF Without
<1>2. FreshUuids' /\ NicksUnique'
  BY <1>1 DEF RegistryInv, FreshUuids, NicksUnique
<1>3. RegistryConsistent'
  BY <1>1 DEF RegistryInv, RegistryConsistent, Ghosts
<1>4. ASSUME NEW a \in DOMAIN contacts
      PROVE  contacts[a].uuid \in DOMAIN users \ {u}
  BY DEF RegistryInv, RegistryConsistent
<1>5. GhostsMatchDatabase'
  BY <1>1, <1>4 DEF RegistryInv, GhostsMatchDatabase
<1> QED
  BY <1>2, <1>3, <1>5 DEF RegistryInv

\* remove_user keeps the registry consistent, whoever the user is.
LEMMA RegistryRemoveUser ==
  ASSUME TypeOK, RegistryInv, NEW u, RemoveUser(u), UNCHANGED recipients
  PROVE  RegistryInv'
<1>1. CASE u \in Ghosts
  <2>1. /\ users' = Without(users, {u})
        /\ contacts' = Without(contacts, {contacts_uuid_pdua[u]})
        /\ contacts_uuid_pdua' = Without(contacts_uuid_pdua, {u})
        /\ next_user_id' = next_user_id
    BY <1>1 DEF RemoveUser, Ghosts
  <2> QED
    BY <1>1, <2>1, RegistryGhostGone DEF Without
<1>2. CASE u \notin Ghosts
  <2>1. contacts_uuid_pdua' = contacts_uuid_pdua
    <3>1. contacts_uuid_pdua' = [v \in DOMAIN contacts_uuid_pdua \ {u} |-> contacts_uuid_pdua[v]]
      BY DEF RemoveUser, Without
    <3>2. DOMAIN contacts_uuid_pdua \ {u} = DOMAIN contacts_uuid_pdua
      BY <1>2 DEF Ghosts
    <3>3. contacts_uuid_pdua = [v \in DOMAIN contacts_uuid_pdua |-> contacts_uuid_pdua[v]]
      BY DEF TypeOK, IsPartial
    <3> QED
      BY <3>1, <3>2, <3>3
  <2> QED
    BY <1>2, <2>1, RegistryUserGone DEF RemoveUser, Ghosts
<1> QED
  BY <1>1, <1>2

\* set_wa_state sets the mode of a contact in the database as well, and so
\* keeps the registry consistent.
LEMMA RegistrySetMode ==
  ASSUME TypeOK, RegistryInv, NEW a \in DOMAIN contacts, NEW wa \in BOOLEAN, SetMode(a, wa),
         UNCHANGED <<users, contacts_uuid_pdua, next_user_id>>
  PROVE  RegistryInv'
<1>1. /\ DOMAIN contacts' = DOMAIN contacts
      /\ \A b \in DOMAIN contacts : contacts'[b].uuid = contacts[b].uuid
      /\ \A b \in DOMAIN contacts : contacts'[b].wa = IF b = a THEN wa ELSE contacts[b].wa
  BY DEF SetMode, TypeOK, IsPartial
<1>2. /\ DOMAIN recipients' = DOMAIN recipients
      /\ \A b \in DOMAIN recipients : recipients'[b].nick = recipients[b].nick
      /\ \A b \in DOMAIN recipients : recipients'[b].wa = IF b = a THEN wa ELSE recipients[b].wa
  BY DEF SetMode, TypeOK, IsPartial
<1>3. RegistryConsistent'
  BY <1>1 DEF RegistryInv, RegistryConsistent, Ghosts
<1>4. GhostsMatchDatabase'
  BY <1>1, <1>2 DEF RegistryInv, GhostsMatchDatabase
<1> QED
  BY <1>3, <1>4 DEF RegistryInv, FreshUuids, NicksUnique

\* forward_cmd(ChangeNick) gives a ghost a free nick, in the database as well,
\* and so keeps the registry consistent.
LEMMA RegistryChangeNick ==
  ASSUME TypeOK, RegistryInv, NEW a \in DOMAIN contacts, NEW wanted \in Nick, ChangeNick(a, wanted),
         UNCHANGED <<contacts, contacts_uuid_pdua, next_user_id>>
  PROVE  RegistryInv'
<1> DEFINE u == contacts[a].uuid
<1>1. CASE users[u] = wanted
  BY <1>1, RegistryUnchanged DEF ChangeNick, registry
<1>2. CASE users[u] # wanted
  <2>1. PICK n \in Settled(wanted) :
          /\ users' = [users EXCEPT ![u] = n]
          /\ recipients' = [recipients EXCEPT ![a].nick = n]
    BY <1>2 DEF ChangeNick
  <2>2. n # AdminNick /\ \A v \in DOMAIN users : users[v] # n
    BY SettledFree DEF Taken
  <2>3. /\ DOMAIN users' = DOMAIN users
        /\ \A v \in DOMAIN users : users'[v] = IF v = u THEN n ELSE users[v]
    BY <2>1 DEF TypeOK, IsPartial
  <2>4. /\ DOMAIN recipients' = DOMAIN recipients
        /\ \A b \in DOMAIN recipients : recipients'[b].wa = recipients[b].wa
        /\ \A b \in DOMAIN recipients : recipients'[b].nick = IF b = a THEN n ELSE recipients[b].nick
    BY <2>1 DEF TypeOK, IsPartial
  <2>5. FreshUuids' /\ NicksUnique'
    BY <2>2, <2>3 DEF RegistryInv, FreshUuids, NicksUnique
  <2>6. RegistryConsistent'
    BY <2>3 DEF RegistryInv, RegistryConsistent, Ghosts
  <2>7. \A b \in DOMAIN contacts : contacts[b].uuid \in DOMAIN users /\ (b # a => contacts[b].uuid # u)
    BY DEF RegistryInv, RegistryConsistent, Ghosts
  <2>8. GhostsMatchDatabase'
    BY <2>3, <2>4, <2>7 DEF RegistryInv, GhostsMatchDatabase
  <2> QED
    BY <2>5, <2>6, <2>8 DEF RegistryInv
<1> QED
  BY <1>1, <1>2

\* A process that has just started (main) has a consistent registry: no user.
LEMMA RegistryRestarted ==
  ASSUME Restarted
  PROVE  RegistryInv'
<1>1. DOMAIN users' = {} /\ DOMAIN contacts' = {} /\ DOMAIN contacts_uuid_pdua' = {}
  BY DEF Restarted, Empty
<1> QED
  BY <1>1 DEF RegistryInv, FreshUuids, RegistryConsistent, GhostsMatchDatabase, NicksUnique, Ghosts

\* setup_contact_for gives a recipient a ghost with a new UUID and a free
\* nick, and so keeps the registry consistent.
LEMMA RegistrySetupGhost ==
  ASSUME TypeOK, RegistryInv, SetupGhost
  PROVE  RegistryInv'
<1> DEFINE a == Head(todo).addr
           u == next_user_id
<1>1. PICK n \in Settled(recipients[a].nick) :
        /\ recipients' = [recipients EXCEPT ![a].nick = n]
        /\ users' = Put(users, u, n)
  BY DEF SetupGhost, GetUuid
<1>2. /\ a \in DOMAIN recipients /\ a \notin DOMAIN contacts /\ a \in Addrs
      /\ u \in Ids
      /\ contacts' = Put(contacts, a, [uuid |-> u, wa |-> recipients[a].wa])
      /\ contacts_uuid_pdua' = Put(contacts_uuid_pdua, u, a)
      /\ next_user_id' = u + 1
  BY TaskAtHand DEF SetupGhost, GetUuid, Busy, UuidsLeft, TypeOK, Ids
<1>3. recipients[a] \in [nick : Nick, wa : BOOLEAN]
  BY <1>2 DEF TypeOK, IsPartial
<1>4. n # AdminNick /\ \A v \in DOMAIN users : users[v] # n
  BY <1>3, SettledFree DEF Taken
<1>5. u \notin DOMAIN users /\ u \notin Ghosts
  BY <1>2 DEF RegistryInv, FreshUuids, RegistryConsistent, TypeOK, Ids
<1>6. \A b \in DOMAIN contacts : contacts[b].uuid # u /\ contacts[b].uuid \in DOMAIN users
  BY <1>5 DEF RegistryInv, RegistryConsistent
<1>7. \A v \in Ghosts : contacts_uuid_pdua[v] # a
  BY <1>2 DEF RegistryInv, RegistryConsistent
<1>8. /\ DOMAIN users' = DOMAIN users \cup {u} /\ users'[u] = n
      /\ \A v \in DOMAIN users : users'[v] = users[v]
  BY <1>1, <1>5 DEF Put
<1>9. /\ DOMAIN contacts' = DOMAIN contacts \cup {a}
      /\ contacts'[a].uuid = u /\ contacts'[a].wa = recipients[a].wa
      /\ \A b \in DOMAIN contacts : contacts'[b] = contacts[b]
  BY <1>2 DEF Put
<1>10. /\ DOMAIN contacts_uuid_pdua' = DOMAIN contacts_uuid_pdua \cup {u} /\ contacts_uuid_pdua'[u] = a
       /\ \A v \in Ghosts : contacts_uuid_pdua'[v] = contacts_uuid_pdua[v]
  BY <1>2, <1>5 DEF Put, Ghosts
<1>11. /\ DOMAIN recipients' = DOMAIN recipients
       /\ \A b \in DOMAIN recipients : recipients'[b].wa = recipients[b].wa
       /\ \A b \in DOMAIN recipients : recipients'[b].nick = IF b = a THEN n ELSE recipients[b].nick
  BY <1>1, <1>2 DEF TypeOK, IsPartial
<1>12. FreshUuids'
  BY <1>2, <1>8 DEF RegistryInv, FreshUuids, Ids, TypeOK
<1>13. NicksUnique'
  BY <1>4, <1>8 DEF RegistryInv, NicksUnique
<1>14. RegistryConsistent'
  <2>1. Ghosts' = Ghosts \cup {u}
    BY <1>10 DEF Ghosts
  <2>2. ASSUME NEW b \in DOMAIN contacts'
        PROVE  contacts'[b].uuid \in Ghosts' /\ contacts_uuid_pdua'[contacts'[b].uuid] = b
    <3>1. CASE b = a
      BY <1>9, <1>10, <2>1, <3>1
    <3>2. CASE b # a
      <4>1. b \in DOMAIN contacts /\ contacts'[b] = contacts[b]
        BY <1>9, <2>2, <3>2
      <4>2. contacts[b].uuid \in Ghosts /\ contacts_uuid_pdua[contacts[b].uuid] = b
        BY <4>1 DEF RegistryInv, RegistryConsistent
      <4> QED
        BY <1>10, <2>1, <4>1, <4>2
    <3> QED
      BY <3>1, <3>2
  <2>3. ASSUME NEW v \in Ghosts'
        PROVE  /\ contacts_uuid_pdua'[v] \in DOMAIN contacts'
               /\ contacts'[contacts_uuid_pdua'[v]].uuid = v
               /\ v \in DOMAIN users'
    <3>1. CASE v = u
      BY <1>8, <1>9, <1>10, <3>1
    <3>2. CASE v # u
      <4>1. v \in Ghosts /\ contacts_uuid_pdua'[v] = contacts_uuid_pdua[v]
        BY <1>10, <2>1, <2>3, <3>2
      <4>2. /\ contacts_uuid_pdua[v] \in DOMAIN contacts
            /\ contacts[contacts_uuid_pdua[v]].uuid = v
            /\ v \in DOMAIN users
        BY <4>1 DEF RegistryInv, RegistryConsistent
      <4> QED
        BY <1>8, <1>9, <4>1, <4>2
    <3> QED
      BY <3>1, <3>2
  <2> QED
    BY <2>2, <2>3 DEF RegistryConsistent
<1>15. GhostsMatchDatabase'
  BY <1>2, <1>6, <1>8, <1>9, <1>11 DEF RegistryInv, GhostsMatchDatabase
<1> QED
  BY <1>12, <1>13, <1>14, <1>15 DEF RegistryInv
\* In the state ServerSent the server's SERVER line comes first, and in the
\* later states it does not come at all
LEMMA LineIsServer ==
  ASSUME TypeOK, Handshake, Read("SERVER")
  PROVE  state = "ServerSent"
<1>1. 1 \in DOMAIN inbound /\ inbound[1].l = "SERVER"
  BY DEF Read, TypeOK
<1> QED
  BY <1>1 DEF Read, Handshake, NoServer, TypeOK

\* Lines other than SERVER are read only after the handshake.
LEMMA LineIsNotServer ==
  ASSUME TypeOK, Handshake, NEW l, l # "SERVER", Read(l)
  PROVE  state \in {"BurstSent", "Linked"}
BY DEF Read, Handshake, TypeOK

\* handle_remote_message keeps the registry: UID, NICK, QUIT, KILL and SQUIT
\* lines change users, and remove_user takes a ghost out of all three maps.
LEMMA ReadLineRegistry ==
  ASSUME TypeOK, Handshake, RegistryInv, ReadLine
  PROVE  RegistryInv'
<1> USE LinkAssumption
<1>0. Remotes \cap OwnUuids = {}
  BY DEF OwnUuids, Ids, Control
<1>1. CASE ReadServer
  <2>1. DOMAIN users = {}
    BY <1>1, LineIsServer DEF ReadServer, Handshake, Empty
  <2>2. DOMAIN users' = {Control} /\ users'[Control] = ControlNick
    BY <1>1, <2>1 DEF ReadServer, Put
  <2>3. DOMAIN contacts = {} /\ DOMAIN contacts_uuid_pdua = {}
    BY <2>1 DEF RegistryInv, RegistryConsistent, Ghosts
  <2>4. Control \notin Ids
    BY DEF Control, Ids
  <2> QED
    BY <1>1, <2>2, <2>3, <2>4
    DEF ReadServer, RegistryInv, FreshUuids, RegistryConsistent, GhostsMatchDatabase, NicksUnique, Ghosts
<1>2. CASE ReadEndburst \/ ReadDirectMessage \/ ReadCommand
  BY <1>2, RegistryUnchanged DEF ReadEndburst, ReadDirectMessage, ReadCommand, store
<1>3. CASE ReadUid
  <2>1. Head(inbound).uuid \in Remotes
    BY <1>3, LineAtHand DEF ReadUid, Read
  <2>2. /\ DOMAIN users' \cap OwnUuids = DOMAIN users \cap OwnUuids
        /\ \A u \in DOMAIN users \cap OwnUuids : users'[u] = users[u]
    BY <1>0, <1>3, <2>1 DEF ReadUid, Put
  <2> QED
    BY <1>3, <2>2, RegistryOtherUsers DEF ReadUid, store
<1>4. CASE ReadNick
  <2>1. Head(inbound).uuid \in Remotes
    BY <1>4, LineAtHand DEF ReadNick, Read
  <2>2. /\ DOMAIN users' \cap OwnUuids = DOMAIN users \cap OwnUuids
        /\ \A u \in DOMAIN users \cap OwnUuids : users'[u] = users[u]
    BY <1>0, <1>4, <2>1 DEF ReadNick
  <2> QED
    BY <1>4, <2>2, RegistryOtherUsers DEF ReadNick, store
<1>5. CASE ReadQuitOrKill
  BY <1>5, RegistryRemoveUser DEF ReadQuitOrKill, store
<1>6. CASE ReadSquit
  <2>1. /\ DOMAIN users' \cap OwnUuids = DOMAIN users \cap OwnUuids
        /\ \A u \in DOMAIN users \cap OwnUuids : users'[u] = users[u]
    BY <1>0, <1>6 DEF ReadSquit, Without
  <2> QED
    BY <1>6, <2>1, RegistryOtherUsers DEF ReadSquit, store
<1> QED
  BY <1>1, <1>2, <1>3, <1>4, <1>5, <1>6 DEF ReadLine

\* The handler that runs keeps the registry: setup_contact_for adds a ghost
\* to all three maps, set_wa_state changes both copies of the mode.
LEMMA HandlerRegistry ==
  ASSUME TypeOK, RegistryInv, Handler
  PROVE  RegistryInv'
<1>1. CASE SetupNothing \/ QuasiburstStep \/ QuasiburstEnd \/ BecomeLinked \/ StartMessages \/ MessagesEnd
  BY <1>1, RegistryUnchanged
  DEF SetupNothing, QuasiburstStep, QuasiburstEnd, BecomeLinked, StartMessages, MessagesEnd, store
<1>2. CASE UuidsExhausted
  BY <1>2, RegistryRestarted DEF UuidsExhausted
<1>3. ASSUME NEW m \in messages, MessageOfStranger(m) \/ MessageNeedsGhost(m)
      PROVE  RegistryInv'
  BY <1>3, RegistryUnchanged DEF MessageOfStranger, MessageNeedsGhost, store
<1>4. ASSUME NEW m \in messages, MessageShown(m)
      PROVE  RegistryInv'
  BY <1>4, RegistrySetMode DEF MessageShown
<1> QED
  BY <1>1, <1>2, <1>3, <1>4, RegistrySetupGhost DEF Handler

\* handle_cf_command keeps the registry: dropping and renaming contacts
\* changes the maps and the database together.
LEMMA TakeCommandRegistry ==
  ASSUME TypeOK, RegistryInv, TakeCommand
  PROVE  RegistryInv'
<1>1. CASE TakeProcessMessages \/ TakeSetupContact \/ TakeQueryContact
  BY <1>1, RegistryUnchanged DEF TakeProcessMessages, TakeSetupContact, TakeQueryContact, store
<1>2. \A u \in Ghosts : contacts_uuid_pdua[u] \in DOMAIN contacts
  BY DEF RegistryInv, RegistryConsistent
<1>3. CASE TakeDropContactByNick
  <2>1. CASE Named(Head(cf_rx).nick) = {}
    BY <1>3, <2>1, RegistryUnchanged DEF TakeDropContactByNick, registry
  <2>2. CASE Named(Head(cf_rx).nick) # {}
    <3>1. PICK u \in Named(Head(cf_rx).nick) :
            /\ recipients' = Without(recipients, {contacts_uuid_pdua[u]})
            /\ RemoveContact(u)
      BY <1>3, <2>2 DEF TakeDropContactByNick
    <3>2. u \in Ghosts /\ next_user_id' = next_user_id
      BY <1>3, NamedType DEF TakeDropContactByNick, Ghosts
    <3> QED
      BY <3>1, <3>2, RegistryGhostGone DEF RemoveContact, Without
  <2> QED
    BY <2>1, <2>2
<1>4. CASE TakeChangeNickByNick
  <2>1. Head(cf_rx).new \in Nick
    BY <1>4, CommandAtHand DEF TakeChangeNickByNick, Take
  <2>2. CASE Named(Head(cf_rx).nick) = {}
    BY <1>4, <2>2, RegistryUnchanged DEF TakeChangeNickByNick, registry
  <2>3. CASE Named(Head(cf_rx).nick) # {}
    BY <1>2, <1>4, <2>1, <2>3, NamedType, RegistryChangeNick DEF TakeChangeNickByNick, Ghosts
  <2> QED
    BY <2>2, <2>3
<1>5. CASE TakeChangeNick
  <2>1. Head(cf_rx).new \in Nick
    BY <1>5, CommandAtHand DEF TakeChangeNick, Take
  <2> QED
    BY <1>5, <2>1, RegistryUnchanged, RegistryChangeNick DEF TakeChangeNick, registry
<1>6. CASE TakeSetWhatsappByNick
  <2>1. Head(cf_rx).wa \in BOOLEAN
    BY <1>6, CommandAtHand DEF TakeSetWhatsappByNick, Take
  <2>2. CASE Named(Head(cf_rx).nick) = {}
    BY <1>6, <2>2, RegistryUnchanged DEF TakeSetWhatsappByNick, registry
  <2>3. CASE Named(Head(cf_rx).nick) # {}
    BY <1>2, <1>6, <2>1, <2>3, NamedType, RegistrySetMode DEF TakeSetWhatsappByNick, Ghosts
  <2> QED
    BY <2>2, <2>3
<1> QED
  BY <1>1, <1>3, <1>4, <1>5, <1>6 DEF TakeCommand

\* make_contact and get_wa_recipient only add recipients that were not there,
\* and so keep the registry consistent.
LEMMA MakeContactRegistry ==
  ASSUME TypeOK, RegistryInv, NEW a \in Addrs, NEW more,
         SmsMakeContact(a) \/ GetWaRecipient(a, more),
         UNCHANGED registry
  PROVE  RegistryInv'
<1>1. CASE a \in DOMAIN recipients
  BY <1>1, RegistryUnchanged DEF SmsMakeContact, GetWaRecipient
<1>2. CASE a \notin DOMAIN recipients
  <2>1. PICK r : recipients' = Put(recipients, a, r)
    BY <1>2 DEF SmsMakeContact, GetWaRecipient
  <2> QED
    BY <1>2, <2>1, RegistryNewRecipient
<1> QED
  BY <1>1, <1>2

\* Every step keeps the registry.
LEMMA NextRegistry ==
  ASSUME TypeOK, Handshake, RegistryInv, [Next]_vars
  PROVE  RegistryInv'
<1>1. CASE Bridge
  <2>1. CASE SendServer
    BY <2>1, RegistryUnchanged DEF SendServer, store
  <2> QED
    BY <1>1, <2>1, HandlerRegistry, ReadLineRegistry, TakeCommandRegistry DEF Bridge
<1>2. CASE ServerReads
  BY <1>2, RegistryUnchanged DEF ServerReads, local, store
<1>3. ASSUME NEW src \in Sources, ManagerStep(src)
      PROVE  RegistryInv'
  <2> DEFINE q == Head(mgr_rx[src])
  <2>1. q \in Request
    BY <1>3, SeqType DEF ManagerStep, TypeOK
  <2>2. CASE q.r = "send"
    BY <1>3, <2>2, RegistryUnchanged DEF ManagerStep
  <2>3. CASE q.r = "make"
    BY <1>3, <2>1, <2>3, MakeContactRegistry DEF ManagerStep, Sources, Request
  <2> QED
    BY <2>1, <2>2, <2>3 DEF Request
<1>4. CASE Outside
  <2>1. CASE Crash
    BY <2>1, RegistryRestarted DEF Crash
  <2>2. ASSUME NEW a \in Addrs, WaArrives(a) \/ WaContactSeen(a)
        PROVE  RegistryInv'
    BY <2>2, MakeContactRegistry DEF WaArrives, WaContactSeen
  <2>3. CASE ~Crash /\ ~(\E a \in Addrs : WaArrives(a) \/ WaContactSeen(a))
    <3>1. UNCHANGED <<registry, recipients>>
      BY <1>4, <2>3
      DEF Outside, Split, SmsArrives, WaContactRenamed, Connect, Rename, Quit, Kill, WriteToGhost,
          WriteToControl, local, store
    <3> QED
      BY <3>1, RegistryUnchanged
  <2> QED
    BY <2>1, <2>2, <2>3
<1>5. CASE UNCHANGED vars
  BY <1>5, RegistryUnchanged DEF vars, registry
<1> QED
  BY <1>1, <1>2, <1>3, <1>4, <1>5 DEF Next
-----------------------------------------------------------------------------
(* The handshake *)

\* A queue without a SERVER line stays one when a line of another kind is
\* sent or its head is handled.
LEMMA NoServerSeq ==
  ASSUME NEW S, NEW s \in Seq(S), NoServer(s), NEW x, x.l # "SERVER"
  PROVE  /\ NoServer(Append(s, x))
         /\ s # <<>> => NoServer(Tail(s))
BY DEF NoServer

\* A queue whose only SERVER line is its head stays one when a line of
\* another kind is added.
LEMMA ServerFirst ==
  ASSUME NEW S, NEW s \in Seq(S), s # <<>>, NoServer(Tail(s)), NEW x, x.l # "SERVER"
  PROVE  Append(s, x) # <<>> /\ Head(Append(s, x)) = Head(s) /\ NoServer(Tail(Append(s, x)))
<1>1. Head(Append(s, x)) = Head(s) /\ Tail(Append(s, x)) = Append(Tail(s), x)
  OBVIOUS
<1>2. Tail(s) \in Seq(S) /\ Append(s, x) # <<>>
  OBVIOUS
<1>3. NoServer(Append(Tail(s), x))
  BY <1>2, NoServerSeq
<1> QED
  BY <1>1, <1>2, <1>3

\* Once the bridge has introduced itself (do_burst), nothing on the wire says
\* SERVER any more, and that is all the handshake asks.
LEMMA HandshakeUp ==
  ASSUME state' \in {"BurstSent", "Linked"}, accepted', NoServer(outbox'), NoServer(inbound')
  PROVE  Handshake'
BY DEF Handshake

\* After a restart the handshake is at its beginning.
LEMMA HandshakeRestarted ==
  ASSUME Restarted
  PROVE  Handshake'
BY DEF Restarted, Handshake

\* Taken apart, a netburst is a SERVER line followed by lines of other kinds.
LEMMA NetburstsShape ==
  ASSUME TypeOK, NEW s \in Netbursts
  PROVE  s # <<>> /\ Head(s).l = "SERVER" /\ NoServer(Tail(s))
<1> DEFINE n == Cardinality(DOMAIN net)
<1>1. PICK f \in [1 .. n -> DOMAIN net] :
        s = <<[l |-> "SERVER"]>> \o [i \in 1 .. n |-> [l |-> "UID", uuid |-> f[i], nick |-> net[f[i]]]]
              \o <<[l |-> "ENDBURST"]>>
  BY DEF Netbursts
<1> n \in Nat
  BY NetSize
<1> HIDE DEF n
<1> DEFINE x == [i \in 1 .. n |-> [l |-> "UID", uuid |-> f[i], nick |-> net[f[i]]]]
<1>2. DOMAIN x = 1 .. n /\ Len(x) = n /\ \A i \in 1 .. n : x[i].l = "UID"
  OBVIOUS
<1>3. Len(s) = n + 2 /\ s[1].l = "SERVER" /\ \A i \in 2 .. n + 2 : s[i].l # "SERVER"
  BY <1>1, <1>2
<1>4. s \in Seq(LineIn)
  BY NetburstsType
<1> QED
  BY <1>3, <1>4 DEF NoServer

\* A line that the server passes on is not a SERVER line, and so keeps the
\* handshake.
LEMMA HandshakeTell ==
  ASSUME TypeOK, Handshake, NEW l, l.l # "SERVER", Tell(l),
         UNCHANGED <<state, users, todo, outbox, accepted>>
  PROVE  Handshake'
<1>1. CASE state = "TcpConnected"
  BY <1>1 DEF Handshake, Tell
<1>2. CASE state = "ServerSent"
  BY <1>2, ServerFirst DEF Handshake, Tell, TypeOK
<1>3. CASE state \in {"BurstSent", "Linked"}
  BY <1>3, NoServerSeq, HandshakeUp DEF Handshake, Tell, TypeOK
<1> QED
  BY <1>1, <1>2, <1>3 DEF TypeOK

\* A step that touches neither the state of the link nor its lines keeps
\* the handshake as it is.
LEMMA HandshakeUnchanged ==
  ASSUME Handshake, UNCHANGED <<state, users, todo, outbox, inbound, accepted>>
  PROVE  Handshake'
BY DEF Handshake

\* The handler that runs keeps the handshake: handlers run only after do_burst.
LEMMA HandlerHandshake ==
  ASSUME TypeOK, Handshake, Handler
  PROVE  Handshake'
<1>1. todo # <<>>
  BY DEF Handler, SetupNothing, SetupGhost, UuidsExhausted, QuasiburstStep, QuasiburstEnd, BecomeLinked,
         StartMessages, MessagesEnd, MessageOfStranger, MessageNeedsGhost, MessageShown, NextToShow, Busy
<1>2. state \in {"BurstSent", "Linked"} /\ accepted /\ NoServer(outbox) /\ NoServer(inbound)
  BY <1>1 DEF Handshake, TypeOK
<1>3. CASE SetupNothing \/ QuasiburstStep \/ QuasiburstEnd \/ BecomeLinked \/ StartMessages \/ MessagesEnd
  <2>1. state' \in {state, "Linked"} /\ UNCHANGED <<outbox, inbound, accepted>>
    BY <1>3 DEF SetupNothing, QuasiburstStep, QuasiburstEnd, BecomeLinked, StartMessages, MessagesEnd, network
  <2> QED
    BY <1>2, <2>1, HandshakeUp
<1>4. CASE SetupGhost
  <2>1. PICK x : x.l = "UID" /\ Send(x)
    BY <1>4 DEF SetupGhost
  <2>2. NoServer(outbox')
    BY <1>2, <2>1, NoServerSeq DEF Send, TypeOK
  <2>3. UNCHANGED <<state, inbound, accepted>>
    BY <1>4 DEF SetupGhost, network
  <2> QED
    BY <1>2, <2>2, <2>3, HandshakeUp
<1>5. CASE UuidsExhausted
  BY <1>5, HandshakeRestarted DEF UuidsExhausted
<1>6. ASSUME NEW m \in messages, MessageOfStranger(m) \/ MessageNeedsGhost(m)
      PROVE  Handshake'
  BY <1>2, <1>6, HandshakeUp DEF MessageOfStranger, MessageNeedsGhost, network
<1>7. ASSUME NEW m \in messages, MessageShown(m)
      PROVE  Handshake'
  <2>1. outbox' = outbox \/ \E x : x.l = "MSG" /\ Send(x)
    BY <1>7 DEF MessageShown, ProcessMsg
  <2>2. NoServer(outbox')
    BY <1>2, <2>1, NoServerSeq DEF Send, TypeOK
  <2>3. UNCHANGED <<state, inbound, accepted>>
    BY <1>7 DEF MessageShown, network
  <2> QED
    BY <1>2, <2>2, <2>3, HandshakeUp
<1> QED
  BY <1>3, <1>4, <1>5, <1>6, <1>7 DEF Handler

\* handle_remote_message keeps the handshake: the SERVER line is read once.
LEMMA ReadLineHandshake ==
  ASSUME TypeOK, Handshake, ReadLine
  PROVE  Handshake'
<1>1. CASE ReadServer
  <2>1. state = "ServerSent"
    BY <1>1, LineIsServer DEF ReadServer
  <2>2. accepted /\ outbox = <<>> /\ NoServer(inbound')
    BY <1>1, <2>1 DEF ReadServer, Read, Handshake
  <2>3. NoServer(outbox')
    BY <1>1, <2>2 DEF ReadServer, Send, NoServer
  <2> QED
    BY <1>1, <2>2, <2>3, HandshakeUp DEF ReadServer, network
<1>2. CASE ~ReadServer
  <2>1. PICK l \in {"ENDBURST", "UID", "NICK", "QUIT", "KILL", "SQUIT", "DM", "CMD"} : Read(l)
    BY <1>2 DEF ReadLine, ReadEndburst, ReadUid, ReadNick, ReadQuitOrKill, ReadSquit, ReadDirectMessage, ReadCommand
  <2>2. state \in {"BurstSent", "Linked"}
    BY <2>1, LineIsNotServer
  <2>3. accepted /\ NoServer(outbox) /\ NoServer(inbound')
    BY <2>1, <2>2 DEF Handshake, Read, NoServer, TypeOK
  <2>4. UNCHANGED <<state, outbox, accepted>>
    BY <1>2 DEF ReadLine, ReadEndburst, ReadUid, ReadNick, ReadQuitOrKill, ReadSquit, ReadDirectMessage, ReadCommand,
                network
  <2> QED
    BY <2>2, <2>3, <2>4, HandshakeUp
<1> QED
  BY <1>1, <1>2

\* handle_cf_command keeps the handshake: commands are read only when the
\* link is up.
LEMMA TakeCommandHandshake ==
  ASSUME TypeOK, Handshake, TakeCommand
  PROVE  Handshake'
<1>1. state = "Linked" /\ accepted /\ NoServer(outbox) /\ NoServer(inbound)
  BY DEF TakeCommand, TakeProcessMessages, TakeSetupContact, TakeQueryContact, TakeDropContactByNick,
         TakeChangeNickByNick, TakeChangeNick, TakeSetWhatsappByNick, Take, Handshake
<1>2. UNCHANGED <<state, inbound, accepted>>
  BY DEF TakeCommand, TakeProcessMessages, TakeSetupContact, TakeQueryContact, TakeDropContactByNick,
         TakeChangeNickByNick, TakeChangeNick, TakeSetWhatsappByNick, network
<1>3. outbox' = outbox \/ \E x : x.l = "QUIT" /\ Send(x)
  BY DEF TakeCommand, TakeProcessMessages, TakeSetupContact, TakeQueryContact, TakeDropContactByNick,
         TakeChangeNickByNick, TakeChangeNick, TakeSetWhatsappByNick, RemoveContact
<1>4. NoServer(outbox')
  BY <1>1, <1>3, NoServerSeq DEF Send, TypeOK
<1> QED
  BY <1>1, <1>2, <1>4, HandshakeUp

\* The server's handling of a line keeps the handshake: it answers our
\* SERVER line with its netburst.
LEMMA ServerReadsHandshake ==
  ASSUME TypeOK, Handshake, ServerReads
  PROVE  Handshake'
<1> DEFINE line == Head(outbox)
<1>0. UNCHANGED <<state, users, todo>> /\ outbox' = Tail(outbox) /\ outbox # <<>> /\ line \in LineOut
  BY SeqType DEF ServerReads, local, registry, TypeOK
<1>1. CASE state = "TcpConnected"
  BY <1>0, <1>1 DEF Handshake
<1>2. CASE state = "ServerSent"
  <2>1. ~accepted /\ outbox = <<[l |-> "SERVER"]>>
    BY <1>0, <1>2 DEF Handshake
  <2>2. line.l = "SERVER" /\ outbox' = <<>>
    BY <1>0, <2>1
  <2>3. accepted' /\ inbound' \in Netbursts
    BY <2>2 DEF ServerReads
  <2>4. inbound' # <<>> /\ Head(inbound').l = "SERVER" /\ NoServer(Tail(inbound'))
    BY <2>3, NetburstsShape
  <2> QED
    BY <1>0, <1>2, <2>2, <2>3, <2>4 DEF Handshake
<1>3. CASE state \in {"BurstSent", "Linked"}
  <2>1. accepted /\ NoServer(outbox) /\ NoServer(inbound)
    BY <1>3 DEF Handshake
  <2>2. line.l # "SERVER"
    BY <1>0, <2>1 DEF NoServer, TypeOK
  <2>3. line.l \in {"UID", "QUIT", "MSG"}
    BY <1>0, <2>2 DEF LineOut
  <2>4. UNCHANGED <<accepted, inbound>>
    BY <2>3 DEF ServerReads
  <2>5. NoServer(outbox')
    BY <1>0, <2>1 DEF NoServer, TypeOK
  <2> QED
    BY <1>0, <1>3, <2>1, <2>4, <2>5, HandshakeUp
<1> QED
  BY <1>1, <1>2, <1>3 DEF TypeOK

\* What happens outside keeps the handshake: the server relays nothing
\* before it has accepted the link.
LEMMA OutsideHandshake ==
  ASSUME TypeOK, Handshake, Outside
  PROVE  Handshake'
<1> USE LinkAssumption
<1>1. CASE Crash
  BY <1>1, HandshakeRestarted DEF Crash
<1>2. CASE \/ \E a \in Addrs : SmsArrives(a) \/ WaArrives(a) \/ WaContactSeen(a)
           \/ \E a \in Addrs, n \in Nicks : WaContactRenamed(a, n)
  BY <1>2, HandshakeUnchanged DEF SmsArrives, WaArrives, WaContactSeen, WaContactRenamed, registry, network
<1>3. CASE ~Crash /\ ~(\/ \E a \in Addrs : SmsArrives(a) \/ WaArrives(a) \/ WaContactSeen(a)
                       \/ \E a \in Addrs, n \in Nicks : WaContactRenamed(a, n))
  <2>1. UNCHANGED <<state, users, todo, outbox, accepted>>
    BY <1>3 DEF Outside, Split, Connect, Rename, Quit, Kill, WriteToGhost, WriteToControl, local, network, registry
  <2>2. \E l : l.l # "SERVER" /\ Tell(l)
    BY <1>3 DEF Outside, Split, Connect, Rename, Quit, Kill, WriteToGhost, WriteToControl
  <2> QED
    BY <2>1, <2>2, HandshakeTell
<1> QED
  BY <1>1, <1>2, <1>3

\* Every step keeps the handshake.
LEMMA NextHandshake ==
  ASSUME TypeOK, Handshake, [Next]_vars
  PROVE  Handshake'
<1>1. CASE Bridge
  <2>1. CASE SendServer
    BY <2>1 DEF SendServer, Send, Handshake, registry, network
  <2> QED
    BY <1>1, <2>1, HandlerHandshake, ReadLineHandshake, TakeCommandHandshake DEF Bridge
<1>2. CASE \E src \in Sources : ManagerStep(src)
  BY <1>2, HandshakeUnchanged DEF ManagerStep, registry, network
<1>3. CASE UNCHANGED vars
  BY <1>3, HandshakeUnchanged DEF vars
<1> QED
  BY <1>1, <1>2, <1>3, ServerReadsHandshake, OutsideHandshake DEF Next

-----------------------------------------------------------------------------
(* The theorems *)

\* The inductive invariant of the link: TypeOK, the handshake, and the
\* registry of ghosts, which rests on new UUIDs being new (get_uuid).
THEOREM LinkInvariant == Spec => []LinkInv
<1>1. Init => LinkInv
  <2> SUFFICES ASSUME Init PROVE LinkInv
    OBVIOUS
  <2>1. TypeOK
    BY InitType
  <2>2. Handshake
    BY DEF Init, Handshake
  <2>3. DOMAIN users = {} /\ DOMAIN contacts = {} /\ DOMAIN contacts_uuid_pdua = {}
    BY DEF Init, Empty
  <2> QED
    BY <2>1, <2>2, <2>3
    DEF LinkInv, FreshUuids, RegistryConsistent, GhostsMatchDatabase, NicksUnique, Ghosts
<1>2. LinkInv /\ [Next]_vars => LinkInv'
  BY NextType, NextHandshake, NextRegistry DEF LinkInv, RegistryInv
<1> QED
  BY <1>1, <1>2, PTL DEF Spec

\* Every variable keeps its type: no lookup in a map of the link, and no
\* UUID, address or nick that it sends, is out of place.
THEOREM TypeCorrect == Spec => []TypeOK
BY LinkInvariant, PTL DEF LinkInv

\* contacts and contacts_uuid_pdua stay inverse to each other, whatever is
\* dropped, killed and set up again (setup_contact_for, remove_user,
\* remove_contact_for).
THEOREM RegistryTheorem == Spec => []RegistryConsistent
BY LinkInvariant, PTL DEF LinkInv

\* Ghosts show the nick and the mode that the database has for them
\* (setup_contact, set_wa_state, forward_cmd).
THEOREM DatabaseTheorem == Spec => []GhostsMatchDatabase
BY LinkInvariant, PTL DEF LinkInv

\* No two users of the bridge share a nick, and none has the administrator's
\* (check_nick_for_collisions).
THEOREM NicksTheorem == Spec => []NicksUnique
BY LinkInvariant, PTL DEF LinkInv

\* The bridge and its server agree on where the handshake is (poll,
\* handle_remote_message).
THEOREM HandshakeTheorem == Spec => []Handshake
BY LinkInvariant, PTL DEF LinkInv

-----------------------------------------------------------------------------
(* Whom a ghost stands for *)

\* Ghost u stands for address a: in a map, in a line to the server, or in
\* what a user of the network wrote to it.
ByMap(f, u, a) == u \in DOMAIN f /\ f[u] = a
ByLine(l, u, a) ==
  \/ l.l = "UID" /\ l.uuid = u /\ l.addr = a
  \/ l.l = "MSG" /\ l.uuid = u /\ l.msg.addr = a
ByOutbox(s, u, a) == \E l \in Elements(s) : ByLine(l, u, a)
ByInbound(s, u, a) == \E l \in Elements(s) : l.l = "DM" /\ l.uuid = u /\ l.meant = a

Stands(u, a) ==
  \/ ByMap(seen, u, a) \/ ByMap(contacts_uuid_pdua, u, a)
  \/ ByOutbox(outbox, u, a) \/ ByInbound(inbound, u, a)

\* The inductive invariant: a UUID that was given out stands for one address
\* as long as the connection lasts.
StandsForOne ==
  \A u \in Ids, a \in Addrs :
    Stands(u, a) => u < next_user_id /\ \A b \in Addrs : Stands(u, b) => a = b

\* A step after which ghosts stand for nobody else.
LEMMA StandsLess ==
  ASSUME StandsForOne, next_user_id' = next_user_id,
         \A u \in Ids, a \in Addrs : Stands(u, a)' => Stands(u, a)
  PROVE  StandsForOne'
BY DEF StandsForOne

\* A line that is read, and one that is sent.
LEMMA TailStands ==
  ASSUME NEW S, NEW s \in Seq(S), s # <<>>, NEW u, NEW a
  PROVE  /\ ByOutbox(Tail(s), u, a) => ByOutbox(s, u, a)
         /\ ByInbound(Tail(s), u, a) => ByInbound(s, u, a)
         /\ ByLine(Head(s), u, a) => ByOutbox(s, u, a)
         /\ Head(s).l = "DM" /\ Head(s).uuid = u /\ Head(s).meant = a => ByInbound(s, u, a)
<1>1. Elements(s) = {Head(s)} \cup Elements(Tail(s))
  BY ElementsOf
<1> QED
  BY <1>1 DEF ByOutbox, ByInbound

LEMMA AppendStands ==
  ASSUME NEW S, NEW s \in Seq(S), NEW x \in S, NEW u, NEW a
  PROVE  /\ ByOutbox(Append(s, x), u, a) => ByOutbox(s, u, a) \/ ByLine(x, u, a)
         /\ ByInbound(Append(s, x), u, a) =>
              ByInbound(s, u, a) \/ (x.l = "DM" /\ x.uuid = u /\ x.meant = a)
<1>1. Elements(Append(s, x)) = Elements(s) \cup {x}
  BY ElementsOf
<1> QED
  BY <1>1 DEF ByOutbox, ByInbound

\* After a restart no ghost stands for anybody.
LEMMA RestartedStands ==
  ASSUME Restarted
  PROVE  StandsForOne'
<1>1. /\ DOMAIN seen' = {} /\ DOMAIN contacts_uuid_pdua' = {}
      /\ Elements(outbox') = {} /\ Elements(inbound') = {}
  BY DEF Restarted, Empty, Elements
<1>2. \A u \in Ids, a \in Addrs : ~Stands(u, a)'
  BY <1>1 DEF Stands, ByMap, ByOutbox, ByInbound
<1> QED
  BY <1>2 DEF StandsForOne

\* setup_contact_for: the UUID of the new ghost stood for nobody.
LEMMA SetupGhostStands ==
  ASSUME TypeOK, StandsForOne, SetupGhost
  PROVE  StandsForOne'
<1> DEFINE x == Head(todo).addr
           w == next_user_id
           line == [l |-> "UID", uuid |-> w, addr |-> x]
<1>1. /\ contacts_uuid_pdua' = Put(contacts_uuid_pdua, w, x) /\ next_user_id' = w + 1
      /\ Send(line) /\ UNCHANGED <<seen, inbound>>
  BY DEF SetupGhost, GetUuid, network
<1>2. x \in Addrs /\ w \in Ids /\ w \in Nat
  BY TaskAtHand DEF SetupGhost, Busy, UuidsLeft, Ids, TypeOK
<1>3. line \in LineOut /\ outbox \in Seq(LineOut) /\ line.l = "UID" /\ line.uuid = w /\ line.addr = x
  BY <1>2 DEF LineOut, TypeOK
<1> HIDE DEF line
<1>4. \A u \in Ids, a \in Addrs : Stands(u, a)' => Stands(u, a) \/ (u = w /\ a = x)
  <2> TAKE u \in Ids, a \in Addrs
  <2>1. ByOutbox(outbox', u, a) => ByOutbox(outbox, u, a) \/ (u = w /\ a = x)
    <3>1. outbox' = Append(outbox, line)
      BY <1>1 DEF Send
    <3>2. ByLine(line, u, a) => u = w /\ a = x
      BY <1>3 DEF ByLine
    <3> QED
      BY <1>3, <3>1, <3>2, AppendStands
  <2>2. ByMap(contacts_uuid_pdua', u, a) => ByMap(contacts_uuid_pdua, u, a) \/ (u = w /\ a = x)
    BY <1>1 DEF ByMap, Put
  <2>3. ByMap(seen', u, a) = ByMap(seen, u, a) /\ ByInbound(inbound', u, a) = ByInbound(inbound, u, a)
    BY <1>1
  <2> QED
    BY <2>1, <2>2, <2>3 DEF Stands
<1>5. \A a \in Addrs : ~Stands(w, a)
  BY <1>2 DEF StandsForOne
<1>6. \A u \in Ids : u < w => u < w + 1
  BY <1>2 DEF Ids
<1> QED
  BY <1>1, <1>2, <1>4, <1>5, <1>6 DEF StandsForOne

-----------------------------------------------------------------------------
(* What the managers are asked, and what the administrator was shown *)

\* An answer of the administrator is passed on to the contact he means.
AsMeant(q) == q.r = "send" => q.addr = q.meant

\* A request that is put behind the others.
LEMMA AskRight ==
  ASSUME TypeOK, RightContact, NEW s \in Sources, NEW q \in Request, Ask(s, q), AsMeant(q), got' = got
  PROVE  RightContact'
<1>1. mgr_rx \in [Sources -> Seq(Request)] /\ mgr_rx' = [mgr_rx EXCEPT ![s] = Append(@, q)]
  BY DEF TypeOK, Ask
<1>2. \A src \in Sources : src # s => mgr_rx'[src] = mgr_rx[src]
  BY <1>1
<1>3. mgr_rx'[s] = Append(mgr_rx[s], q) /\ mgr_rx[s] \in Seq(Request)
  BY <1>1
<1>4. \A i \in DOMAIN mgr_rx'[s] : \/ mgr_rx'[s][i] = q
                                   \/ i \in DOMAIN mgr_rx[s] /\ mgr_rx'[s][i] = mgr_rx[s][i]
  BY <1>3
<1>5. \A src \in Sources : \A i \in DOMAIN mgr_rx'[src] :
        mgr_rx'[src][i].r = "send" => mgr_rx'[src][i].addr = mgr_rx'[src][i].meant
  BY <1>2, <1>4 DEF RightContact, AsMeant
<1> QED
  BY <1>5 DEF RightContact

\* A request that a manager takes.
LEMMA ManagerStepRight ==
  ASSUME TypeOK, RightContact, NEW s \in Sources, ManagerStep(s)
  PROVE  RightContact'
<1>1. /\ mgr_rx \in [Sources -> Seq(Request)] /\ mgr_rx' = [mgr_rx EXCEPT ![s] = Tail(@)]
      /\ mgr_rx[s] # <<>> /\ got' = got
  BY DEF TypeOK, ManagerStep, network
<1>2. \A src \in Sources : src # s => mgr_rx'[src] = mgr_rx[src]
  BY <1>1
<1>3. mgr_rx'[s] = Tail(mgr_rx[s]) /\ mgr_rx[s] \in Seq(Request)
  BY <1>1
<1>4. \A i \in DOMAIN mgr_rx'[s] : i + 1 \in DOMAIN mgr_rx[s] /\ mgr_rx'[s][i] = mgr_rx[s][i + 1]
  BY <1>1, <1>3
<1> QED
  BY <1>1, <1>2, <1>4 DEF RightContact

\* A step that asks nothing and shows nothing.
LEMMA RightUnchanged ==
  ASSUME RightContact, UNCHANGED <<got, mgr_rx>>
  PROVE  RightContact'
BY DEF RightContact

\* The two together.
RightInv == StandsForOne /\ RightContact

\* A step that touches no ghost, no line and no request.
LEMMA RightQuiet ==
  ASSUME RightInv,
         UNCHANGED <<next_user_id, contacts_uuid_pdua, outbox, inbound, seen, got, mgr_rx>>
  PROVE  RightInv'
<1>1. \A u \in Ids, a \in Addrs : Stands(u, a)' => Stands(u, a)
  BY DEF Stands
<1> QED
  BY <1>1, StandsLess, RightUnchanged DEF RightInv

\* The handler that runs: a message goes out as the ghost that stands for its
\* sender, and a new ghost has a new UUID.
LEMMA HandlerRight ==
  ASSUME LinkInv, RightInv, Handler
  PROVE  RightInv'
<1> USE DEF registry, store, network
<1>0. TypeOK /\ StandsForOne /\ RightContact
  BY DEF LinkInv, RightInv
<1>1. CASE SetupNothing \/ QuasiburstStep \/ QuasiburstEnd \/ BecomeLinked \/ StartMessages \/ MessagesEnd
  BY <1>1, RightQuiet
  DEF SetupNothing, QuasiburstStep, QuasiburstEnd, BecomeLinked, StartMessages, MessagesEnd
<1>2. CASE SetupGhost
  <2>1. UNCHANGED <<got, mgr_rx>>
    BY <1>2 DEF SetupGhost
  <2> QED
    BY <1>0, <1>2, <2>1, SetupGhostStands, RightUnchanged DEF RightInv
<1>3. CASE UuidsExhausted
  <2>1. Restarted
    BY <1>3 DEF UuidsExhausted
  <2>2. got' = got /\ \A src \in Sources : mgr_rx'[src] = <<>>
    BY <2>1 DEF Restarted
  <2> QED
    BY <1>0, <2>1, <2>2, RestartedStands DEF RightInv, RightContact
<1>4. ASSUME NEW m \in messages, MessageOfStranger(m)
      PROVE  RightInv'
  <2> DEFINE q == [r |-> "make", addr |-> m.addr]
  <2>1. q \in Request /\ AsMeant(q)
    BY <1>0 DEF TypeOK, Message, Request, AsMeant
  <2>2. \E src \in Sources : Ask(src, q)
    BY <1>4 DEF MessageOfStranger, Sources
  <2> HIDE DEF q
  <2>3. UNCHANGED <<next_user_id, contacts_uuid_pdua, outbox, inbound, seen, got>>
    BY <1>4 DEF MessageOfStranger
  <2>4. \A u \in Ids, a \in Addrs : Stands(u, a)' => Stands(u, a)
    BY <2>3 DEF Stands
  <2> QED
    BY <1>0, <2>1, <2>2, <2>3, <2>4, StandsLess, AskRight DEF RightInv
<1>5. ASSUME NEW m \in messages, MessageNeedsGhost(m)
      PROVE  RightInv'
  BY <1>5, RightQuiet DEF MessageNeedsGhost
<1>6. ASSUME NEW m \in messages, MessageShown(m)
      PROVE  RightInv'
  <2>1. /\ m.addr \in DOMAIN contacts /\ ProcessMsg(m)
        /\ UNCHANGED <<next_user_id, contacts_uuid_pdua, inbound, seen, got, mgr_rx>>
    BY <1>6 DEF MessageShown
  <2>2. ByMap(contacts_uuid_pdua, contacts[m.addr].uuid, m.addr)
    BY <2>1 DEF LinkInv, RegistryConsistent, Ghosts, ByMap
  <2>3. outbox' = outbox \/ \E x \in LineOut : /\ outbox' = Append(outbox, x)
                                             /\ x.l = "MSG" /\ x.msg = m /\ x.uuid = contacts[m.addr].uuid
    <3>1. CASE m.kind = "partial"
      BY <2>1, <3>1 DEF ProcessMsg
    <3>2. CASE m.kind # "partial"
      <4>1. PICK adm \in Admins : Send([l |-> "MSG", uuid |-> contacts[m.addr].uuid, to |-> adm, msg |-> m])
        BY <2>1, <3>2 DEF ProcessMsg
      <4>2. outbox' \in Seq(LineOut)
        BY <1>0, <1>6, HandlerType DEF LinkInv, Handler, TypeOK
      <4> DEFINE x == [l |-> "MSG", uuid |-> contacts[m.addr].uuid, to |-> adm, msg |-> m]
      <4>3. outbox' = Append(outbox, x) /\ x.l = "MSG" /\ x.msg = m /\ x.uuid = contacts[m.addr].uuid
        BY <4>1 DEF Send
      <4> HIDE DEF x
      <4>4. outbox \in Seq(LineOut)
        BY <1>0 DEF TypeOK
      <4>5. Append(outbox, x)[Len(outbox) + 1] = x /\ Len(outbox) + 1 \in 1 .. Len(Append(outbox, x))
        BY <4>4
      <4>6. x \in LineOut
        BY <4>2, <4>3, <4>5
      <4> QED
        BY <4>3, <4>6
    <3> QED
      BY <3>1, <3>2
  <2>4. \A u \in Ids, a \in Addrs : Stands(u, a)' => Stands(u, a)
    <3> TAKE u \in Ids, a \in Addrs
    <3>1. CASE outbox' = outbox
      BY <2>1, <3>1 DEF Stands
    <3>2. CASE outbox' # outbox
      <4>1. PICK x \in LineOut : /\ outbox' = Append(outbox, x)
                                 /\ x.l = "MSG" /\ x.msg = m /\ x.uuid = contacts[m.addr].uuid
        BY <2>3, <3>2
      <4>2. ByLine(x, u, a) => u = contacts[m.addr].uuid /\ a = m.addr
        BY <4>1 DEF ByLine
      <4>3. ByOutbox(outbox', u, a) => ByOutbox(outbox, u, a) \/ ByLine(x, u, a)
        BY <1>0, <4>1, AppendStands DEF TypeOK
      <4> QED
        BY <2>1, <2>2, <4>2, <4>3 DEF Stands
    <3> QED
      BY <3>1, <3>2
  <2> QED
    BY <1>0, <2>1, <2>4, StandsLess, RightUnchanged DEF RightInv
<1> QED
  BY <1>1, <1>2, <1>3, <1>4, <1>5, <1>6 DEF Handler

\* A line that is read: a ghost may go, and what the administrator wrote to
\* it is passed on to the contact that it still stands for.
LEMMA ReadLineRight ==
  ASSUME LinkInv, RightInv, ReadLine
  PROVE  RightInv'
<1> USE DEF registry, store, network
<1>0. TypeOK /\ StandsForOne /\ RightContact
  BY DEF LinkInv, RightInv
<1>1. inbound # <<>> /\ inbound' = Tail(inbound) /\ UNCHANGED <<next_user_id, seen, got>>
  BY DEF ReadLine, ReadServer, ReadEndburst, ReadUid, ReadNick, ReadQuitOrKill, ReadSquit, ReadDirectMessage,
         ReadCommand, Read, RemoveUser
<1>2. \A u \in Ids, a \in Addrs : ByMap(contacts_uuid_pdua', u, a) => ByMap(contacts_uuid_pdua, u, a)
  <2>1. CASE ReadQuitOrKill
    <3>1. \E u : contacts_uuid_pdua' = Without(contacts_uuid_pdua, {u})
      BY <2>1 DEF ReadQuitOrKill, RemoveUser
    <3> QED
      BY <3>1 DEF ByMap, Without
  <2>2. CASE ~ReadQuitOrKill
    BY <2>2 DEF ReadLine, ReadServer, ReadEndburst, ReadUid, ReadNick, ReadSquit, ReadDirectMessage, ReadCommand
  <2> QED
    BY <2>1, <2>2
<1>3. \A u \in Ids, a \in Addrs : ByOutbox(outbox', u, a) => ByOutbox(outbox, u, a)
  <2>1. CASE ReadServer
    <3> DEFINE x == [l |-> "UID", uuid |-> Control, addr |-> Nobody]
    <3>1. outbox' = Append(outbox, x)
      BY <2>1 DEF ReadServer, Send
    <3>2. x \in LineOut /\ x.l = "UID" /\ x.uuid = Control
      BY DEF LineOut
    <3> HIDE DEF x
    <3>3. \A u \in Ids, a \in Addrs : ~ByLine(x, u, a)
      BY <3>2, LinkAssumption DEF ByLine, Ids, Control
    <3> QED
      BY <1>0, <3>1, <3>2, <3>3, AppendStands DEF TypeOK
  <2>2. CASE ~ReadServer
    BY <2>2 DEF ReadLine, ReadEndburst, ReadUid, ReadNick, ReadQuitOrKill, ReadSquit, ReadDirectMessage, ReadCommand
  <2> QED
    BY <2>1, <2>2
<1>4. \A u \in Ids, a \in Addrs : ByInbound(inbound', u, a) => ByInbound(inbound, u, a)
  BY <1>0, <1>1, TailStands DEF TypeOK
<1>5. \A u \in Ids, a \in Addrs : Stands(u, a)' => Stands(u, a)
  BY <1>1, <1>2, <1>3, <1>4 DEF Stands
<1>6. RightContact'
  <2>1. CASE ReadDirectMessage /\ mgr_rx' # mgr_rx
    <3> DEFINE line == Head(inbound)
               u == line.uuid
               a == contacts_uuid_pdua[u]
               q == [r |-> "send", addr |-> a, meant |-> line.meant]
    <3>1. /\ line.l = "DM" /\ u \in DOMAIN contacts_uuid_pdua
          /\ \E src \in Sources : Ask(src, q)
      BY <2>1 DEF ReadDirectMessage, Read, Sources
    <3>2. u \in Ids /\ line.meant \in Addrs /\ a \in Addrs
      BY <1>0, <1>1, <3>1, LineAtHand DEF TypeOK, IsPartial
    <3>3. Stands(u, line.meant) /\ Stands(u, a)
      <4>1. ByInbound(inbound, u, line.meant)
        BY <1>0, <1>1, <3>1, TailStands DEF TypeOK
      <4>2. ByMap(contacts_uuid_pdua, u, a)
        BY <3>1 DEF ByMap
      <4> QED
        BY <4>1, <4>2 DEF Stands
    <3>4. line.meant = a
      BY <1>0, <3>2, <3>3 DEF StandsForOne
    <3>5. q \in Request /\ AsMeant(q)
      BY <3>2, <3>4 DEF Request, AsMeant
    <3> HIDE DEF q
    <3> QED
      BY <1>0, <1>1, <3>1, <3>5, AskRight
  <2>2. CASE mgr_rx' = mgr_rx
    BY <1>0, <1>1, <2>2, RightUnchanged
  <2>3. ~ReadDirectMessage => mgr_rx' = mgr_rx
    BY DEF ReadLine, ReadServer, ReadEndburst, ReadUid, ReadNick, ReadQuitOrKill, ReadSquit, ReadCommand
  <2> QED
    BY <2>1, <2>2, <2>3
<1> QED
  BY <1>0, <1>1, <1>5, <1>6, StandsLess DEF RightInv

\* handle_cf_command takes ghosts away only.
LEMMA TakeCommandRight ==
  ASSUME LinkInv, RightInv, TakeCommand
  PROVE  RightInv'
<1> USE DEF registry, store, network
<1>0. TypeOK /\ StandsForOne /\ RightContact
  BY DEF LinkInv, RightInv
<1>1. CASE TakeProcessMessages \/ TakeSetupContact \/ TakeChangeNickByNick \/ TakeChangeNick \/ TakeSetWhatsappByNick
  BY <1>1, RightQuiet
  DEF TakeProcessMessages, TakeSetupContact, TakeChangeNickByNick, TakeChangeNick, TakeSetWhatsappByNick
<1>2. CASE TakeQueryContact
  <2>1. UNCHANGED <<next_user_id, contacts_uuid_pdua, outbox, inbound, seen, got>>
    BY <1>2 DEF TakeQueryContact
  <2>2. \A u \in Ids, a \in Addrs : Stands(u, a)' => Stands(u, a)
    BY <2>1 DEF Stands
  <2>3. RightContact'
    <3> DEFINE q == [r |-> "make", addr |-> Head(cf_rx).addr]
    <3>1. Head(cf_rx).addr \in Addrs /\ Head(cf_rx).src \in Sources
      BY <1>0, <1>2, CommandAtHand DEF TakeQueryContact, Take
    <3>2. q \in Request /\ AsMeant(q)
      BY <3>1 DEF Request, AsMeant
    <3>3. mgr_rx' = mgr_rx \/ Ask(Head(cf_rx).src, q)
      BY <1>2 DEF TakeQueryContact
    <3> HIDE DEF q
    <3> QED
      BY <1>0, <2>1, <3>1, <3>2, <3>3, AskRight, RightUnchanged
  <2> QED
    BY <1>0, <2>1, <2>2, <2>3, StandsLess DEF RightInv
<1>3. CASE TakeDropContactByNick
  <2>1. UNCHANGED <<next_user_id, inbound, seen, got, mgr_rx>>
    BY <1>3 DEF TakeDropContactByNick
  <2>2. CASE UNCHANGED <<contacts_uuid_pdua, outbox>>
    BY <2>1, <2>2, RightQuiet
  <2>3. ASSUME NEW g \in Ids, RemoveContact(g)
        PROVE  \A u \in Ids, a \in Addrs : Stands(u, a)' => Stands(u, a)
    <3> DEFINE x == [l |-> "QUIT", uuid |-> g]
    <3>1. outbox' = Append(outbox, x) /\ contacts_uuid_pdua' = Without(contacts_uuid_pdua, {g})
      BY <2>3 DEF RemoveContact, Send
    <3>2. x \in LineOut /\ \A u \in Ids, a \in Addrs : ~ByLine(x, u, a)
      BY DEF LineOut, ByLine
    <3> HIDE DEF x
    <3>3. \A u \in Ids, a \in Addrs : ByOutbox(outbox', u, a) => ByOutbox(outbox, u, a)
      BY <1>0, <3>1, <3>2, AppendStands DEF TypeOK
    <3>4. \A u \in Ids, a \in Addrs : ByMap(contacts_uuid_pdua', u, a) => ByMap(contacts_uuid_pdua, u, a)
      BY <3>1 DEF ByMap, Without
    <3> QED
      BY <2>1, <3>3, <3>4 DEF Stands
  <2>4. UNCHANGED <<contacts_uuid_pdua, outbox>> \/ \E g \in Ids : RemoveContact(g)
    BY <1>0, <1>3, NamedType DEF TakeDropContactByNick
  <2> QED
    BY <1>0, <2>1, <2>2, <2>3, <2>4, StandsLess, RightUnchanged DEF RightInv
<1> QED
  BY <1>1, <1>2, <1>3 DEF TakeCommand

\* A netburst has nothing but users between its two ends.
LEMMA NetburstsSay ==
  ASSUME TypeOK, NEW s \in Netbursts, NEW line \in Elements(s)
  PROVE  line.l \in {"SERVER", "UID", "ENDBURST"}
<1> DEFINE n == Cardinality(DOMAIN net)
<1>1. PICK f : s = <<[l |-> "SERVER"]>> \o [i \in 1 .. n |-> [l |-> "UID", uuid |-> f[i], nick |-> net[f[i]]]]
                     \o <<[l |-> "ENDBURST"]>>
  BY DEF Netbursts
<1> DEFINE T == {l \in {[l |-> "SERVER"], [l |-> "ENDBURST"]} : TRUE}
                  \cup {[l |-> "UID", uuid |-> f[i], nick |-> net[f[i]]] : i \in 1 .. n}
           x == [l |-> "SERVER"]
           y == [l |-> "ENDBURST"]
           b == [i \in 1 .. n |-> [l |-> "UID", uuid |-> f[i], nick |-> net[f[i]]]]
<1>2. n \in Nat
  BY NetSize
<1>3. x \in T /\ y \in T /\ \A i \in 1 .. n : b[i] \in T
  OBVIOUS
<1>4. \A l \in T : l.l \in {"SERVER", "UID", "ENDBURST"}
  OBVIOUS
<1>5. b = [i \in 1 .. n |-> b[i]]
  OBVIOUS
<1>6. s = <<x>> \o b \o <<y>>
  BY <1>1
<1> HIDE DEF T, x, y, b, n
<1>7. b \in Seq(T)
  BY <1>2, <1>3, <1>5
<1>8. <<x>> \in Seq(T) /\ <<y>> \in Seq(T)
  BY <1>3
<1>9. s \in Seq(T)
  BY <1>6, <1>7, <1>8
<1>10. Elements(s) \subseteq T
  BY <1>9, ElementsOf
<1> QED
  BY <1>4, <1>10

\* Nobody writes to a ghost in a netburst.
LEMMA NetburstsStand ==
  ASSUME TypeOK, NEW s \in Netbursts, NEW u, NEW a
  PROVE  ~ByInbound(s, u, a)
BY NetburstsSay DEF ByInbound

\* What the server reads: the UID line of a ghost says whom it stands for, and
\* the message that follows it is shown under that name.
LEMMA ServerReadsRight ==
  ASSUME LinkInv, RightInv, ServerReads
  PROVE  RightInv'
<1> DEFINE line == Head(outbox)
<1>0. /\ TypeOK /\ StandsForOne /\ RightContact
      /\ outbox \in Seq(LineOut) /\ outbox # <<>> /\ outbox' = Tail(outbox) /\ line \in LineOut
      /\ UNCHANGED <<contacts_uuid_pdua, next_user_id, mgr_rx>>
  BY SeqType DEF LinkInv, RightInv, ServerReads, local, registry, TypeOK
<1>1. \A u \in Ids, a \in Addrs : ByOutbox(outbox', u, a) => ByOutbox(outbox, u, a)
  BY <1>0, TailStands
<1>2. \A u \in Ids, a \in Addrs : ByInbound(inbound', u, a) => ByInbound(inbound, u, a)
  <2>1. inbound' = inbound \/ inbound' \in Netbursts
    BY <1>0 DEF ServerReads, LineOut
  <2> QED
    BY <1>0, <2>1, NetburstsStand
<1>3. \A u \in Ids, a \in Addrs : ByMap(seen', u, a) => ByMap(seen, u, a) \/ ByOutbox(outbox, u, a)
  <2> TAKE u \in Ids, a \in Addrs
  <2>1. CASE line.l = "UID"
    <3>1. seen' = Put(seen, line.uuid, line.addr)
      BY <2>1 DEF ServerReads
    <3>2. ByMap(seen', u, a) => ByMap(seen, u, a) \/ ByLine(line, u, a)
      BY <2>1, <3>1 DEF ByMap, ByLine, Put
    <3> QED
      BY <1>0, <3>2, TailStands
  <2>2. CASE line.l = "QUIT"
    <3>1. seen' = Without(seen, {line.uuid})
      BY <2>2 DEF ServerReads
    <3> QED
      BY <3>1 DEF ByMap, Without
  <2>3. CASE line.l \in {"SERVER", "MSG"}
    <3>1. seen' = seen
      BY <2>3 DEF ServerReads
    <3> QED
      BY <3>1
  <2> QED
    BY <1>0, <2>1, <2>2, <2>3 DEF LineOut
<1>4. \A u \in Ids, a \in Addrs : Stands(u, a)' => Stands(u, a)
  BY <1>0, <1>1, <1>2, <1>3 DEF Stands
<1>5. RightContact'
  <2>1. CASE got' = got
    BY <1>0, <2>1, RightUnchanged
  <2>2. CASE got' # got
    <3> DEFINE x == [msg |-> line.msg, as |-> seen[line.uuid]]
    <3>1. /\ line.l = "MSG" /\ line.uuid \in DOMAIN seen
          /\ got' = Append(got, x)
      BY <1>0, <2>2 DEF ServerReads, LineOut
    <3>2. line.uuid \in Ids /\ line.msg.addr \in Addrs
      BY <1>0, <3>1 DEF LineOut, Message
    <3>3. seen[line.uuid] \in Addrs
      BY <1>0, <3>1, <3>2 DEF TypeOK, Ids, Control
    <3>4. Stands(line.uuid, line.msg.addr) /\ Stands(line.uuid, seen[line.uuid])
      <4>1. ByOutbox(outbox, line.uuid, line.msg.addr)
        BY <1>0, <3>1, TailStands DEF ByLine
      <4>2. ByMap(seen, line.uuid, seen[line.uuid])
        BY <3>1 DEF ByMap
      <4> QED
        BY <4>1, <4>2 DEF Stands
    <3>5. x.as = x.msg.addr
      BY <1>0, <3>2, <3>3, <3>4 DEF StandsForOne
    <3>7. x \in [msg : Message, as : Addrs]
      BY <1>0, <3>1, <3>3 DEF LineOut
    <3> HIDE DEF x
    <3>6. \A i \in DOMAIN got' : got'[i] = x \/ (i \in DOMAIN got /\ got'[i] = got[i])
      <4>1. got \in Seq([msg : Message, as : Addrs])
        BY <1>0 DEF TypeOK
      <4>2. DOMAIN Append(got, x) = 1 .. Len(got) + 1 /\ DOMAIN got = 1 .. Len(got) /\ Len(got) \in Nat
        BY <3>7, <4>1
      <4>3. Append(got, x)[Len(got) + 1] = x /\ \A i \in 1 .. Len(got) : Append(got, x)[i] = got[i]
        BY <3>7, <4>1
      <4> QED
        BY <3>1, <4>2, <4>3
    <3> QED
      BY <1>0, <3>5, <3>6 DEF RightContact
  <2> QED
    BY <2>1, <2>2
<1> QED
  BY <1>0, <1>4, <1>5, StandsLess DEF RightInv

\* What happens outside: users of the network write to a ghost for what the
\* server says of it.
LEMMA OutsideRight ==
  ASSUME LinkInv, RightInv, Outside
  PROVE  RightInv'
<1> USE DEF registry, store, network, local
<1>0. TypeOK /\ StandsForOne /\ RightContact /\ inbound \in Seq(LineIn)
  BY DEF LinkInv, RightInv, TypeOK
<1>1. CASE Crash
  <2>1. Restarted
    BY <1>1 DEF Crash
  <2>2. got' = got /\ \A src \in Sources : mgr_rx'[src] = <<>>
    BY <2>1 DEF Restarted
  <2> QED
    BY <1>0, <2>1, <2>2, RestartedStands DEF RightInv, RightContact
<1>2. CASE \/ \E a \in Addrs : SmsArrives(a) \/ WaArrives(a) \/ WaContactSeen(a)
           \/ \E a \in Addrs, n \in Nicks : WaContactRenamed(a, n)
  BY <1>2, RightQuiet DEF SmsArrives, WaArrives, WaContactSeen, WaContactRenamed
<1>3. ASSUME NEW x \in LineIn, Tell(x),
             UNCHANGED <<contacts_uuid_pdua, next_user_id, outbox, got, mgr_rx>>,
             \A u \in Ids, a \in Addrs : ByMap(seen', u, a) => ByMap(seen, u, a),
             \A u \in Ids, a \in Addrs : x.l = "DM" /\ x.uuid = u /\ x.meant = a => ByMap(seen, u, a)
      PROVE  RightInv'
  <2>1. \A u \in Ids, a \in Addrs : ByInbound(inbound', u, a) => ByInbound(inbound, u, a) \/ ByMap(seen, u, a)
    BY <1>0, <1>3, AppendStands DEF Tell
  <2>2. \A u \in Ids, a \in Addrs : Stands(u, a)' => Stands(u, a)
    BY <1>3, <2>1 DEF Stands
  <2> QED
    BY <1>0, <1>3, <2>2, StandsLess, RightUnchanged DEF RightInv
<1>4. CASE Split
  <2>1. [l |-> "SQUIT"] \in LineIn
    BY DEF LineIn
  <2> QED
    BY <1>3, <1>4, <2>1 DEF Split
<1>5. ASSUME NEW u \in Remotes, NEW n \in Nicks \cup {AdminNick}, Connect(u, n) \/ Rename(u, n)
      PROVE  RightInv'
  <2>1. [l |-> "UID", uuid |-> u, nick |-> n] \in LineIn /\ [l |-> "NICK", uuid |-> u, nick |-> n] \in LineIn
    BY LinkAssumption DEF LineIn
  <2> QED
    BY <1>3, <1>5, <2>1 DEF Connect, Rename
<1>6. ASSUME NEW u \in Remotes, Quit(u)
      PROVE  RightInv'
  <2>1. [l |-> "QUIT", uuid |-> u] \in LineIn
    BY DEF LineIn
  <2> QED
    BY <1>3, <1>6, <2>1 DEF Quit
<1>7. ASSUME NEW u \in DOMAIN seen, Kill(u)
      PROVE  RightInv'
  <2>1. [l |-> "KILL", uuid |-> u] \in LineIn
    BY <1>0 DEF LineIn, TypeOK, IsPartial
  <2>2. \A v \in Ids, a \in Addrs : ByMap(seen', v, a) => ByMap(seen, v, a)
    BY <1>7 DEF Kill, ByMap, Without
  <2> QED
    BY <1>3, <1>7, <2>1, <2>2 DEF Kill
<1>8. ASSUME NEW u \in Remotes, NEW g \in DOMAIN seen, WriteToGhost(u, g)
      PROVE  RightInv'
  <2> DEFINE x == [l |-> "DM", from |-> u, uuid |-> g, meant |-> seen[g]]
  <2>1. g \in DOMAIN seen \ {Control} /\ Tell(x)
        /\ UNCHANGED <<contacts_uuid_pdua, next_user_id, outbox, got, mgr_rx, seen>>
    BY <1>8 DEF WriteToGhost
  <2>2. g \in Ids /\ seen[g] \in Addrs
    BY <1>0, <2>1 DEF TypeOK, IsPartial, OwnUuids
  <2>3. x \in LineIn /\ x.uuid = g /\ x.meant = seen[g]
    BY <2>2 DEF LineIn
  <2> HIDE DEF x
  <2> QED
    BY <1>3, <2>1, <2>3 DEF ByMap
<1>9. ASSUME NEW u \in Remotes, NEW cmd \in AdminCommands, WriteToControl(u, cmd)
      PROVE  RightInv'
  <2> DEFINE x == [l |-> "CMD", from |-> u, cmd |-> cmd]
  <2>1. Tell(x) /\ UNCHANGED <<contacts_uuid_pdua, next_user_id, outbox, got, mgr_rx, seen>>
    BY <1>9 DEF WriteToControl
  <2>2. cmd \in Command
    <3>1. \A g \in DOMAIN users \cap DOMAIN contacts_uuid_pdua : users[g] \in Nick
      BY <1>0 DEF TypeOK, IsPartial
    <3> QED
      BY <3>1, LinkAssumption DEF AdminCommands, Command
  <2>3. x \in LineIn /\ x.l = "CMD"
    BY <2>2 DEF LineIn
  <2> HIDE DEF x
  <2> QED
    BY <1>3, <2>1, <2>3
<1> QED
  BY <1>1, <1>2, <1>4, <1>5, <1>6, <1>7, <1>8, <1>9 DEF Outside

\* Every step keeps the contact that a ghost stands for.
LEMMA RightInvariant == Spec => []RightInv
<1>1. Init => RightInv
  <2> SUFFICES ASSUME Init
               PROVE  RightInv
    OBVIOUS
  <2>1. /\ DOMAIN seen = {} /\ DOMAIN contacts_uuid_pdua = {}
        /\ Elements(outbox) = {} /\ Elements(inbound) = {}
    BY DEF Init, Empty, Elements
  <2>2. StandsForOne
    BY <2>1 DEF StandsForOne, Stands, ByMap, ByOutbox, ByInbound
  <2> QED
    BY <2>2 DEF Init, RightInv, RightContact
<1>2. LinkInv /\ RightInv /\ [Next]_vars => RightInv'
  <2> SUFFICES ASSUME LinkInv, RightInv, [Next]_vars
               PROVE  RightInv'
    OBVIOUS
  <2>1. CASE SendServer
    <3> DEFINE x == [l |-> "SERVER"]
    <3>1. outbox' = Append(outbox, x) /\ UNCHANGED <<next_user_id, contacts_uuid_pdua, inbound, seen, got, mgr_rx>>
      BY <2>1 DEF SendServer, Send, registry, network
    <3>2. x \in LineOut /\ \A u \in Ids, a \in Addrs : ~ByLine(x, u, a)
      BY DEF LineOut, ByLine
    <3> HIDE DEF x
    <3>3. \A u \in Ids, a \in Addrs : Stands(u, a)' => Stands(u, a)
      BY <3>1, <3>2, AppendStands DEF LinkInv, TypeOK, Stands
    <3> QED
      BY <3>1, <3>3, StandsLess, RightUnchanged DEF RightInv
  <2>2. ASSUME NEW src \in Sources, ManagerStep(src)
        PROVE  RightInv'
    <3>1. UNCHANGED <<next_user_id, contacts_uuid_pdua, outbox, inbound, seen>>
      BY <2>2 DEF ManagerStep, registry, network
    <3>2. \A u \in Ids, a \in Addrs : Stands(u, a)' => Stands(u, a)
      BY <3>1 DEF Stands
    <3> QED
      BY <2>2, <3>1, <3>2, StandsLess, ManagerStepRight DEF RightInv, LinkInv
  <2>3. CASE UNCHANGED vars
    BY <2>3, RightQuiet DEF vars
  <2> QED
    BY <2>1, <2>2, <2>3, HandlerRight, ReadLineRight, TakeCommandRight, ServerReadsRight, OutsideRight
    DEF Next, Bridge
<1> QED
  BY <1>1, <1>2, LinkInvariant, PTL DEF Spec

\* However ghosts are dropped, killed and set up again: the administrator sees
\* a message under the name of its sender, and his answer goes to the contact
\* that the ghost stood for when he wrote it.
THEOREM RightContactTheorem == Spec => []RightContact
<1>1. RightInv => RightContact
  BY DEF RightInv
<1> QED
  BY <1>1, RightInvariant, PTL

-----------------------------------------------------------------------------
(* Which recipients have a ghost *)

\* The link is up, or will be when the handler that runs is done.
Linking == state = "Linked" \/ \E t \in Elements(todo) : t.t = "linked"

\* A command, the handler, or its loop will set the recipient up.
SetsUp(t, a) == (t.t = "setup" /\ t.addr = a) \/ (t.t = "quasiburst" /\ a \in t.left)
WillBeSetUp(a) == SetupContact(a) \in Elements(cf_rx) \/ \E t \in Elements(todo) : SetsUp(t, a)

\* on_linked is the last thing that its handler does.
LinkedLast(s) == \A i \in DOMAIN s : s[i].t = "linked" => i = Len(s)

\* The inductive invariant.
GhostInv ==
  /\ LinkedLast(todo)
  /\ Linking => \A a \in DOMAIN recipients \ DOMAIN contacts : WillBeSetUp(a)

\* A task that is done, and tasks that are put before the others.
LEMMA TasksTail ==
  ASSUME NEW s \in Seq(Task), s # <<>>, LinkedLast(s)
  PROVE  /\ LinkedLast(Tail(s)) /\ Elements(s) = {Head(s)} \cup Elements(Tail(s))
         /\ Head(s).t = "linked" => Elements(s) = {Head(s)}
<1>1. Elements(s) = {Head(s)} \cup Elements(Tail(s))
  BY ElementsOf
<1>2. /\ DOMAIN s = 1 .. Len(s) /\ Len(s) \in Nat \ {0} /\ DOMAIN Tail(s) = 1 .. Len(s) - 1
      /\ Len(Tail(s)) = Len(s) - 1
      /\ \A i \in DOMAIN Tail(s) : Tail(s)[i] = s[i + 1]
      /\ Head(s) = s[1]
  BY HeadTailProperties, EmptySeq
<1>3. LinkedLast(Tail(s))
  <2> DEFINE r == Tail(s)
  <2>0. /\ DOMAIN r = 1 .. Len(s) - 1 /\ Len(r) = Len(s) - 1
        /\ \A i \in DOMAIN r : r[i] = s[i + 1]
    BY <1>2
  <2> HIDE DEF r
  <2>1. ASSUME NEW i \in DOMAIN r, r[i].t = "linked"
        PROVE  i = Len(r)
    <3>1. i + 1 \in DOMAIN s /\ s[i + 1].t = "linked" /\ i \in Int
      BY <1>2, <2>0, <2>1
    <3>2. i + 1 = Len(s)
      BY <3>1 DEF LinkedLast
    <3> QED
      BY <1>2, <2>0, <3>1, <3>2
  <2>2. LinkedLast(r)
    BY <2>1 DEF LinkedLast
  <2> QED
    BY <2>2 DEF r
<1>4. Head(s).t = "linked" => Elements(s) = {Head(s)}
  <2>1. Head(s).t = "linked" => Len(s) = 1
    BY <1>2 DEF LinkedLast
  <2>2. Head(s).t = "linked" => DOMAIN s = {1}
    BY <1>2, <2>1
  <2> QED
    BY <1>2, <2>2 DEF Elements
<1> QED
  BY <1>1, <1>3, <1>4

\* Tasks that are put before the others.
LEMMA TasksBefore ==
  ASSUME NEW s \in Seq(Task), NEW r \in Seq(Task), LinkedLast(s), \A x \in Elements(r) : x.t # "linked"
  PROVE  LinkedLast(r \o s) /\ Elements(r \o s) = Elements(r) \cup Elements(s)
<1>1. Elements(r \o s) = Elements(r) \cup Elements(s)
  BY ElementsOf
<1>2. /\ r \o s \in Seq(Task) /\ Len(r \o s) = Len(r) + Len(s)
      /\ \A i \in 1 .. Len(r) + Len(s) : (r \o s)[i] = IF i <= Len(r) THEN r[i] ELSE s[i - Len(r)]
  BY ConcatProperties
<1>3. DOMAIN r = 1 .. Len(r) /\ DOMAIN s = 1 .. Len(s) /\ Len(r) \in Nat /\ Len(s) \in Nat
  OBVIOUS
<1> DEFINE t == r \o s
<1>4. t \in Seq(Task) /\ Len(t) = Len(r) + Len(s)
  BY <1>2
<1>5. \A i \in 1 .. Len(r) + Len(s) : t[i] = IF i <= Len(r) THEN r[i] ELSE s[i - Len(r)]
  BY <1>2
<1> HIDE DEF t
<1>6. DOMAIN t = 1 .. Len(r) + Len(s)
  BY <1>4
<1>7. ASSUME NEW i \in DOMAIN t, t[i].t = "linked"
      PROVE  i = Len(t)
  <2>1. i \in Int /\ ~(i <= Len(r)) /\ t[i] = s[i - Len(r)]
    BY <1>3, <1>5, <1>6, <1>7 DEF Elements
  <2>2. i - Len(r) \in DOMAIN s
    BY <1>3, <1>6, <2>1
  <2>3. i - Len(r) = Len(s)
    BY <1>7, <2>1, <2>2 DEF LinkedLast
  <2> QED
    BY <1>3, <1>4, <2>1, <2>3
<1>8. LinkedLast(t)
  BY <1>7 DEF LinkedLast
<1> QED
  BY <1>1, <1>8, Zenon DEF t

\* A handler that has one task, or none.
LEMMA OneTask ==
  /\ LinkedLast(<<>>) /\ Elements(<<>>) = {}
  /\ \A x : LinkedLast(<<x>>) /\ Elements(<<x>>) = {x}
BY DEF LinkedLast, Elements

\* A step that removes no ghost, stores no recipient, and forgets none that
\* has to be set up.
LEMMA GhostStep ==
  ASSUME GhostInv, LinkedLast(todo'), Linking' => Linking,
         \A a \in DOMAIN recipients' \ DOMAIN contacts' :
           \/ WillBeSetUp(a)'
           \/ a \in DOMAIN recipients \ DOMAIN contacts /\ (WillBeSetUp(a) => WillBeSetUp(a)')
  PROVE  GhostInv'
BY DEF GhostInv

\* A step that leaves the handler, and the commands that wait.
LEMMA GhostQuiet ==
  ASSUME GhostInv, todo' = todo, state' = "Linked" => state = "Linked",
         Elements(cf_rx) \subseteq Elements(cf_rx'),
         \A a \in DOMAIN recipients' \ DOMAIN contacts' :
           a \in DOMAIN recipients \ DOMAIN contacts \/ SetupContact(a) \in Elements(cf_rx')
  PROVE  GhostInv'
<1>1. Linking' => Linking
  BY DEF Linking
<1>2. ASSUME NEW a \in DOMAIN recipients' \ DOMAIN contacts'
      PROVE  WillBeSetUp(a)' \/ (a \in DOMAIN recipients \ DOMAIN contacts /\ (WillBeSetUp(a) => WillBeSetUp(a)'))
  <2>1. SetupContact(a) \in Elements(cf_rx') => WillBeSetUp(a)'
    BY DEF WillBeSetUp, SetupContact
  <2>2. WillBeSetUp(a) => WillBeSetUp(a)'
    BY DEF WillBeSetUp, SetupContact, SetsUp
  <2> QED
    BY <1>2, <2>1, <2>2
<1>3. LinkedLast(todo')
  BY DEF GhostInv
<1> QED
  BY <1>1, <1>2, <1>3, GhostStep

\* A step of the handler that leaves the commands that wait.
LEMMA HandlerStep ==
  ASSUME GhostInv, LinkedLast(todo'), state' = "Linked" => state = "Linked", cf_rx' = cf_rx,
         (\E t \in Elements(todo') : t.t = "linked") => \E t \in Elements(todo) : t.t = "linked",
         DOMAIN recipients' = DOMAIN recipients,
         \A a \in DOMAIN recipients \ DOMAIN contacts' :
           /\ a \notin DOMAIN contacts
           /\ (\E t \in Elements(todo) : SetsUp(t, a)) => \E t \in Elements(todo') : SetsUp(t, a)
  PROVE  GhostInv'
<1>1. Linking' => Linking
  BY DEF Linking
<1>2. ASSUME NEW a \in DOMAIN recipients' \ DOMAIN contacts'
      PROVE  a \in DOMAIN recipients \ DOMAIN contacts /\ (WillBeSetUp(a) => WillBeSetUp(a)')
  <2>1. a \in DOMAIN recipients \ DOMAIN contacts
    BY <1>2
  <2>2. WillBeSetUp(a) => \/ SetupContact(a) \in Elements(cf_rx')
                          \/ \E t \in Elements(todo') : SetsUp(t, a)
    BY <1>2 DEF WillBeSetUp
  <2>3. WillBeSetUp(a)' = (\/ SetupContact(a) \in Elements(cf_rx')
                          \/ \E t \in Elements(todo') : SetsUp(t, a))
    BY DEF WillBeSetUp, SetupContact, SetsUp
  <2> QED
    BY <2>1, <2>2, <2>3
<1> QED
  BY <1>1, <1>2, GhostStep

\* The task at hand is done.
LEMMA TaskDone ==
  ASSUME TypeOK, GhostInv, todo # <<>>, Done, Head(todo).t # "linked",
         state' = state, cf_rx' = cf_rx, DOMAIN recipients' = DOMAIN recipients,
         \A a \in DOMAIN recipients \ DOMAIN contacts' :
           a \notin DOMAIN contacts /\ ~SetsUp(Head(todo), a)
  PROVE  GhostInv'
<1>1. /\ LinkedLast(Tail(todo)) /\ Elements(todo) = {Head(todo)} \cup Elements(Tail(todo))
      /\ todo' = Tail(todo)
  BY TasksTail DEF TypeOK, GhostInv, Done
<1>2. LinkedLast(todo')
  BY <1>1
<1>3. \A a \in DOMAIN recipients \ DOMAIN contacts' :
        /\ a \notin DOMAIN contacts
        /\ (\E t \in Elements(todo) : SetsUp(t, a)) => \E t \in Elements(todo') : SetsUp(t, a)
  BY <1>1
<1>4. (\E t \in Elements(todo') : t.t = "linked") => \E t \in Elements(todo) : t.t = "linked"
  BY <1>1
<1> QED
  BY <1>2, <1>3, <1>4, HandlerStep

\* The task at hand gives way to others, which set up whom it sets up.
LEMMA TaskReplaced ==
  ASSUME TypeOK, GhostInv, todo # <<>>, Head(todo).t # "linked",
         NEW r \in Seq(Task), todo' = r \o Tail(todo),
         \A x \in Elements(r) : x.t # "linked",
         \A a : SetsUp(Head(todo), a) => \E x \in Elements(r) : SetsUp(x, a),
         state' = state, cf_rx' = cf_rx, DOMAIN recipients' = DOMAIN recipients,
         DOMAIN contacts' = DOMAIN contacts
  PROVE  GhostInv'
<1>1. /\ LinkedLast(Tail(todo)) /\ Elements(todo) = {Head(todo)} \cup Elements(Tail(todo))
      /\ Tail(todo) \in Seq(Task)
  BY TasksTail, TaskAtHand DEF TypeOK, GhostInv
<1>2. LinkedLast(todo') /\ Elements(todo') = Elements(r) \cup Elements(Tail(todo))
  BY <1>1, TasksBefore
<1>3. \A a \in DOMAIN recipients \ DOMAIN contacts' :
        /\ a \notin DOMAIN contacts
        /\ (\E t \in Elements(todo) : SetsUp(t, a)) => \E t \in Elements(todo') : SetsUp(t, a)
  BY <1>1, <1>2
<1>4. (\E t \in Elements(todo') : t.t = "linked") => \E t \in Elements(todo) : t.t = "linked"
  BY <1>1, <1>2
<1> QED
  BY <1>2, <1>3, <1>4, HandlerStep

\* One step of a handler, on_linked among them.
LEMMA HandlerGhosts ==
  ASSUME LinkInv, GhostInv, Handler
  PROVE  GhostInv'
<1>0. TypeOK /\ GhostsMatchDatabase
  BY DEF LinkInv
<1>1. CASE SetupNothing
  <2>1. /\ todo # <<>> /\ Head(todo).t = "setup" /\ Done
        /\ Head(todo).addr \notin DOMAIN recipients \/ Head(todo).addr \in DOMAIN contacts
        /\ UNCHANGED <<state, contacts, recipients, cf_rx>>
    BY <1>1 DEF SetupNothing, Busy, registry, store
  <2>2. \A a \in DOMAIN recipients \ DOMAIN contacts' : a \notin DOMAIN contacts /\ ~SetsUp(Head(todo), a)
    BY <2>1 DEF SetsUp
  <2> QED
    BY <1>0, <2>1, <2>2, TaskDone
<1>2. CASE SetupGhost
  <2> DEFINE x == Head(todo).addr
  <2>1. /\ todo # <<>> /\ Head(todo).t = "setup" /\ Done /\ UNCHANGED <<state, cf_rx>>
        /\ DOMAIN contacts' = DOMAIN contacts \cup {x}
        /\ DOMAIN recipients' = DOMAIN recipients
    BY <1>2 DEF SetupGhost, Busy, Put
  <2>2. \A a \in DOMAIN recipients \ DOMAIN contacts' : a \notin DOMAIN contacts /\ ~SetsUp(Head(todo), a)
    BY <2>1 DEF SetsUp
  <2> QED
    BY <1>0, <2>1, <2>2, TaskDone
<1>3. CASE UuidsExhausted
  <2>1. state' = "TcpConnected" /\ todo' = <<>>
    BY <1>3 DEF UuidsExhausted, Restarted
  <2> QED
    BY <2>1, OneTask DEF GhostInv, Linking
<1>4. CASE QuasiburstStep
  <2> PICK a \in Head(todo).left :
        todo' = <<[t |-> "setup", addr |-> a], [t |-> "quasiburst", left |-> Head(todo).left \ {a}]>> \o Tail(todo)
    BY <1>4 DEF QuasiburstStep
  <2> DEFINE x == [t |-> "setup", addr |-> a]
             y == [t |-> "quasiburst", left |-> Head(todo).left \ {a}]
             r == <<x, y>>
  <2>1. /\ todo # <<>> /\ Head(todo).t = "quasiburst" /\ UNCHANGED <<state, contacts, recipients, cf_rx>>
    BY <1>4 DEF QuasiburstStep, Busy, registry, store
  <2>2. Head(todo).left \in SUBSET Addrs
    BY <1>0, <2>1, TaskAtHand
  <2>3. x \in Task /\ y \in Task
    BY <2>2 DEF Task
  <2>4. r \in Seq(Task) /\ Elements(r) = {x, y}
    <3> HIDE DEF x, y
    <3> QED
      BY <2>3 DEF Elements
  <2>5. \A b : SetsUp(Head(todo), b) => SetsUp(x, b) \/ SetsUp(y, b)
    BY <2>1 DEF SetsUp
  <2>6. x.t # "linked" /\ y.t # "linked"
    OBVIOUS
  <2>7. todo' = r \o Tail(todo)
    OBVIOUS
  <2> HIDE DEF x, y, r
  <2> QED
    BY <1>0, <2>1, <2>4, <2>5, <2>6, <2>7, TaskReplaced
<1>5. CASE QuasiburstEnd
  <2>1. /\ todo # <<>> /\ Head(todo).t = "quasiburst" /\ Done /\ Head(todo).left = {}
        /\ UNCHANGED <<state, contacts, recipients, cf_rx>>
    BY <1>5 DEF QuasiburstEnd, Busy, registry, store
  <2>2. \A a \in DOMAIN recipients \ DOMAIN contacts' : a \notin DOMAIN contacts /\ ~SetsUp(Head(todo), a)
    BY <2>1 DEF SetsUp
  <2> QED
    BY <1>0, <2>1, <2>2, TaskDone
<1>6. CASE BecomeLinked
  <2> DEFINE x == [t |-> "messages"]
  <2>1. /\ todo # <<>> /\ Head(todo).t = "linked" /\ todo' = <<x>>
        /\ UNCHANGED <<contacts, recipients, cf_rx>>
    BY <1>6 DEF BecomeLinked, Busy, registry, store
  <2>2. LinkedLast(todo')
    BY <2>1, OneTask
  <2>3. Elements(todo) = {Head(todo)}
    BY <1>0, <2>1, TasksTail DEF TypeOK, GhostInv
  <2>4. ASSUME NEW a \in DOMAIN recipients \ DOMAIN contacts
        PROVE  SetupContact(a) \in Elements(cf_rx)
    <3>1. Linking
      BY <2>1, <2>3 DEF Linking
    <3>2. WillBeSetUp(a)
      BY <3>1 DEF GhostInv
    <3>3. \A t \in Elements(todo) : ~SetsUp(t, a)
      BY <2>1, <2>3 DEF SetsUp
    <3> QED
      BY <3>2, <3>3 DEF WillBeSetUp
  <2>5. \A a \in DOMAIN recipients' \ DOMAIN contacts' : WillBeSetUp(a)'
    <3> SUFFICES ASSUME NEW a \in DOMAIN recipients' \ DOMAIN contacts'
                 PROVE  WillBeSetUp(a)'
      OBVIOUS
    <3>1. SetupContact(a) \in Elements(cf_rx')
      BY <2>1, <2>4
    <3> QED
      BY <3>1 DEF WillBeSetUp, SetupContact
  <2> QED
    BY <2>2, <2>5 DEF GhostInv
<1>7. CASE StartMessages
  <2>1. /\ todo # <<>> /\ Head(todo).t = "messages" /\ UNCHANGED <<state, contacts, recipients, cf_rx>>
        /\ todo' = <<>> \o Tail(todo) \/ todo' = <<[t |-> "show", left |-> messages]>> \o Tail(todo)
    BY <1>7 DEF StartMessages, Busy, registry, store
  <2>2. \A a : ~SetsUp(Head(todo), a)
    BY <2>1 DEF SetsUp
  <2>3. CASE todo' = <<>> \o Tail(todo)
    <3>1. <<>> \in Seq(Task) /\ Elements(<<>>) = {}
      BY OneTask
    <3> QED
      BY <1>0, <2>1, <2>2, <2>3, <3>1, TaskReplaced
  <2>4. CASE todo' = <<[t |-> "show", left |-> messages]>> \o Tail(todo)
    <3> DEFINE x == [t |-> "show", left |-> messages]
               r == <<x>>
    <3>1. r \in Seq(Task)
      BY <1>0, NewTask DEF TypeOK
    <3>2. Elements(r) = {x} /\ x.t # "linked" /\ todo' = r \o Tail(todo)
      BY <2>4, OneTask
    <3> HIDE DEF x, r
    <3> QED
      BY <1>0, <2>1, <2>2, <3>1, <3>2, TaskReplaced
  <2> QED
    BY <2>1, <2>3, <2>4
<1>8. CASE MessagesEnd
  <2>1. /\ todo # <<>> /\ Head(todo).t = "show" /\ Done /\ UNCHANGED <<state, contacts, recipients, cf_rx>>
    BY <1>8 DEF MessagesEnd, Busy, registry, store
  <2>2. \A a \in DOMAIN recipients \ DOMAIN contacts' : a \notin DOMAIN contacts /\ ~SetsUp(Head(todo), a)
    BY <2>1 DEF SetsUp
  <2> QED
    BY <1>0, <2>1, <2>2, TaskDone
<1>9. ASSUME NEW m \in messages, MessageOfStranger(m) \/ MessageShown(m)
      PROVE  GhostInv'
  <2> DEFINE x == [t |-> "show", left |-> Head(todo).left \ {m}]
             r == <<x>>
  <2>1. /\ todo # <<>> /\ Head(todo).t = "show" /\ DoneWith(m) /\ UNCHANGED <<state, cf_rx>>
        /\ DOMAIN contacts' = DOMAIN contacts /\ DOMAIN recipients' = DOMAIN recipients
    BY <1>9 DEF MessageOfStranger, MessageShown, NextToShow, Busy, SetMode, registry, store
  <2>2. \A a : ~SetsUp(Head(todo), a)
    BY <2>1 DEF SetsUp
  <2>3. Head(todo).left \in SUBSET Message
    BY <1>0, <2>1, TaskAtHand
  <2>4. r \in Seq(Task)
    BY <2>3, NewTask
  <2>5. Elements(r) = {x} /\ x.t # "linked" /\ todo' = r \o Tail(todo)
    BY <2>1, OneTask DEF DoneWith
  <2> HIDE DEF x, r
  <2> QED
    BY <1>0, <2>1, <2>2, <2>4, <2>5, TaskReplaced
<1>10. ASSUME NEW m \in messages, MessageNeedsGhost(m)
       PROVE  GhostInv'
  <2> DEFINE x == [t |-> "setup", addr |-> m.addr]
             r == <<x>>
  <2>1. /\ todo' = r \o todo /\ UNCHANGED <<state, contacts, recipients, cf_rx>> /\ x.t # "linked"
    BY <1>10 DEF MessageNeedsGhost, registry, store
  <2>2. r \in Seq(Task) /\ todo \in Seq(Task)
    BY <1>0, NewTask DEF TypeOK, Message
  <2>3. Elements(r) = {x}
    BY OneTask
  <2> HIDE DEF x, r
  <2>4. LinkedLast(todo') /\ Elements(todo') = {x} \cup Elements(todo)
    BY <2>1, <2>2, <2>3, TasksBefore DEF GhostInv
  <2> QED
    BY <2>1, <2>4, HandlerStep
<1> QED
  BY <1>1, <1>2, <1>3, <1>4, <1>5, <1>6, <1>7, <1>8, <1>9, <1>10 DEF Handler

\* One line of the server: the end of its netburst, which makes the link set
\* up every recipient, and a kill, which makes it set one up again.
LEMMA ReadLineGhosts ==
  ASSUME LinkInv, GhostInv, ReadLine
  PROVE  GhostInv'
<1>0. TypeOK /\ GhostsMatchDatabase /\ todo = <<>> /\ Elements(todo) = {}
  BY OneTask DEF LinkInv, ReadLine, ReadServer, ReadEndburst, ReadUid, ReadNick, ReadQuitOrKill,
     ReadSquit, ReadDirectMessage, ReadCommand, Read, Idle
<1>1. CASE ReadServer
  <2>1. state' = "BurstSent" /\ UNCHANGED <<contacts, todo, recipients, cf_rx>>
    BY <1>1 DEF ReadServer, store
  <2> QED
    BY <2>1, GhostQuiet
<1>2. CASE ReadEndburst
  <2> DEFINE x == [t |-> "quasiburst", left |-> DOMAIN recipients]
             y == [t |-> "linked"]
  <2>1. todo' = <<x, y>> /\ UNCHANGED <<contacts, recipients>>
    BY <1>2 DEF ReadEndburst, registry, store
  <2>2. x.t = "quasiburst" /\ x.left = DOMAIN recipients
    OBVIOUS
  <2> HIDE DEF x, y
  <2>3. Elements(todo') = {x, y}
    BY <2>1 DEF Elements
  <2>4. LinkedLast(todo')
    BY <2>1, <2>2 DEF LinkedLast
  <2>5. ASSUME NEW a \in DOMAIN recipients' \ DOMAIN contacts'
        PROVE  WillBeSetUp(a)'
    <3>1. \E t \in Elements(todo') : SetsUp(t, a)
      BY <2>1, <2>2, <2>3 DEF SetsUp
    <3> QED
      BY <3>1 DEF WillBeSetUp, SetsUp
  <2> QED
    BY <2>4, <2>5 DEF GhostInv
<1>3. CASE ReadUid
  <2> DEFINE x == [t |-> "messages"]
  <2>1. todo' \in {<<>>, <<x>>} /\ UNCHANGED <<state, contacts, recipients, cf_rx>>
    BY <1>3 DEF ReadUid, store
  <2>2. LinkedLast(todo') /\ Elements(todo') \subseteq {x}
    BY <2>1, OneTask
  <2> QED
    BY <1>0, <2>1, <2>2, HandlerStep
<1>4. CASE ReadNick \/ ReadSquit \/ ReadDirectMessage
  <2>1. UNCHANGED <<state, contacts, todo, recipients, cf_rx>>
    BY <1>4 DEF ReadNick, ReadSquit, ReadDirectMessage, store, registry
  <2> QED
    BY <2>1, GhostQuiet
<1>5. CASE ReadQuitOrKill
  <2> DEFINE u == Head(inbound).uuid
  <2>1. RemoveUser(u) /\ UNCHANGED <<state, recipients, cf_rx>>
    BY <1>5 DEF ReadQuitOrKill, store
  <2>2. CASE u \in DOMAIN contacts_uuid_pdua
    <3> DEFINE b == contacts_uuid_pdua[u]
               x == [t |-> "setup", addr |-> b]
    <3>1. todo' = <<x>> /\ DOMAIN contacts' = DOMAIN contacts \ {b}
      BY <2>1, <2>2 DEF RemoveUser, Without
    <3>2. LinkedLast(todo') /\ Elements(todo') = {x}
      BY <3>1, OneTask
    <3>3. Linking' => Linking
      BY <2>1, <3>2 DEF Linking
    <3>4. ASSUME NEW a \in DOMAIN recipients' \ DOMAIN contacts'
          PROVE  WillBeSetUp(a)' \/ (a \in DOMAIN recipients \ DOMAIN contacts /\ (WillBeSetUp(a) => WillBeSetUp(a)'))
      <4>1. CASE a = b
        <5>1. SetsUp(x, a)
          BY <4>1 DEF SetsUp
        <5> HIDE DEF x
        <5>2. \E t \in Elements(todo') : SetsUp(t, a)
          BY <3>2, <5>1
        <5> QED
          BY <5>2 DEF WillBeSetUp, SetsUp
      <4>2. CASE a # b
        <5>1. a \in DOMAIN recipients \ DOMAIN contacts
          BY <2>1, <3>1, <3>4, <4>2
        <5>2. WillBeSetUp(a) => SetupContact(a) \in Elements(cf_rx')
          BY <1>0, <2>1 DEF WillBeSetUp
        <5>3. SetupContact(a) \in Elements(cf_rx') => WillBeSetUp(a)'
          BY DEF WillBeSetUp, SetupContact
        <5> QED
          BY <5>1, <5>2, <5>3
      <4> QED
        BY <4>1, <4>2
    <3> QED
      BY <3>2, <3>3, <3>4, GhostStep
  <2>3. CASE u \notin DOMAIN contacts_uuid_pdua
    <3>1. UNCHANGED <<contacts, todo>>
      BY <2>1, <2>3 DEF RemoveUser
    <3> QED
      BY <2>1, <3>1, GhostQuiet
  <2> QED
    BY <2>2, <2>3
<1>6. CASE ReadCommand
  <2> DEFINE x == Head(inbound).cmd
  <2>1. UNCHANGED <<state, contacts, todo, recipients>> /\ (cf_rx' = cf_rx \/ cf_rx' = Append(cf_rx, x))
    BY <1>6 DEF ReadCommand, store, registry
  <2>2. x \in Command /\ cf_rx \in Seq(Command)
    BY <1>0, <1>6, LineAtHand DEF ReadCommand, Read, TypeOK
  <2>3. Elements(Append(cf_rx, x)) = Elements(cf_rx) \cup {x}
    BY <2>2, ElementsOf
  <2> HIDE DEF x
  <2>4. Elements(cf_rx) \subseteq Elements(cf_rx')
    BY <2>1, <2>3
  <2> QED
    BY <2>1, <2>4, GhostQuiet
<1> QED
  BY <1>1, <1>2, <1>3, <1>4, <1>5, <1>6 DEF ReadLine

\* A command is taken: what it sets up is set up by the handler.
LEMMA CommandTaken ==
  ASSUME TypeOK, GhostInv, Idle, cf_rx # <<>>, cf_rx' = Tail(cf_rx), state' = state,
         LinkedLast(todo'), \A t \in Elements(todo') : t.t # "linked",
         \A a : Head(cf_rx) = SetupContact(a) => \E t \in Elements(todo') : SetsUp(t, a),
         DOMAIN recipients' \ DOMAIN contacts' \subseteq DOMAIN recipients \ DOMAIN contacts
  PROVE  GhostInv'
<1>1. Elements(todo) = {} /\ Elements(cf_rx) = {Head(cf_rx)} \cup Elements(cf_rx')
  BY OneTask, ElementsOf DEF Idle, TypeOK
<1>2. Linking' => Linking
  BY DEF Linking
<1>3. ASSUME NEW a \in DOMAIN recipients' \ DOMAIN contacts'
      PROVE  a \in DOMAIN recipients \ DOMAIN contacts /\ (WillBeSetUp(a) => WillBeSetUp(a)')
  <2>1. WillBeSetUp(a) => SetupContact(a) \in Elements(cf_rx)
    BY <1>1 DEF WillBeSetUp
  <2>2. SetupContact(a) \in Elements(cf_rx) =>
          SetupContact(a) \in Elements(cf_rx') \/ \E t \in Elements(todo') : SetsUp(t, a)
    BY <1>1
  <2>3. WillBeSetUp(a)' = (\/ SetupContact(a) \in Elements(cf_rx')
                          \/ \E t \in Elements(todo') : SetsUp(t, a))
    BY DEF WillBeSetUp, SetupContact, SetsUp
  <2> QED
    BY <1>3, <2>1, <2>2, <2>3
<1> QED
  BY <1>2, <1>3, GhostStep

\* One ContactFactoryCommand.
LEMMA TakeCommandGhosts ==
  ASSUME LinkInv, GhostInv, TakeCommand
  PROVE  GhostInv'
<1>0. /\ TypeOK /\ RegistryConsistent /\ Idle /\ todo = <<>> /\ cf_rx # <<>> /\ cf_rx' = Tail(cf_rx)
      /\ Elements(<<>>) = {} /\ LinkedLast(<<>>)
  BY OneTask DEF LinkInv, TakeCommand, TakeProcessMessages, TakeSetupContact, TakeQueryContact,
     TakeDropContactByNick, TakeChangeNickByNick, TakeChangeNick, TakeSetWhatsappByNick, Take, Idle
<1>1. CASE TakeProcessMessages
  <2> DEFINE x == [t |-> "messages"]
  <2>1. todo' = <<x>> /\ UNCHANGED <<state, contacts, recipients>> /\ Head(cf_rx).c = "messages"
    BY <1>1 DEF TakeProcessMessages, Take, registry, store
  <2>2. LinkedLast(todo') /\ Elements(todo') = {x}
    BY <2>1, OneTask
  <2>3. \A a : Head(cf_rx) # SetupContact(a)
    BY <2>1 DEF SetupContact
  <2> QED
    BY <1>0, <2>1, <2>2, <2>3, CommandTaken
<1>2. CASE TakeSetupContact
  <2> DEFINE x == [t |-> "setup", addr |-> Head(cf_rx).addr]
  <2>1. todo' = <<x>> /\ UNCHANGED <<state, contacts, recipients>>
    BY <1>2 DEF TakeSetupContact, registry, store
  <2>2. LinkedLast(todo') /\ Elements(todo') = {x} /\ x.t # "linked"
    BY <2>1, OneTask
  <2>3. \A a : Head(cf_rx) = SetupContact(a) => SetsUp(x, a)
    BY DEF SetupContact, SetsUp
  <2> HIDE DEF x
  <2> QED
    BY <1>0, <2>1, <2>2, <2>3, CommandTaken
<1>3. CASE TakeQueryContact
  <2> DEFINE x == [t |-> "setup", addr |-> Head(cf_rx).addr]
  <2>1. todo' \in {<<>>, <<x>>} /\ UNCHANGED <<state, contacts, recipients>> /\ Head(cf_rx).c = "query"
    BY <1>0, <1>3 DEF TakeQueryContact, Take, registry, store
  <2>2. LinkedLast(todo') /\ Elements(todo') \subseteq {x} /\ x.t # "linked"
    BY <2>1, OneTask
  <2>3. \A a : Head(cf_rx) # SetupContact(a)
    BY <2>1 DEF SetupContact
  <2> HIDE DEF x
  <2> QED
    BY <1>0, <2>1, <2>2, <2>3, CommandTaken
<1>4. CASE TakeDropContactByNick
  <2>1. UNCHANGED <<state, todo>> /\ Head(cf_rx).c = "drop"
    BY <1>4 DEF TakeDropContactByNick, Take
  <2>2. DOMAIN recipients' \ DOMAIN contacts' \subseteq DOMAIN recipients \ DOMAIN contacts
    <3>1. CASE Named(Head(cf_rx).nick) = {}
      BY <1>4, <3>1 DEF TakeDropContactByNick
    <3>2. CASE Named(Head(cf_rx).nick) # {}
      <4>1. PICK u : /\ recipients' = Without(recipients, {contacts_uuid_pdua[u]})
                     /\ contacts' = Without(contacts, {contacts_uuid_pdua[u]})
        BY <1>4, <3>2 DEF TakeDropContactByNick, RemoveContact
      <4>2. /\ DOMAIN recipients' = DOMAIN recipients \ {contacts_uuid_pdua[u]}
            /\ DOMAIN contacts' = DOMAIN contacts \ {contacts_uuid_pdua[u]}
        BY <4>1 DEF Without
      <4> QED
        BY <4>2
    <3> QED
      BY <3>1, <3>2
  <2>3. \A a : Head(cf_rx) # SetupContact(a)
    BY <2>1 DEF SetupContact
  <2>4. LinkedLast(todo') /\ Elements(todo') = {}
    BY <1>0, <2>1
  <2> QED
    BY <1>0, <2>1, <2>2, <2>3, <2>4, CommandTaken
<1>5. CASE TakeChangeNickByNick \/ TakeChangeNick \/ TakeSetWhatsappByNick
  <2>1. UNCHANGED <<state, todo>> /\ Head(cf_rx).c # "setup"
    BY <1>5 DEF TakeChangeNickByNick, TakeChangeNick, TakeSetWhatsappByNick, Take
  <2>2. DOMAIN recipients' = DOMAIN recipients /\ DOMAIN contacts' = DOMAIN contacts
    <3>1. \A a, n : ChangeNick(a, n) => DOMAIN recipients' = DOMAIN recipients
      BY DEF ChangeNick
    <3>2. \A a, w : SetMode(a, w) => DOMAIN recipients' = DOMAIN recipients /\ DOMAIN contacts' = DOMAIN contacts
      BY DEF SetMode
    <3> QED
      BY <1>5, <3>1, <3>2 DEF TakeChangeNickByNick, TakeChangeNick, TakeSetWhatsappByNick
  <2>3. \A a : Head(cf_rx) # SetupContact(a)
    BY <2>1 DEF SetupContact
  <2>4. LinkedLast(todo') /\ Elements(todo') = {}
    BY <1>0, <2>1
  <2> QED
    BY <1>0, <2>1, <2>2, <2>3, <2>4, CommandTaken
<1> QED
  BY <1>1, <1>2, <1>3, <1>4, <1>5 DEF TakeCommand

\* make_contact and get_wa_recipient: whom they store they have set up.
LEMMA MakeContactGhosts ==
  ASSUME TypeOK, NEW a \in Addrs, NEW more \in Seq(Command),
         SmsMakeContact(a) \/ GetWaRecipient(a, more)
  PROVE  /\ Elements(cf_rx) \subseteq Elements(cf_rx')
         /\ \A b \in DOMAIN recipients' : b \in DOMAIN recipients \/ SetupContact(b) \in Elements(cf_rx')
<1> DEFINE one == <<SetupContact(a)>>
           two == <<SetupContact(a), ProcessMessages>>
<1>1. /\ one \in Seq(Command) /\ two \in Seq(Command) /\ cf_rx \in Seq(Command)
      /\ SetupContact(a) \in Elements(one) /\ SetupContact(a) \in Elements(two)
  BY DEF Command, SetupContact, ProcessMessages, TypeOK, Elements
<1> HIDE DEF one, two
<1>2. one \o more \in Seq(Command) /\ SetupContact(a) \in Elements(one \o more)
  BY <1>1, SeqType, ElementsOf
<1>3. ASSUME NEW c \in Seq(Command), CfSend(c)
      PROVE  Elements(cf_rx') = Elements(cf_rx) \cup Elements(c)
  <2>1. Elements(cf_rx \o c) = Elements(cf_rx) \cup Elements(c)
    BY <1>1, ElementsOf
  <2> QED
    BY <1>3, <2>1, Zenon DEF CfSend
<1>4. CASE a \in DOMAIN recipients
  BY <1>3, <1>4 DEF SmsMakeContact, GetWaRecipient
<1>5. CASE a \notin DOMAIN recipients
  <2>1. PICK c \in Seq(Command) :
          /\ \E v : recipients' = Put(recipients, a, v)
          /\ CfSend(c) /\ SetupContact(a) \in Elements(c)
    BY <1>1, <1>2, <1>5 DEF SmsMakeContact, GetWaRecipient, one, two
  <2>2. DOMAIN recipients' = DOMAIN recipients \cup {a}
    BY <2>1 DEF Put
  <2> QED
    BY <1>3, <2>1, <2>2
<1> QED
  BY <1>4, <1>5

\* A request that a manager takes.
LEMMA ManagerStepGhosts ==
  ASSUME TypeOK, GhostInv, NEW src \in Sources, ManagerStep(src)
  PROVE  GhostInv'
<1> DEFINE q == Head(mgr_rx[src])
<1>1. q \in Request
  BY SeqType DEF ManagerStep, TypeOK
<1>2. q.addr \in Addrs /\ q.r \in {"send", "make"}
  BY <1>1 DEF Request
<1>3. <<ProcessMessages>> \in Seq(Command)
  BY DEF Command, ProcessMessages
<1>4. UNCHANGED <<state, contacts, todo>>
  BY DEF ManagerStep, registry
<1>5. \/ UNCHANGED <<recipients, cf_rx>>
      \/ SmsMakeContact(q.addr) \/ GetWaRecipient(q.addr, <<ProcessMessages>>)
  BY <1>2 DEF ManagerStep, Sources
<1>6. /\ Elements(cf_rx) \subseteq Elements(cf_rx')
      /\ \A b \in DOMAIN recipients' : b \in DOMAIN recipients \/ SetupContact(b) \in Elements(cf_rx')
  BY <1>2, <1>3, <1>5, MakeContactGhosts
<1> QED
  BY <1>4, <1>6, GhostQuiet

\* Messages, contacts, crashes, and the users of the network.
LEMMA OutsideGhosts ==
  ASSUME TypeOK, GhostInv, Outside
  PROVE  GhostInv'
<1>1. <<ProcessMessages>> \in Seq(Command) /\ <<>> \in Seq(Command) /\ cf_rx \in Seq(Command)
  BY DEF Command, ProcessMessages, TypeOK
<1>2. \A c \in Seq(Command) : Elements(cf_rx) \subseteq Elements(cf_rx \o c)
  BY <1>1, ElementsOf
<1>3. CASE Crash
  <2>1. state' = "TcpConnected" /\ todo' = <<>>
    BY <1>3 DEF Crash, Restarted
  <2> QED
    BY <2>1, OneTask DEF GhostInv, Linking
<1>4. ASSUME NEW a \in Addrs, SmsArrives(a)
      PROVE  GhostInv'
  <2>1. CfSend(<<ProcessMessages>>) /\ UNCHANGED <<state, contacts, todo, recipients>>
    BY <1>4 DEF SmsArrives, registry
  <2>2. Elements(cf_rx) \subseteq Elements(cf_rx')
    BY <1>1, <1>2, <2>1 DEF CfSend
  <2> QED
    BY <2>1, <2>2, GhostQuiet
<1>5. ASSUME NEW a \in Addrs, WaArrives(a) \/ WaContactSeen(a)
      PROVE  GhostInv'
  <2>1. /\ GetWaRecipient(a, <<ProcessMessages>>) \/ GetWaRecipient(a, <<>>)
        /\ UNCHANGED <<state, contacts, todo>>
    BY <1>5 DEF WaArrives, WaContactSeen, registry
  <2> QED
    BY <1>1, <2>1, MakeContactGhosts, GhostQuiet
<1>6. ASSUME NEW a \in Addrs, NEW n \in Nicks, WaContactRenamed(a, n)
      PROVE  GhostInv'
  <2> DEFINE x == [c |-> "autonick", addr |-> a, new |-> n]
  <2>1. CfSend(<<x>>) /\ UNCHANGED <<state, contacts, todo, recipients>>
    BY <1>6 DEF WaContactRenamed, registry, store
  <2>2. <<x>> \in Seq(Command)
    BY LinkAssumption DEF Command
  <2> HIDE DEF x
  <2>3. Elements(cf_rx) \subseteq Elements(cf_rx')
    BY <1>2, <2>1, <2>2 DEF CfSend
  <2> QED
    BY <2>1, <2>3, GhostQuiet
<1>7. CASE \/ Split
           \/ \E u \in Remotes, n \in Nicks \cup {AdminNick} : Connect(u, n) \/ Rename(u, n)
           \/ \E u \in Remotes : Quit(u)
           \/ \E u \in DOMAIN seen : Kill(u)
           \/ \E u \in Remotes, g \in DOMAIN seen : WriteToGhost(u, g)
           \/ \E u \in Remotes, cmd \in AdminCommands : WriteToControl(u, cmd)
  <2>1. UNCHANGED local
    BY <1>7 DEF Split, Connect, Rename, Quit, Kill, WriteToGhost, WriteToControl
  <2>2. UNCHANGED <<state, contacts, todo, recipients, cf_rx>>
    BY <2>1 DEF local, registry, store
  <2> QED
    BY <2>2, GhostQuiet
<1> QED
  BY <1>3, <1>4, <1>5, <1>6, <1>7 DEF Outside

\* Whatever kills, drops and restarts the bridge sees: when its link is up,
\* every recipient has a ghost, or the command that sets one up is queued.
THEOREM GhostsTheorem == Spec => []GhostForRecipient
<1>1. Init => GhostInv
  <2> SUFFICES ASSUME Init
               PROVE  GhostInv
    OBVIOUS
  <2>1. state = "TcpConnected" /\ todo = <<>>
    BY DEF Init
  <2> QED
    BY <2>1, OneTask DEF GhostInv, Linking
<1>2. LinkInv /\ GhostInv /\ [Next]_vars => GhostInv'
  <2> SUFFICES ASSUME LinkInv, GhostInv, [Next]_vars
               PROVE  GhostInv'
    OBVIOUS
  <2>1. CASE SendServer
    <3>1. state' = "ServerSent" /\ UNCHANGED <<contacts, todo, recipients, cf_rx>>
      BY <2>1 DEF SendServer, registry, store
    <3> QED
      BY <3>1, GhostQuiet
  <2>2. CASE ServerReads
    <3>1. UNCHANGED <<state, contacts, todo, recipients, cf_rx>>
      BY <2>2 DEF ServerReads, local, registry, store
    <3> QED
      BY <3>1, GhostQuiet
  <2>3. CASE UNCHANGED vars
    <3>1. UNCHANGED <<state, contacts, todo, recipients, cf_rx>>
      BY <2>3 DEF vars
    <3> QED
      BY <3>1, GhostQuiet
  <2> QED
    BY <2>1, <2>2, <2>3, HandlerGhosts, ReadLineGhosts, TakeCommandGhosts, ManagerStepGhosts, OutsideGhosts
    DEF Next, Bridge, LinkInv
<1>3. GhostInv => GhostForRecipient
  <2> SUFFICES ASSUME GhostInv, state = "Linked", Idle,
                      NEW a \in DOMAIN recipients \ DOMAIN contacts
               PROVE  SetupContact(a) \in Elements(cf_rx)
    BY DEF GhostForRecipient
  <2>1. Elements(todo) = {} /\ WillBeSetUp(a)
    BY OneTask DEF Idle, GhostInv, Linking
  <2> QED
    BY <2>1 DEF WillBeSetUp
<1> QED
  BY <1>1, <1>2, <1>3, LinkInvariant, PTL DEF Spec

-----------------------------------------------------------------------------
(* Who is on the server *)

\* The users of ours that a kind of line is about, and those that the bridge
\* has
UuidsIn(s, l) == {x.uuid : x \in {y \in Elements(s) : y.l = l}}
Ours == DOMAIN users \cap OwnUuids

\* A user is introduced once, and before it quits.
Orderly(s) ==
  \A i, j \in DOMAIN s :
    s[i].l \in {"UID", "QUIT"} /\ s[j].l = "UID" /\ s[i].uuid = s[j].uuid => j <= i

\* Of the bridge's users own, those in UID lines, those in QUIT lines, those
\* in KILL lines and those the server knows.
Agreed(own, coming, going, killed, known) ==
  /\ coming \cap (known \cup killed) = {}
  /\ known \cap killed = {}
  /\ going \cap own = {}
  /\ own \subseteq killed \cup known \cup coming
  /\ known \cup coming \subseteq own \cup going

\* The UUIDs that somebody may still speak of
Spoken(coming, going, killed, known) == coming \cup going \cup killed \cup known

\* The inductive invariant.  UUIDs are not used again, so what is on its way
\* about a user that is gone cannot be about a later one.
AgreeInv ==
  LET coming == UuidsIn(outbox, "UID")
      going  == UuidsIn(outbox, "QUIT")
      killed == UuidsIn(inbound, "KILL")
      known  == DOMAIN seen
  IN /\ Orderly(outbox)
     /\ Agreed(Ours, coming, going, killed, known)
     /\ \A u \in Ids \cap Spoken(coming, going, killed, known) : u < next_user_id
     /\ Control \notin going
     /\ state \in {"TcpConnected", "ServerSent"} => known = {} /\ killed = {}

\* A line that is sent, or told, is about its user, too.
LEMMA UuidsAppend ==
  ASSUME NEW S, NEW s \in Seq(S), NEW x \in S, NEW l
  PROVE  /\ x.l = l => UuidsIn(Append(s, x), l) = UuidsIn(s, l) \cup {x.uuid}
         /\ x.l # l => UuidsIn(Append(s, x), l) = UuidsIn(s, l)
<1>1. Elements(Append(s, x)) = Elements(s) \cup {x}
  BY ElementsOf
<1> QED
  BY <1>1 DEF UuidsIn

\* A line that was read.
LEMMA UuidsTail ==
  ASSUME NEW S, NEW s \in Seq(S), s # <<>>, NEW l
  PROVE  /\ Head(s).l = l => UuidsIn(s, l) = UuidsIn(Tail(s), l) \cup {Head(s).uuid}
         /\ Head(s).l # l => UuidsIn(Tail(s), l) = UuidsIn(s, l)
<1>1. Elements(s) = {Head(s)} \cup Elements(Tail(s))
  BY ElementsOf
<1> QED
  BY <1>1 DEF UuidsIn

\* A new line is orderly when it introduces nobody, or somebody new.
LEMMA OrderlyAppend ==
  ASSUME NEW S, NEW s \in Seq(S), NEW x \in S, Orderly(s),
         x.l = "UID" => x.uuid \notin UuidsIn(s, "UID") \cup UuidsIn(s, "QUIT")
  PROVE  Orderly(Append(s, x))
<1> DEFINE t == Append(s, x)
<1>1. /\ DOMAIN s = 1 .. Len(s) /\ DOMAIN t = 1 .. Len(s) + 1 /\ Len(s) \in Nat
      /\ \A i \in 1 .. Len(s) : t[i] = s[i]
      /\ t[Len(s) + 1] = x
  OBVIOUS
<1> HIDE DEF t
<1>2. \A i \in 1 .. Len(s) + 1 : i \in 1 .. Len(s) \/ i = Len(s) + 1
  BY <1>1
<1> SUFFICES ASSUME NEW i \in DOMAIN t, NEW j \in DOMAIN t,
                    t[i].l \in {"UID", "QUIT"}, t[j].l = "UID", t[i].uuid = t[j].uuid
             PROVE  j <= i
  BY DEF Orderly, t
<1>3. CASE i \in 1 .. Len(s) /\ j \in 1 .. Len(s)
  BY <1>1, <1>3 DEF Orderly
<1>4. CASE i = Len(s) + 1
  BY <1>1, <1>4
<1>5. CASE i \in 1 .. Len(s) /\ j = Len(s) + 1
  <2>1. x.l = "UID" /\ s[i].l \in {"UID", "QUIT"} /\ s[i].uuid = x.uuid /\ s[i] \in Elements(s)
    BY <1>1, <1>5 DEF Elements
  <2> QED
    BY <2>1 DEF UuidsIn
<1> QED
  BY <1>1, <1>2, <1>3, <1>4, <1>5

\* What is left when a line was read is orderly, and does not introduce the
\* user that the line was about.
LEMMA OrderlyTail ==
  ASSUME NEW S, NEW s \in Seq(S), s # <<>>, Orderly(s)
  PROVE  /\ Orderly(Tail(s))
         /\ Head(s).l \in {"UID", "QUIT"} => Head(s).uuid \notin UuidsIn(Tail(s), "UID")
<1> DEFINE t == Tail(s)
<1>1. /\ 1 \in DOMAIN s /\ s[1] = Head(s)
      /\ \A i \in DOMAIN t : i \in Nat \ {0} /\ i + 1 \in DOMAIN s /\ t[i] = s[i + 1]
  OBVIOUS
<1> HIDE DEF t
<1>2. Orderly(t)
  <2> SUFFICES ASSUME NEW i \in DOMAIN t, NEW j \in DOMAIN t,
                      t[i].l \in {"UID", "QUIT"}, t[j].l = "UID", t[i].uuid = t[j].uuid
               PROVE  j <= i
    BY DEF Orderly
  <2>1. j + 1 <= i + 1
    BY <1>1 DEF Orderly
  <2> QED
    BY <1>1, <2>1
<1>3. ASSUME Head(s).l \in {"UID", "QUIT"}, NEW j \in DOMAIN t, t[j].l = "UID", t[j].uuid = Head(s).uuid
      PROVE  FALSE
  <2>1. j + 1 <= 1
    BY <1>1, <1>3 DEF Orderly
  <2> QED
    BY <1>1, <2>1
<1>4. Head(s).l \in {"UID", "QUIT"} => Head(s).uuid \notin UuidsIn(t, "UID")
  BY <1>3 DEF UuidsIn, Elements
<1> QED
  BY <1>2, <1>4 DEF t

\* A step that changes neither our users nor what is said of them.
LEMMA AgreeSame ==
  ASSUME AgreeInv, Orderly(outbox'), Ours' = Ours,
         UuidsIn(outbox', "UID") = UuidsIn(outbox, "UID"),
         UuidsIn(outbox', "QUIT") = UuidsIn(outbox, "QUIT"),
         UuidsIn(inbound', "KILL") = UuidsIn(inbound, "KILL"),
         DOMAIN seen' = DOMAIN seen, next_user_id' = next_user_id,
         state' = state \/ state' \in {"BurstSent", "Linked"} \/ (DOMAIN seen = {} /\ UuidsIn(inbound, "KILL") = {})
  PROVE  AgreeInv'
BY DEF AgreeInv

\* A step without lines.
LEMMA AgreeQuiet ==
  ASSUME AgreeInv, DOMAIN users' = DOMAIN users, UNCHANGED <<outbox, inbound, seen, next_user_id>>,
         state' = state \/ state' \in {"BurstSent", "Linked"}
  PROVE  AgreeInv'
<1>1. Ours' = Ours /\ Orderly(outbox')
  BY DEF Ours, AgreeInv
<1> QED
  BY <1>1, AgreeSame

\* A line that is about nobody.
LEMMA AgreeOtherLine ==
  ASSUME AgreeInv, Ours' = Ours, UNCHANGED <<inbound, seen, next_user_id>>, outbox \in Seq(LineOut),
         NEW x, Send(x), x.l \notin {"UID", "QUIT"},
         state' = state \/ (DOMAIN seen = {} /\ UuidsIn(inbound, "KILL") = {})
  PROVE  AgreeInv'
<1>1. outbox \in Seq(LineOut \cup {x}) /\ outbox' = Append(outbox, x) /\ x \in LineOut \cup {x}
  BY DEF Send
<1>2. Orderly(outbox')
  BY <1>1, OrderlyAppend DEF AgreeInv
<1>3. UuidsIn(outbox', "UID") = UuidsIn(outbox, "UID") /\ UuidsIn(outbox', "QUIT") = UuidsIn(outbox, "QUIT")
  BY <1>1, UuidsAppend
<1> QED
  BY <1>2, <1>3, AgreeSame

\* After a restart the server knows none of our users, as the bridge has none.
LEMMA RestartedAgree ==
  ASSUME Restarted
  PROVE  AgreeInv'
<1>1. /\ DOMAIN seen' = {} /\ DOMAIN users' = {} /\ outbox' = <<>> /\ inbound' = <<>>
  BY DEF Restarted, Empty
<1>2. \A l : UuidsIn(outbox', l) = {} /\ UuidsIn(inbound', l) = {}
  BY <1>1 DEF UuidsIn, Elements
<1>3. Orderly(outbox')
  BY <1>1 DEF Orderly
<1> QED
  BY <1>1, <1>2, <1>3 DEF AgreeInv, Agreed, Spoken, Ours

\* setup_contact_for introduces a user with a new UUID.
LEMMA SetupGhostAgree ==
  ASSUME LinkInv, AgreeInv, SetupGhost
  PROVE  AgreeInv'
<1> DEFINE x == Head(todo).addr
           w == next_user_id
           line == [l |-> "UID", uuid |-> w, addr |-> x]
<1>1. /\ next_user_id' = w + 1 /\ Send(line) /\ UNCHANGED <<seen, inbound, state>>
      /\ \E n : users' = Put(users, w, n)
  BY DEF SetupGhost, GetUuid, network
<1>2. x \in Addrs /\ w \in Ids /\ w \in Nat /\ w # Control
  BY TaskAtHand DEF SetupGhost, Busy, UuidsLeft, Ids, TypeOK, LinkInv, Control
<1>3. line \in LineOut /\ outbox \in Seq(LineOut) /\ line.l = "UID" /\ line.uuid = w /\ outbox' = Append(outbox, line)
  BY <1>1, <1>2 DEF LineOut, TypeOK, LinkInv, Send
<1> HIDE DEF line
<1> DEFINE coming == UuidsIn(outbox, "UID")
           going  == UuidsIn(outbox, "QUIT")
           killed == UuidsIn(inbound, "KILL")
           known  == DOMAIN seen
<1>4. w \notin Spoken(coming, going, killed, known)
  BY <1>2 DEF AgreeInv
<1>5. w \notin Ours
  BY <1>2 DEF LinkInv, FreshUuids, Ours
<1>6. Ours' = Ours \cup {w}
  BY <1>1, <1>2 DEF Put, Ours, OwnUuids
<1>7. UuidsIn(outbox', "UID") = coming \cup {w} /\ UuidsIn(outbox', "QUIT") = going
  BY <1>3, UuidsAppend
<1>8. Orderly(outbox')
  BY <1>3, <1>4, OrderlyAppend DEF AgreeInv, Spoken
<1>9. Agreed(Ours, coming, going, killed, known) /\ Control \notin going
      /\ (state \in {"TcpConnected", "ServerSent"} => known = {} /\ killed = {})
      /\ \A u \in Ids \cap Spoken(coming, going, killed, known) : u < w
  BY DEF AgreeInv
<1>10. Agreed(Ours \cup {w}, coming \cup {w}, going, killed, known)
  BY <1>4, <1>5, <1>9 DEF Agreed, Spoken
<1>11. \A u \in Ids \cap Spoken(coming \cup {w}, going, killed, known) : u < w + 1
  BY <1>2, <1>9 DEF Ids, Spoken
<1> QED
  BY <1>1, <1>6, <1>7, <1>8, <1>9, <1>10, <1>11 DEF AgreeInv

\* The handler that runs.
LEMMA HandlerAgree ==
  ASSUME LinkInv, AgreeInv, Handler
  PROVE  AgreeInv'
<1> USE DEF registry, store, network
<1>1. CASE \/ SetupNothing \/ QuasiburstStep \/ QuasiburstEnd \/ BecomeLinked \/ StartMessages \/ MessagesEnd
           \/ \E m \in messages : MessageOfStranger(m) \/ MessageNeedsGhost(m)
  BY <1>1, AgreeQuiet
  DEF SetupNothing, QuasiburstStep, QuasiburstEnd, BecomeLinked, StartMessages, MessagesEnd,
      MessageOfStranger, MessageNeedsGhost
<1>2. CASE UuidsExhausted
  BY <1>2, RestartedAgree DEF UuidsExhausted
<1>3. ASSUME NEW m \in messages, MessageShown(m)
      PROVE  AgreeInv'
  <2>1. /\ ProcessMsg(m) /\ UNCHANGED <<users, next_user_id, inbound, seen, state>> /\ outbox \in Seq(LineOut)
    BY <1>3 DEF MessageShown, LinkInv, TypeOK
  <2>2. outbox' = outbox \/ \E x : Send(x) /\ x.l = "MSG"
    <3>1. CASE m.kind = "partial"
      BY <2>1, <3>1 DEF ProcessMsg
    <3>2. CASE m.kind # "partial"
      <4>1. PICK adm \in Admins : Send([l |-> "MSG", uuid |-> contacts[m.addr].uuid, to |-> adm, msg |-> m])
        BY <2>1, <3>2 DEF ProcessMsg
      <4> DEFINE x == [l |-> "MSG", uuid |-> contacts[m.addr].uuid, to |-> adm, msg |-> m]
      <4>2. Send(x) /\ x.l = "MSG"
        BY <4>1
      <4> HIDE DEF x
      <4> QED
        BY <4>2
    <3> QED
      BY <3>1, <3>2
  <2>3. CASE outbox' = outbox
    BY <2>1, <2>3, AgreeQuiet
  <2>4. ASSUME NEW x, Send(x), x.l = "MSG"
        PROVE  AgreeInv'
    <3>1. Ours' = Ours
      BY <2>1 DEF Ours
    <3> QED
      BY <2>1, <2>4, <3>1, AgreeOtherLine
  <2> QED
    BY <2>2, <2>3, <2>4
<1> QED
  BY <1>1, <1>2, <1>3, SetupGhostAgree DEF Handler

\* do_burst introduces the control user when the server has answered.
LEMMA ReadServerAgree ==
  ASSUME LinkInv, AgreeInv, ReadServer
  PROVE  AgreeInv'
<1> DEFINE line == [l |-> "UID", uuid |-> Control, addr |-> Nobody]
<1>1. /\ Send(line) /\ users' = Put(users, Control, ControlNick) /\ state' = "BurstSent"
      /\ UNCHANGED <<seen, next_user_id>> /\ Read("SERVER")
  BY DEF ReadServer, network
<1>2. state = "ServerSent" /\ accepted /\ outbox = <<>> /\ DOMAIN users = {} /\ inbound # <<>> /\ Head(inbound).l = "SERVER"
      /\ inbound \in Seq(LineIn) /\ inbound' = Tail(inbound)
  <2>1. state = "ServerSent" /\ inbound # <<>> /\ inbound' = Tail(inbound)
    BY <1>1, LineIsServer DEF LinkInv, Read
  <2> QED
    BY <1>1, <2>1 DEF LinkInv, Handshake, TypeOK, Read, Empty
<1>3. line \in LineOut /\ line.l = "UID" /\ line.uuid = Control /\ outbox' = Append(outbox, line) /\ outbox \in Seq(LineOut)
  BY <1>1 DEF LineOut, Send, LinkInv, TypeOK
<1> HIDE DEF line
<1>4. UuidsIn(outbox, "UID") = {} /\ UuidsIn(outbox, "QUIT") = {}
  BY <1>2 DEF UuidsIn, Elements
<1>5. UuidsIn(outbox', "UID") = {Control} /\ UuidsIn(outbox', "QUIT") = {} /\ Orderly(outbox')
  BY <1>3, <1>4, UuidsAppend, OrderlyAppend DEF AgreeInv
<1>6. UuidsIn(inbound', "KILL") = {} /\ DOMAIN seen' = {}
  BY <1>1, <1>2, UuidsTail DEF AgreeInv
<1>7. Ours' = {Control}
  BY <1>1, <1>2 DEF Ours, Put, OwnUuids
<1>8. Control \notin Ids
  BY DEF Control, Ids
<1> QED
  BY <1>1, <1>5, <1>6, <1>7, <1>8 DEF AgreeInv, Agreed, Spoken

\* A line of the server: a user of ours that was killed is forgotten.
LEMMA ReadLineAgree ==
  ASSUME LinkInv, AgreeInv, ReadLine
  PROVE  AgreeInv'
<1> USE DEF registry, store, network
<1> DEFINE line == Head(inbound)
<1>1. CASE ReadServer
  BY <1>1, ReadServerAgree
<1>2. CASE ~ReadServer
  <2>1. /\ UNCHANGED <<outbox, next_user_id, seen, state>> /\ inbound # <<>> /\ inbound' = Tail(inbound)
        /\ inbound \in Seq(LineIn)
    BY <1>2 DEF ReadLine, ReadEndburst, ReadUid, ReadNick, ReadQuitOrKill, ReadSquit, ReadDirectMessage,
         ReadCommand, Read, RemoveUser, LinkInv, TypeOK
  <2>2. CASE line.l # "KILL"
    <3>1. Ours' = Ours
      <4>1. OwnUuids \cap Remotes = {} /\ Leaf \subseteq Remotes
        BY LinkAssumption DEF OwnUuids, Control, Ids
      <4>2. CASE ReadUid
        <5>1. line.uuid \in Remotes /\ DOMAIN users' = DOMAIN users \cup {line.uuid}
          BY <4>2, <2>1, LineAtHand DEF ReadUid, Read, LinkInv, Put
        <5> QED
          BY <4>1, <5>1 DEF Ours
      <4>3. CASE ReadNick
        BY <4>3 DEF ReadNick, Ours
      <4>4. CASE ReadQuitOrKill
        <5>1. line.uuid \in Remotes /\ DOMAIN users' = DOMAIN users \ {line.uuid}
          BY <4>4, <2>1, <2>2, LineAtHand DEF ReadQuitOrKill, Read, LinkInv, Without, RemoveUser
        <5> QED
          BY <4>1, <5>1 DEF Ours
      <4>5. CASE ReadSquit
        <5>1. DOMAIN users' = DOMAIN users \ Leaf
          BY <4>5 DEF ReadSquit, Without
        <5> QED
          BY <4>1, <5>1 DEF Ours
      <4>6. CASE ReadEndburst \/ ReadDirectMessage \/ ReadCommand
        BY <4>6 DEF ReadEndburst, ReadDirectMessage, ReadCommand, Ours
      <4> QED
        BY <1>2, <4>2, <4>3, <4>4, <4>5, <4>6 DEF ReadLine
    <3>2. UuidsIn(inbound', "KILL") = UuidsIn(inbound, "KILL")
      BY <2>1, <2>2, UuidsTail
    <3> QED
      BY <2>1, <3>1, <3>2, AgreeSame DEF AgreeInv
  <2>3. CASE line.l = "KILL"
    <3>1. RemoveUser(line.uuid) /\ state \in {"BurstSent", "Linked"}
      <4>1. ReadQuitOrKill /\ Read("KILL")
        BY <1>2, <2>3 DEF ReadLine, ReadEndburst, ReadUid, ReadNick, ReadQuitOrKill, ReadSquit, ReadDirectMessage,
           ReadCommand, Read
      <4> QED
        BY <4>1, LineIsNotServer DEF ReadQuitOrKill, LinkInv
    <3>2. Ours' = Ours \ {line.uuid}
      BY <3>1 DEF RemoveUser, Without, Ours
    <3>3. UuidsIn(inbound, "KILL") = UuidsIn(inbound', "KILL") \cup {line.uuid}
      BY <2>1, <2>3, UuidsTail
    <3> QED
      BY <2>1, <3>1, <3>2, <3>3 DEF AgreeInv, Agreed, Spoken
  <2> QED
    BY <2>2, <2>3
<1> QED
  BY <1>1, <1>2

\* A command: a ghost that is dropped quits.
LEMMA TakeCommandAgree ==
  ASSUME LinkInv, AgreeInv, TakeCommand
  PROVE  AgreeInv'
<1> USE DEF registry, store, network
<1>0. UNCHANGED <<inbound, seen, next_user_id, state>> /\ outbox \in Seq(LineOut)
  BY DEF TakeCommand, TakeProcessMessages, TakeSetupContact, TakeQueryContact, TakeDropContactByNick,
     TakeChangeNickByNick, TakeChangeNick, TakeSetWhatsappByNick, LinkInv, TypeOK
<1>1. CASE ~TakeDropContactByNick
  <2>1. outbox' = outbox
    BY <1>1 DEF TakeCommand, TakeProcessMessages, TakeSetupContact, TakeQueryContact,
     TakeChangeNickByNick, TakeChangeNick, TakeSetWhatsappByNick
  <2>2. \A a, n : ChangeNick(a, n) => DOMAIN users' = DOMAIN users
    BY DEF ChangeNick
  <2>3. DOMAIN users' = DOMAIN users
    BY <1>1, <2>2 DEF TakeCommand, TakeProcessMessages, TakeSetupContact, TakeQueryContact,
     TakeChangeNickByNick, TakeChangeNick, TakeSetWhatsappByNick
  <2> QED
    BY <1>0, <2>1, <2>3, AgreeQuiet
<1>2. CASE TakeDropContactByNick
  <2>1. CASE UNCHANGED <<users, outbox>>
    BY <1>0, <2>1, AgreeQuiet
  <2>2. ASSUME NEW g \in Ids, RemoveContact(g), g \in DOMAIN users
        PROVE  AgreeInv'
    <3> DEFINE x == [l |-> "QUIT", uuid |-> g]
    <3>1. outbox' = Append(outbox, x) /\ DOMAIN users' = DOMAIN users \ {g}
      BY <2>2 DEF RemoveContact, Send, Without
    <3>2. x \in LineOut /\ x.l = "QUIT" /\ x.uuid = g
      BY DEF LineOut
    <3> HIDE DEF x
    <3>a. /\ UuidsIn(Append(outbox, x), "UID") = UuidsIn(outbox, "UID")
          /\ UuidsIn(Append(outbox, x), "QUIT") = UuidsIn(outbox, "QUIT") \cup {x.uuid}
      BY <1>0, <3>2, UuidsAppend
    <3>3. UuidsIn(outbox', "UID") = UuidsIn(outbox, "UID") /\ UuidsIn(outbox', "QUIT") = UuidsIn(outbox, "QUIT") \cup {g}
      BY <3>1, <3>2, <3>a
    <3>4. Orderly(outbox')
      BY <1>0, <3>1, <3>2, OrderlyAppend DEF AgreeInv
    <3>5. Ours' = Ours \ {g}
      BY <3>1 DEF Ours
    <3>6. g < next_user_id /\ g # Control
      BY <2>2 DEF LinkInv, FreshUuids, Control, Ids
    <3> QED
      BY <1>0, <3>3, <3>4, <3>5, <3>6 DEF AgreeInv, Agreed, Spoken
  <2>3. UNCHANGED <<users, outbox>> \/ \E g \in Ids : RemoveContact(g) /\ g \in DOMAIN users
    BY <1>2, NamedType DEF TakeDropContactByNick, LinkInv, Named
  <2> QED
    BY <2>1, <2>2, <2>3
<1> QED
  BY <1>1, <1>2

\* Nobody is killed in a netburst.
LEMMA NetburstsKillNobody ==
  ASSUME TypeOK, NEW s \in Netbursts
  PROVE  UuidsIn(s, "KILL") = {}
BY NetburstsSay DEF UuidsIn

\* The server handles a line: a user that is introduced gets known, one that
\* quits is forgotten, and whoever quits was introduced before.
LEMMA ServerReadsAgree ==
  ASSUME LinkInv, AgreeInv, ServerReads
  PROVE  AgreeInv'
<1> DEFINE line == Head(outbox)
           coming == UuidsIn(outbox, "UID")
           going  == UuidsIn(outbox, "QUIT")
           killed == UuidsIn(inbound, "KILL")
           known  == DOMAIN seen
<1>0. /\ outbox \in Seq(LineOut) /\ outbox # <<>> /\ outbox' = Tail(outbox) /\ line \in LineOut
      /\ UNCHANGED <<users, next_user_id, state>> /\ Ours' = Ours
  BY SeqType DEF LinkInv, ServerReads, local, registry, TypeOK, Ours
<1>1. Orderly(outbox') /\ (line.l \in {"UID", "QUIT"} => line.uuid \notin UuidsIn(outbox', "UID"))
  BY <1>0, OrderlyTail DEF AgreeInv
<1>2. line.l = "UID" => coming = UuidsIn(outbox', "UID") \cup {line.uuid} /\ UuidsIn(outbox', "QUIT") = going
  BY <1>0, UuidsTail
<1>3. line.l = "QUIT" => UuidsIn(outbox', "UID") = coming /\ going = UuidsIn(outbox', "QUIT") \cup {line.uuid}
  BY <1>0, UuidsTail
<1>4. line.l \in {"SERVER", "MSG"} => UuidsIn(outbox', "UID") = coming /\ UuidsIn(outbox', "QUIT") = going
  BY <1>0, UuidsTail
<1>5. CASE line.l = "MSG"
  <2>1. UNCHANGED <<inbound, seen>>
    BY <1>5 DEF ServerReads
  <2> QED
    BY <1>0, <1>1, <1>4, <1>5, <2>1, AgreeSame
<1>6. CASE line.l = "SERVER"
  <2>1. inbound' \in Netbursts /\ seen' = seen
    BY <1>6 DEF ServerReads
  <2>2. state \in {"TcpConnected", "ServerSent"}
    <3>1. outbox[1].l = "SERVER" /\ 1 \in DOMAIN outbox
      BY <1>0, <1>6
    <3> QED
      BY <3>1 DEF LinkInv, Handshake, NoServer, TypeOK
  <2>3. UuidsIn(inbound', "KILL") = {}
    BY <2>1, NetburstsKillNobody DEF LinkInv
  <2>4. UuidsIn(inbound, "KILL") = {}
    BY <2>2 DEF AgreeInv
  <2> QED
    BY <1>0, <1>1, <1>4, <1>6, <2>1, <2>3, <2>4, AgreeSame
<1>7. CASE line.l = "UID"
  <2>1. UNCHANGED inbound /\ DOMAIN seen' = DOMAIN seen \cup {line.uuid}
    BY <1>7 DEF ServerReads, Put
  <2>2. state \notin {"TcpConnected", "ServerSent"}
    <3>1. outbox[1].l = "UID"
      BY <1>0, <1>7
    <3> QED
      BY <1>0, <3>1 DEF LinkInv, Handshake
  <2> QED
    BY <1>0, <1>1, <1>2, <1>7, <2>1, <2>2 DEF AgreeInv, Agreed, Spoken
<1>8. CASE line.l = "QUIT"
  <2>1. UNCHANGED inbound /\ DOMAIN seen' = DOMAIN seen \ {line.uuid}
    BY <1>8 DEF ServerReads, Without
  <2> QED
    BY <1>0, <1>1, <1>3, <1>8, <2>1 DEF AgreeInv, Agreed, Spoken
<1> QED
  BY <1>0, <1>5, <1>6, <1>7, <1>8 DEF LineOut

\* What happens outside: an operator kills a user that the server knows, and
\* the bridge will read of it.
LEMMA OutsideAgree ==
  ASSUME LinkInv, AgreeInv, Outside
  PROVE  AgreeInv'
<1> USE DEF registry, store, network, local
<1>0. inbound \in Seq(LineIn)
  BY DEF LinkInv, TypeOK
<1>1. CASE Crash
  BY <1>1, RestartedAgree DEF Crash
<1>2. CASE \/ \E a \in Addrs : SmsArrives(a) \/ WaArrives(a) \/ WaContactSeen(a)
           \/ \E a \in Addrs, n \in Nicks : WaContactRenamed(a, n)
  BY <1>2, AgreeQuiet DEF SmsArrives, WaArrives, WaContactSeen, WaContactRenamed
<1>3. ASSUME NEW x, Tell(x), x.l # "KILL", UNCHANGED <<users, next_user_id, outbox, seen, state>>
      PROVE  AgreeInv'
  <2>1. inbound \in Seq(LineIn \cup {x})
    BY <1>0
  <2>2. UuidsIn(inbound', "KILL") = UuidsIn(inbound, "KILL")
    BY <1>3, <2>1, UuidsAppend DEF Tell
  <2>3. Ours' = Ours /\ Orderly(outbox')
    BY <1>3 DEF Ours, AgreeInv
  <2> QED
    BY <1>3, <2>2, <2>3, AgreeSame
<1>4. ASSUME NEW u \in DOMAIN seen, Kill(u)
      PROVE  AgreeInv'
  <2> DEFINE x == [l |-> "KILL", uuid |-> u]
  <2>1. Tell(x) /\ DOMAIN seen' = DOMAIN seen \ {u} /\ UNCHANGED <<users, next_user_id, outbox, state>>
    BY <1>4 DEF Kill, Without
  <2>2. x \in LineIn /\ x.l = "KILL" /\ x.uuid = u /\ u \in OwnUuids
    BY DEF LineIn, LinkInv, TypeOK, IsPartial
  <2> HIDE DEF x
  <2>3. state \notin {"TcpConnected", "ServerSent"}
    BY DEF AgreeInv
  <2>4. accepted
    BY <2>3 DEF LinkInv, Handshake, TypeOK
  <2>5. UuidsIn(Append(inbound, x), "KILL") = UuidsIn(inbound, "KILL") \cup {x.uuid}
    BY <1>0, <2>2, UuidsAppend
  <2>6. UuidsIn(inbound', "KILL") = UuidsIn(inbound, "KILL") \cup {u}
    BY <2>1, <2>2, <2>4, <2>5 DEF Tell
  <2>7. Ours' = Ours
    BY <2>1 DEF Ours
  <2> QED
    BY <2>1, <2>3, <2>6, <2>7 DEF AgreeInv, Agreed, Spoken
<1>5. CASE \/ Split
           \/ \E u \in Remotes, n \in Nicks \cup {AdminNick} : Connect(u, n) \/ Rename(u, n)
           \/ \E u \in Remotes : Quit(u)
           \/ \E u \in Remotes, g \in DOMAIN seen : WriteToGhost(u, g)
           \/ \E u \in Remotes, cmd \in AdminCommands : WriteToControl(u, cmd)
  <2>1. CASE Split
    BY <2>1, <1>3 DEF Split
  <2>2. ASSUME NEW u \in Remotes, NEW n \in Nicks \cup {AdminNick}, Connect(u, n) \/ Rename(u, n)
        PROVE  AgreeInv'
    BY <2>2, <1>3 DEF Connect, Rename
  <2>3. ASSUME NEW u \in Remotes, Quit(u)
        PROVE  AgreeInv'
    BY <2>3, <1>3 DEF Quit
  <2>4. ASSUME NEW u \in Remotes, NEW g \in DOMAIN seen, WriteToGhost(u, g)
        PROVE  AgreeInv'
    BY <2>4, <1>3 DEF WriteToGhost
  <2>5. ASSUME NEW u \in Remotes, NEW cmd \in AdminCommands, WriteToControl(u, cmd)
        PROVE  AgreeInv'
    BY <2>5, <1>3 DEF WriteToControl
  <2> QED
    BY <1>5, <2>1, <2>2, <2>3, <2>4, <2>5
<1> QED
  BY <1>1, <1>2, <1>4, <1>5 DEF Outside

\* Every step keeps the agreement.
LEMMA NextAgree ==
  ASSUME LinkInv, AgreeInv, [Next]_vars
  PROVE  AgreeInv'
<1>1. CASE SendServer
  <2> DEFINE x == [l |-> "SERVER"]
  <2>1. Send(x) /\ x.l = "SERVER" /\ UNCHANGED <<users, next_user_id, inbound, seen>> /\ state = "TcpConnected"
    BY <1>1 DEF SendServer, registry, network
  <2> HIDE DEF x
  <2>2. Ours' = Ours /\ outbox \in Seq(LineOut) /\ DOMAIN seen = {} /\ UuidsIn(inbound, "KILL") = {}
    BY <2>1 DEF Ours, LinkInv, TypeOK, AgreeInv
  <2> QED
    BY <2>1, <2>2, AgreeOtherLine
<1>2. CASE \E src \in Sources : ManagerStep(src)
  BY <1>2, AgreeQuiet DEF ManagerStep, registry, network
<1>3. CASE UNCHANGED vars
  BY <1>3, AgreeQuiet DEF vars
<1>4. \/ SendServer \/ Handler \/ ReadLine \/ TakeCommand \/ ServerReads \/ Outside
      \/ (\E src \in Sources : ManagerStep(src)) \/ UNCHANGED vars
  BY DEF Next, Bridge
<1> QED
  BY <1>1, <1>2, <1>3, <1>4, HandlerAgree, ReadLineAgree, TakeCommandAgree, ServerReadsAgree, OutsideAgree

\* The server knows exactly the users that the bridge thinks it has, up to
\* what is on its way, whatever is killed, dropped and set up again in which
\* order; and a ghost it knows stands for the contact it stands for in
\* contacts_uuid_pdua.
THEOREM AgreementTheorem == Spec => []ServerAgrees
<1>1. Init => AgreeInv
  <2> SUFFICES ASSUME Init
               PROVE  AgreeInv
    OBVIOUS
  <2>1. DOMAIN seen = {} /\ DOMAIN users = {} /\ outbox = <<>> /\ inbound = <<>>
    BY DEF Init, Empty
  <2>2. \A l : UuidsIn(outbox, l) = {} /\ UuidsIn(inbound, l) = {}
    BY <2>1 DEF UuidsIn, Elements
  <2>3. Orderly(outbox)
    BY <2>1 DEF Orderly
  <2> QED
    BY <2>1, <2>2, <2>3 DEF AgreeInv, Agreed, Spoken, Ours
<1>2. LinkInv /\ AgreeInv /\ [Next]_vars => AgreeInv'
  BY NextAgree
<1>3. LinkInv /\ RightInv /\ AgreeInv => ServerAgrees
  <2> SUFFICES ASSUME LinkInv, RightInv, AgreeInv
               PROVE  ServerAgrees
    OBVIOUS
  <2>1. Ours \ UuidsIn(inbound, "KILL") = (DOMAIN seen \cup UuidsIn(outbox, "UID")) \ UuidsIn(outbox, "QUIT")
    BY DEF AgreeInv, Agreed
  <2>2. \A u \in Ghosts \cap DOMAIN seen : seen[u] = contacts_uuid_pdua[u]
    <3> SUFFICES ASSUME NEW u \in Ghosts \cap DOMAIN seen
                 PROVE  seen[u] = contacts_uuid_pdua[u]
      OBVIOUS
    <3>1. u \in Ids /\ contacts_uuid_pdua[u] \in Addrs /\ seen[u] \in Addrs
      BY DEF Ghosts, LinkInv, TypeOK, IsPartial, Control, Ids
    <3>2. Stands(u, seen[u]) /\ Stands(u, contacts_uuid_pdua[u])
      BY DEF Stands, ByMap, Ghosts
    <3> QED
      BY <3>1, <3>2 DEF RightInv, StandsForOne
  <2> QED
    BY <2>1, <2>2 DEF ServerAgrees, UuidsIn, Ours
<1>4. Spec => []RightInv
  BY RightInvariant
<1> QED
  BY <1>1, <1>2, <1>3, <1>4, LinkInvariant, PTL DEF Spec
=============================================================================
