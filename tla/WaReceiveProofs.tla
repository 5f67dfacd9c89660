-------------------------- MODULE WaReceiveProofs ---------------------------
(***************************************************************************)
(* Proofs about WaReceive: types, and what its tables promise whatever     *)
(* WhatsApp repeats and whenever the process dies.                         *)
(***************************************************************************)
EXTENDS WaReceive, MapsProofs, FiniteSetTheorems

-----------------------------------------------------------------------------
(* What the steps find and leave *)

\* The requests, tasks and commands that the manager makes are of their types.
LEMMA Made ==
  /\ \A m \in Msgs : MessageRead(m) \in Request
  /\ \A g \in Groups : GetMetadata(g) \in Request
  /\ \A d \in Job : MediaFinished(d) \in Command
  /\ \A m \in Msgs \cup Notices, part \in Parts, gid \in Nat : Row(m, part, gid) \in Task
  /\ \A m \in Msgs : Id(m) \in Task
  /\ \A g \in Groups : Update(g) \in Task
  /\ \A r \in Request : Push(r) \in Task
  /\ \A g \in Groups : Notice(g) \in Notices
BY DEF MessageRead, Request, GetMetadata, MediaFinished, Command, Row, Task, Id, Update, Push,
       Notice, Notices

\* The task at the head of todo is a proper one, and so are those after it.
LEMMA TaskAtHand ==
  ASSUME TypeOK, todo # <<>>
  PROVE  /\ Tail(todo) \in Seq(Task) /\ Head(todo) \in Elements(todo)
         /\ Elements(todo) = {Head(todo)} \cup Elements(Tail(todo))
         /\ Head(todo).op = "row" =>
              /\ Head(todo).m \in Msgs \cup Notices
              /\ Head(todo).part \in Parts /\ Head(todo).gid \in Nat
         /\ Head(todo).op = "id" => Head(todo).m \in Msgs /\ Head(todo) = Id(Head(todo).m)
         /\ Head(todo).op = "update" =>
              Head(todo).group \in Groups /\ Head(todo) = Update(Head(todo).group)
         /\ Head(todo).op = "push" => Head(todo).req \in Request /\ Head(todo) = Push(Head(todo).req)
<1>1. Tail(todo) \in Seq(Task) /\ Head(todo) \in Task
  BY SeqType DEF TypeOK
<1>2. Elements(todo) = {Head(todo)} \cup Elements(Tail(todo))
  BY ElementsOf DEF TypeOK
<1> QED
  BY <1>1, <1>2 DEF Task, Id, Update, Push

\* The request at the head of the outbox is a proper one, and so are the others.
LEMMA RequestAtHand ==
  ASSUME TypeOK, outbox # <<>>
  PROVE  /\ Tail(outbox) \in Seq(Request) /\ Head(outbox) \in Request
         /\ Elements(outbox) = {Head(outbox)} \cup Elements(Tail(outbox))
         /\ Head(outbox).req = "read" => Head(outbox).m \in Msgs
         /\ Head(outbox).req # "read" => Head(outbox).req = "metadata" /\ Head(outbox).group \in Groups
<1>1. Tail(outbox) \in Seq(Request) /\ Head(outbox) \in Request
  BY SeqType DEF TypeOK
<1>2. Elements(outbox) = {Head(outbox)} \cup Elements(Tail(outbox))
  BY ElementsOf DEF TypeOK
<1> QED
  BY <1>1, <1>2 DEF Request

\* A WhatsappCommand that is taken is one of the type of rx.
LEMMA CommandAtHand ==
  ASSUME TypeOK, rx # <<>>
  PROVE  /\ Tail(rx) \in Seq(Command) /\ Head(rx) \in Elements(rx)
         /\ Elements(rx) = {Head(rx)} \cup Elements(Tail(rx))
         /\ Head(rx).c = "media" => Head(rx).job \in Job
         /\ Head(rx).c = "associate" => Head(rx).group \in Groups /\ Head(rx).channel \in Channels
         /\ Head(rx).c = "remove" => Head(rx).channel \in Channels
<1>1. Tail(rx) \in Seq(Command) /\ Head(rx) \in Command
  BY SeqType DEF TypeOK
<1>2. Elements(rx) = {Head(rx)} \cup Elements(Tail(rx))
  BY ElementsOf DEF TypeOK
<1> QED
  BY <1>1, <1>2 DEF Command, Orders

\* The jobs that wait for the manager are proper ones
LEMMA MediaType ==
  ASSUME TypeOK
  PROVE  Media \in SUBSET Job
<1>1. Elements(rx) \in SUBSET Command
  BY ElementsOf DEF TypeOK
<1> QED
  BY <1>1 DEF Media, Command, Orders

\* The groups that a sequence of requests asks for
LEMMA AsksType ==
  ASSUME NEW s \in Seq(Request)
  PROVE  Asks(s) \in SUBSET Groups
<1>1. Elements(s) \in SUBSET Request
  BY ElementsOf
<1> QED
  BY <1>1 DEF Asks, Request

\* The id of a bridged group is one of the table (get_group_by_jid_opt).
LEMMA GidType ==
  ASSUME TypeOK, NEW g \in Groups, Bridged(g)
  PROVE  /\ GidOf(g) \in DOMAIN groups /\ groups[GidOf(g)].jid = g
         /\ GidOf(g) \in Nat \ {0} /\ GidOf(g) < next_gid
<1>1. GidOf(g) \in DOMAIN groups /\ groups[GidOf(g)].jid = g
  BY DEF Bridged, GidOf
<1> QED
  BY <1>1 DEF TypeOK, IsPartial

\* group_update_all makes one request of every row.
LEMMA UpdateAllType ==
  ASSUME TypeOK
  PROVE  /\ SetToSeq({GetMetadata(groups[i].jid) : i \in DOMAIN groups}) \in Seq(Request)
         /\ Elements(SetToSeq({GetMetadata(groups[i].jid) : i \in DOMAIN groups}))
              \subseteq {GetMetadata(groups[i].jid) : i \in DOMAIN groups}
<1> DEFINE all == {GetMetadata(groups[i].jid) : i \in DOMAIN groups}
           f   == [i \in DOMAIN groups |-> GetMetadata(groups[i].jid)]
<1>1. IsFiniteSet(DOMAIN groups)
  <2>1. IsFiniteSet(1 .. next_gid - 1)
    BY FS_Interval DEF TypeOK
  <2> QED
    BY <2>1, FS_Subset DEF TypeOK, IsPartial
<1>2. f \in Surjection(DOMAIN groups, all)
  BY DEF Surjection
<1>3. IsFiniteSet(all)
  BY <1>1, <1>2, FS_Surjection
<1>4. all \in SUBSET Request
  <2>1. \A i \in DOMAIN groups : groups[i].jid \in Groups
    BY DEF TypeOK, IsPartial, Bridge
  <2> QED
    BY <2>1, Made
<1> HIDE DEF all
<1>5. Cardinality(all) \in Nat /\ Injection(1 .. Cardinality(all), all) # {}
  BY <1>3, FS_CardinalityType DEF ExistsBijection, Bijection
<1>6. SetToSeq(all) \in [1 .. Cardinality(all) -> all]
  BY <1>5 DEF SetToSeq, Injection
<1>7. SetToSeq(all) \in Seq(all)
  BY <1>5, <1>6
<1>8. SetToSeq(all) \in Seq(Request)
  BY <1>4, <1>7
<1>9. Elements(SetToSeq(all)) \subseteq all
  BY <1>7, ElementsOf
<1> QED
  BY <1>8, <1>9 DEF all

\* What on_message has to do for a message: its rows first, then what makes it
\* known and read.
LEMMA TextsShape ==
  ASSUME NEW m \in Msgs
  PROVE  /\ Texts(m) \in Seq({"quote", "text"})
         /\ Len(Texts(m)) \in 0 .. 2 /\ DOMAIN Texts(m) = 1 .. Len(Texts(m))
         /\ \A i, j \in DOMAIN Texts(m) : Texts(m)[i] = Texts(m)[j] => i = j
         /\ \A i \in DOMAIN Texts(m) : Texts(m)[i] \in Parts /\ Texts(m)[i] # "file"
         /\ Texts(m) = <<>> <=> ~m.text
<1>1. Texts(m) = <<>> \/ Texts(m) = <<"quote", "text">> \/ Texts(m) = <<"text">>
  BY DEF Texts
<1>2. Texts(m) = <<>> <=> ~m.text
  BY DEF Texts
<1>3. CASE Texts(m) = <<>>
  BY <1>2, <1>3 DEF Parts
<1>4. CASE Texts(m) = <<"text">>
  BY <1>2, <1>4 DEF Parts
<1>5. CASE Texts(m) = <<"quote", "text">>
  BY <1>2, <1>5 DEF Parts
<1> QED
  BY <1>1, <1>3, <1>4, <1>5

\* The rows of a message: one for its quotation and one for its text.
LEMMA RowsShape ==
  ASSUME NEW m \in Msgs, NEW gid \in Nat
  PROVE  /\ Rows(m, gid) \in Seq(Task)
         /\ Len(Rows(m, gid)) = Len(Texts(m))
         /\ \A i \in 1 .. Len(Texts(m)) : Rows(m, gid)[i] = Row(m, Texts(m)[i], gid)
<1>1. \A i \in 1 .. Len(Texts(m)) : Row(m, Texts(m)[i], gid) \in Task
  BY TextsShape, Made
<1>2. Rows(m, gid) = [i \in 1 .. Len(Texts(m)) |-> Row(m, Texts(m)[i], gid)]
  BY TextsShape DEF Rows
<1>3. Rows(m, gid) \in [1 .. Len(Texts(m)) -> Task]
  BY <1>1, <1>2
<1>4. Len(Texts(m)) \in Nat
  BY TextsShape
<1> QED
  BY <1>2, <1>3, <1>4

\* All that is left to do of a message: its rows, its id, its receipt.
LEMMA TasksShape ==
  ASSUME TypeOK, NEW m \in Msgs, NEW gid \in Nat
  PROVE  /\ Tasks(m, gid) \in Seq(Task)
         /\ \A i \in 1 .. Len(Texts(m)) :
              i \in DOMAIN Tasks(m, gid) /\ Tasks(m, gid)[i] = Row(m, Texts(m)[i], gid)
         /\ \A i \in DOMAIN Tasks(m, gid) : i \in Nat \ {0} /\
              \/ i \in 1 .. Len(Texts(m))
              \/ i > Len(Texts(m)) /\ ~m.file /\ Tasks(m, gid)[i] \in {Id(m), Push(MessageRead(m))}
         /\ m.text /\ ~m.file => Id(m) \in Elements(Tasks(m, gid))
<1> DEFINE n  == Len(Texts(m))
           ts == Tasks(m, gid)
           known   == IF m.text /\ ~m.file THEN <<Id(m)>> ELSE <<>>
           receipt == IF m.file THEN <<>> ELSE Receipt(m)
<1>1. known \in Seq(Task) /\ receipt \in Seq(Task)
  BY Made DEF Receipt
<1>2. n \in Nat /\ Rows(m, gid) \in Seq(Task) /\ Len(Rows(m, gid)) = n
  BY TextsShape, RowsShape
<1>3. ts = (Rows(m, gid) \o known) \o receipt
  BY DEF Tasks
<1>4. /\ known \in {<<>>, <<Id(m)>>} /\ receipt \in {<<>>, <<Push(MessageRead(m))>>}
      /\ m.file => known = <<>> /\ receipt = <<>>
      /\ m.text /\ ~m.file => known = <<Id(m)>>
  BY DEF Receipt
<1>5. \A i \in 1 .. n : Rows(m, gid)[i] = Row(m, Texts(m)[i], gid)
  BY RowsShape
<1> HIDE DEF known, receipt, n, ts
<1>6. /\ ts \in Seq(Task) /\ Len(ts) = n + Len(known) + Len(receipt)
      /\ \A i \in 1 .. n : ts[i] = Rows(m, gid)[i]
      /\ \A i \in 1 .. Len(known) : ts[n + i] = known[i]
      /\ \A i \in 1 .. Len(receipt) : ts[n + Len(known) + i] = receipt[i]
  <2> DEFINE front == Rows(m, gid) \o known
  <2>1. /\ front \in Seq(Task) /\ Len(front) = n + Len(known)
        /\ \A i \in 1 .. n : front[i] = Rows(m, gid)[i]
        /\ \A i \in 1 .. Len(known) : front[n + i] = known[i]
    BY <1>1, <1>2, ConcatProperties
  <2> HIDE DEF front
  <2>2. /\ ts \in Seq(Task) /\ Len(ts) = Len(front) + Len(receipt)
        /\ \A i \in 1 .. Len(front) : ts[i] = front[i]
        /\ \A i \in 1 .. Len(receipt) : ts[Len(front) + i] = receipt[i]
    BY <1>1, <1>3, <2>1, ConcatProperties, SMTT(30) DEF front
  <2>3. Len(known) \in Nat /\ Len(receipt) \in Nat
    BY <1>1
  <2> QED
    BY <1>2, <2>1, <2>2, <2>3
<1>7. Len(known) \in {0, 1} /\ Len(receipt) \in {0, 1} /\ DOMAIN ts = 1 .. Len(ts)
  BY <1>4, <1>6
<1>8. ASSUME NEW i \in DOMAIN ts
      PROVE  i \in 1 .. n \/ (i > n /\ ~m.file /\ ts[i] \in {Id(m), Push(MessageRead(m))})
  <2>1. CASE i \in 1 .. n
    BY <2>1
  <2>2. CASE Len(known) = 1 /\ i = n + 1
    <3>1. known = <<Id(m)>>
      BY <1>4, <2>2
    <3>2. ts[i] = known[1]
      BY <1>6, <2>2
    <3> QED
      BY <3>1, <3>2, <1>2, <1>4, <2>2
  <2>3. CASE Len(receipt) = 1 /\ i = n + Len(known) + 1
    <3>1. receipt = <<Push(MessageRead(m))>>
      BY <1>4, <2>3
    <3>2. ts[i] = receipt[1]
      BY <1>2, <1>6, <1>7, <2>3
    <3> QED
      BY <3>1, <3>2, <1>2, <1>4, <1>7, <2>3
  <2>4. PICK x \in {0, 1}, y \in {0, 1} : x = Len(known) /\ y = Len(receipt)
    BY <1>7
  <2>5. Len(ts) = n + x + y
    BY <1>6, <2>4
  <2>6. n \in Nat /\ i \in 1 .. n + x + y
    BY <1>2, <1>7, <2>5
  <2>7. i \in 1 .. n \/ (x = 1 /\ i = n + 1) \/ (y = 1 /\ i = n + x + 1)
    BY <2>6
  <2> QED
    BY <2>1, <2>2, <2>3, <2>4, <2>7
<1>9. ASSUME m.text, ~m.file PROVE Id(m) \in Elements(ts)
  <2>1. known = <<Id(m)>> /\ Len(known) = 1
    BY <1>4, <1>9
  <2>2. n + 1 \in DOMAIN ts /\ ts[n + 1] = known[1]
    BY <1>2, <1>6, <1>7, <2>1
  <2> QED
    BY <2>1, <2>2 DEF Elements
<1>10. \A i \in 1 .. n : i \in DOMAIN ts /\ ts[i] = Row(m, Texts(m)[i], gid)
  BY <1>2, <1>5, <1>6, <1>7
<1>11. \A i \in DOMAIN ts : i \in Nat \ {0}
  BY <1>2, <1>6, <1>7
<1> QED
  BY <1>6, <1>8, <1>9, <1>10, <1>11 DEF ts, n

-----------------------------------------------------------------------------
(* Type correctness, action by action *)

\* A process that has just started (main) has the right types.
LEMMA RestartedType ==
  ASSUME TypeOK, Restarted, inputs' \in Nat
  PROVE  TypeOK'
<1>1. /\ rx' \in Seq(Command) /\ outbox' \in Seq(Request) /\ todo' \in Seq(Task)
      /\ downloads' \subseteq Job
  BY DEF Restarted
<1>2. InFlight \in SUBSET Msgs
  BY MediaType DEF InFlight, TypeOK, Job
<1>3. {t.m : t \in {u \in Elements(todo) : u.op = "id"}} \in SUBSET Msgs
  <2>1. Elements(todo) \in SUBSET Task
    BY ElementsOf DEF TypeOK
  <2> QED
    BY <2>1 DEF Task
<1>4. killed' \in SUBSET Msgs
  BY <1>2, <1>3 DEF Restarted, TypeOK
<1>5. Unready \in SUBSET Groups
  BY DEF Unready, TypeOK, IsPartial, Bridge
<1>6. cut' \in SUBSET Msgs /\ lost' \in SUBSET Groups
  BY <1>5 DEF Restarted, TypeOK
<1>7. heard' \in [Msgs -> {"never", "before", "now"}]
  BY DEF Restarted, TypeOK
<1> QED
  BY <1>1, <1>4, <1>6, <1>7 DEF Restarted, TypeOK, config, database

\* The connection and the chat list (poll, on_wa_error, InitialChats).
LEMMA ConnectionType ==
  ASSUME TypeOK, Connects \/ OnEstablished \/ OnWaError \/ OnChats
  PROVE  TypeOK'
<1>1. CASE Connects
  BY <1>1 DEF Connects, TypeOK, config, database, whatsapp, history
<1>2. CASE OnEstablished
  BY <1>2 DEF OnEstablished, TypeOK, config, database, whatsapp, history
<1>3. CASE OnWaError
  <2>1. heard' \in [Msgs -> {"never", "before", "now"}]
    BY <1>3 DEF OnWaError, TypeOK
  <2>2. asked' \subseteq Groups /\ lost' \subseteq Groups /\ inputs' \in Nat
    BY <1>3 DEF OnWaError, Input, TypeOK
  <2>3. up' = FALSE /\ connected' = FALSE
    BY <1>3 DEF OnWaError
  <2> QED
    BY <1>3, <2>1, <2>2, <2>3 DEF OnWaError, TypeOK, config, database
<1>4. CASE OnChats
  BY <1>4 DEF OnChats, Input, TypeOK, config, database, whatsapp, history
<1> QED
  BY <1>1, <1>2, <1>3, <1>4

\* store_group makes a row with the next id, and never two.
LEMMA StoreGroupType ==
  ASSUME TypeOK, NEW g \in Groups, NEW c \in Channels, StoreGroup(g, c)
  PROVE  /\ IsPartial(groups', 1 .. next_gid' - 1, Bridge)
         /\ next_gid' = next_gid + 1 /\ next_gid' \in Nat \ {0}
         /\ lost' \subseteq Groups
         /\ DOMAIN groups' = DOMAIN groups \cup {next_gid} /\ next_gid \notin DOMAIN groups
         /\ \A i \in DOMAIN groups : groups'[i] = groups[i]
         /\ groups'[next_gid] = [jid |-> g, channel |-> c, ready |-> FALSE]
<1> DEFINE row == [jid |-> g, channel |-> c, ready |-> FALSE]
<1>1. row \in Bridge /\ next_gid \in 1 .. next_gid' - 1 /\ next_gid' = next_gid + 1
  BY DEF Bridge, StoreGroup, TypeOK
<1>2. IsPartial(groups, 1 .. next_gid' - 1, Bridge) /\ next_gid \notin DOMAIN groups
  BY <1>1 DEF TypeOK, IsPartial
<1>3. groups' = Put(groups, next_gid, row)
  BY DEF StoreGroup
<1> HIDE DEF row
<1>4. /\ IsPartial(groups', 1 .. next_gid' - 1, Bridge)
      /\ DOMAIN groups' = DOMAIN groups \cup {next_gid}
      /\ \A i \in DOMAIN groups : i # next_gid => groups'[i] = groups[i]
      /\ groups'[next_gid] = row
  BY <1>1, <1>2, <1>3 DEF IsPartial, Put
<1>5. lost' \subseteq Groups
  BY DEF StoreGroup, TypeOK
<1>6. next_gid' \in Nat \ {0}
  BY <1>1 DEF TypeOK
<1> QED
  BY <1>1, <1>2, <1>4, <1>5, <1>6 DEF row

\* The commands about groups.
LEMMA GroupCommandType ==
  ASSUME TypeOK, GroupAssociate \/ GroupRemove \/ GroupUpdateAll
  PROVE  TypeOK'
<1>1. CASE GroupAssociate
  <2> DEFINE com == Head(rx)
  <2>1. com.group \in Groups /\ com.channel \in Channels /\ rx' \in Seq(Command)
    BY <1>1, CommandAtHand DEF GroupAssociate
  <2>2. CASE StoreGroup(com.group, com.channel) /\ outbox' = Append(outbox, GetMetadata(com.group))
    <3>1. outbox' \in Seq(Request)
      BY <2>1, <2>2, Made, SeqType DEF TypeOK
    <3>2. /\ IsPartial(groups', 1 .. next_gid' - 1, Bridge) /\ next_gid' \in Nat \ {0}
          /\ lost' \subseteq Groups
      BY <2>1, <2>2, StoreGroupType
    <3> QED
      BY <1>1, <2>1, <3>1, <3>2 DEF GroupAssociate, GroupsOnly, TypeOK, config, session
  <2>3. CASE NoNewGroup /\ UNCHANGED outbox
    BY <1>1, <2>1, <2>3 DEF GroupAssociate, GroupsOnly, NoNewGroup, TypeOK, config, session
  <2> QED
    BY <1>1, <2>2, <2>3 DEF GroupAssociate
<1>2. CASE GroupRemove
  <2>1. rx' \in Seq(Command)
    BY <1>2, CommandAtHand DEF GroupRemove
  <2>2. IsPartial(groups', 1 .. next_gid - 1, Bridge)
    BY <1>2, WithoutType DEF GroupRemove, TypeOK
  <2> QED
    BY <1>2, <2>1, <2>2 DEF GroupRemove, GroupsOnly, TypeOK, config, session
<1>3. CASE GroupUpdateAll
  <2>1. rx' \in Seq(Command)
    BY <1>3, CommandAtHand DEF GroupUpdateAll
  <2>2. outbox' \in Seq(Request)
    BY <1>3, UpdateAllType, SeqType DEF GroupUpdateAll, TypeOK
  <2> QED
    BY <1>3, <2>1, <2>2 DEF GroupUpdateAll, GroupsOnly, NoNewGroup, TypeOK, config, session
<1> QED
  BY <1>1, <1>2, <1>3

\* What WhatsApp tells of groups (on_got_group_metadata, on_wa_event).
LEMMA GroupEventType ==
  ASSUME TypeOK, NEW g \in Groups,
         \/ OnGotGroupMetadata(g) \/ OnNoGroupMetadata(g) \/ OnGroupIntroduce(g)
         \/ \E known \in BOOLEAN : OnGroupChange(g, known)
  PROVE  TypeOK'
<1>1. Subject[g] \in Channels
  BY ReceiveAssumption
<1>2. /\ <<Update(g)>> \in Seq(Task) /\ <<Update(g), Update(g)>> \in Seq(Task)
      /\ <<Push(GetMetadata(g))>> \in Seq(Task)
  BY Made
<1>3. ASSUME StoreGroup(g, Subject[g])
      PROVE  /\ IsPartial(groups', 1 .. next_gid' - 1, Bridge) /\ next_gid' \in Nat \ {0}
             /\ lost' \subseteq Groups
  BY <1>1, <1>3, StoreGroupType
<1>4. ASSUME NoNewGroup
      PROVE  /\ IsPartial(groups', 1 .. next_gid' - 1, Bridge) /\ next_gid' \in Nat \ {0}
             /\ lost' \subseteq Groups
  BY <1>4 DEF NoNewGroup, TypeOK
<1>5. CASE OnGotGroupMetadata(g)
  <2>1. todo' \in Seq(Task) /\ asked' \subseteq Groups
    BY <1>2, <1>5 DEF OnGotGroupMetadata, TypeOK
  <2> QED
    BY <1>3, <1>4, <1>5, <2>1 DEF OnGotGroupMetadata, GroupsOnly, TypeOK, config, session
<1>6. CASE OnNoGroupMetadata(g)
  <2>1. asked' \subseteq Groups /\ lost' \subseteq Groups /\ inputs' \in Nat
    BY <1>6 DEF OnNoGroupMetadata, Input, TypeOK
  <2> QED
    BY <1>6, <2>1 DEF OnNoGroupMetadata, GroupsOnly, TypeOK, config, session
<1>7. CASE OnGroupIntroduce(g)
  <2>1. todo' \in {todo, <<Update(g)>>} /\ inputs' \in Nat
    BY <1>7 DEF OnGroupIntroduce, Input, TypeOK
  <2> QED
    BY <1>2, <1>3, <1>4, <1>7, <2>1 DEF OnGroupIntroduce, GroupsOnly, TypeOK, config, session
<1>8. ASSUME NEW known \in BOOLEAN, OnGroupChange(g, known)
      PROVE  TypeOK'
  <2>1. todo' \in Seq(Task)
    <3>1. CASE ~Bridged(g)
      BY <1>8, <3>1 DEF OnGroupChange
    <3>2. CASE Bridged(g)
      <4>1. Row(Notice(g), "text", GidOf(g)) \in Task
        BY <3>2, GidType, Made DEF Parts
      <4> DEFINE told == IF known THEN <<Row(Notice(g), "text", GidOf(g))>> ELSE <<>>
      <4>2. told \in Seq(Task)
        BY <4>1
      <4>3. todo' = told \o <<Push(GetMetadata(g))>>
        BY <1>8, <3>2 DEF OnGroupChange
      <4> HIDE DEF told
      <4> QED
        BY <1>2, <4>2, <4>3, SeqType
    <3> QED
      BY <3>1, <3>2
  <2>2. inputs' \in Nat
    BY <1>8 DEF OnGroupChange, Input, TypeOK
  <2> QED
    BY <1>4, <1>8, <2>1, <2>2 DEF OnGroupChange, GroupsOnly, TypeOK, config, session
<1> QED
  BY <1>5, <1>6, <1>7, <1>8

\* What remains of a handler after one of its tasks (store_wa_message,
\* store_wa_msgid, update_group, the outbox).
LEMMA TaskType ==
  ASSUME TypeOK,
         StoreRow \/ StoreRowFails \/ StoreId \/ UpdateGroup \/ UpdateGroupFails \/ PushRequest
  PROVE  TypeOK'
<1>1. CASE StoreRow
  <2> DEFINE task == Head(todo)
             row  == [m |-> task.m, part |-> task.part,
                      to |-> IF task.gid = NoGroup THEN Person ELSE groups[task.gid].jid]
  <2>1. row \in Stored
    <3>1. task.gid # NoGroup => groups[task.gid].jid \in Groups
      BY <1>1 DEF StoreRow, TypeOK, IsPartial, Bridge
    <3> QED
      BY <1>1, <3>1, TaskAtHand DEF StoreRow, Stored
  <2>2. messages' = Put(messages, row, IF row \in DOMAIN messages THEN messages[row] + 1 ELSE 1)
    BY <1>1 DEF StoreRow
  <2> HIDE DEF row
  <2>3. (IF row \in DOMAIN messages THEN messages[row] + 1 ELSE 1) \in Nat \ {0}
    BY DEF TypeOK, IsPartial
  <2>4. IsPartial(messages', Stored, Nat \ {0})
    BY <2>1, <2>2, <2>3 DEF IsPartial, Put, TypeOK
  <2>5. todo' \in Seq(Task)
    BY <1>1, TaskAtHand DEF StoreRow
  <2> QED
    BY <1>1, <2>4, <2>5 DEF StoreRow, TasksOnly, TypeOK, config, session, whatsapp, history
<1>2. CASE StoreRowFails \/ UpdateGroupFails
  BY <1>2, RestartedType DEF StoreRowFails, UpdateGroupFails, TypeOK
<1>3. CASE StoreId
  <2>1. todo' \in Seq(Task) /\ wa_msgids' \subseteq Msgs
    BY <1>3, TaskAtHand DEF StoreId, TypeOK
  <2> QED
    BY <1>3, <2>1 DEF StoreId, TasksOnly, TypeOK, config, session, whatsapp, history
<1>4. CASE UpdateGroup
  <2> DEFINE i == GidOf(Head(todo).group)
  <2>1. todo' \in Seq(Task) /\ i \in DOMAIN groups
    BY <1>4, TaskAtHand, GidType DEF UpdateGroup
  <2>2. groups' = [groups EXCEPT ![i] = [groups[i] EXCEPT !.ready = TRUE]]
    BY <1>4 DEF UpdateGroup
  <2>3. [groups[i] EXCEPT !.ready = TRUE] \in Bridge
    BY <2>1 DEF TypeOK, IsPartial, Bridge
  <2> HIDE DEF i
  <2>4. IsPartial(groups', 1 .. next_gid - 1, Bridge)
    BY <2>1, <2>2, <2>3 DEF TypeOK, IsPartial
  <2> QED
    BY <1>4, <2>1, <2>4 DEF UpdateGroup, TasksOnly, TypeOK, config, session, whatsapp, history
<1>5. CASE PushRequest
  <2>1. todo' \in Seq(Task) /\ outbox' \in Seq(Request)
    BY <1>5, TaskAtHand, SeqType DEF PushRequest, TypeOK
  <2> QED
    BY <1>5, <2>1 DEF PushRequest, TasksOnly, TypeOK, config, session, whatsapp, history
<1> QED
  BY <1>1, <1>2, <1>3, <1>4, <1>5

\* Requests handed to the connection or lost (the loop over outbox in poll).
LEMMA OutboxType ==
  ASSUME TypeOK, HandOver \/ HandOverFails \/ Discard
  PROVE  TypeOK'
<1>1. CASE HandOver
  <2>1. outbox' \in Seq(Request) /\ read' \subseteq Msgs /\ asked' \subseteq Groups
    BY <1>1, RequestAtHand DEF HandOver, TypeOK
  <2> QED
    BY <1>1, <2>1 DEF HandOver, OutboxOnly, TypeOK, config, session, database
<1>2. CASE HandOverFails
  <2>1. outbox' \in Seq(Request) /\ inputs' \in Nat
    BY <1>2, RequestAtHand DEF HandOverFails, Input, TypeOK
  <2>2. <<Head(outbox)>> \in Seq(Request)
    BY <1>2, RequestAtHand, SeqType DEF HandOverFails
  <2>3. lost' \subseteq Groups
    BY <1>2, <2>2, AsksType DEF HandOverFails, TypeOK
  <2> QED
    BY <1>2, <2>1, <2>3 DEF HandOverFails, OutboxOnly, TypeOK, config, session, database
<1>3. CASE Discard
  <2>1. outbox' \in Seq(Request) /\ lost' \subseteq Groups
    BY <1>3, AsksType DEF Discard, TypeOK
  <2> QED
    BY <1>3, <2>1 DEF Discard, OutboxOnly, TypeOK, config, session, database
<1> QED
  BY <1>1, <1>2, <1>3

\* What every message that is told changes (on_message): what we were told, and
\* nothing of the tables.
LEMMA ToldType ==
  ASSUME TypeOK, NEW m \in Msgs, NEW is_new \in BOOLEAN, Told(m, is_new)
  PROVE  /\ heard' \in [Msgs -> {"never", "before", "now"}] /\ cut' \subseteq Msgs
         /\ inputs' \in Nat
         /\ UNCHANGED <<config, session, rx, outbox, wa_msgids, messages, read, asked>>
<1>1. heard' \in [Msgs -> {"never", "before", "now"}]
  BY DEF Told, TypeOK
<1>2. cut' \subseteq Msgs
  BY DEF Told, TypeOK
<1>3. inputs' \in Nat
  BY DEF Told, Tells, Input, TypeOK
<1> QED
  BY <1>1, <1>2, <1>3 DEF Told

\* A download is of the message and the group of its handler (start_media).
LEMMA StartDownloadType ==
  ASSUME TypeOK, NEW m \in Msgs, NEW gid \in Nat, StartDownload(m, gid), inputs' \in Nat
  PROVE  downloads' \subseteq Job /\ killed' \subseteq Msgs
BY DEF StartDownload, TypeOK, Job

\* Messages, whether they are stored or not (on_message).
LEMMA MessageType ==
  ASSUME TypeOK, NEW m \in Msgs, NEW is_new \in BOOLEAN,
         \/ Ignore(m, is_new) \/ OnMessageTooEarly(m, is_new) \/ OnMessageOfOurs(m, is_new)
         \/ OnMessage(m, is_new)
         \/ OnMessageAutocreates(m, is_new) \/ OnMessageNotAutocreated(m, is_new)
  PROVE  TypeOK'
<1>1. CASE OnMessageTooEarly(m, is_new)
  BY <1>1, RestartedType DEF OnMessageTooEarly, Tells, Input, TypeOK
<1>2. ASSUME Told(m, is_new), todo' \in Seq(Task), downloads' \subseteq Job, killed' \subseteq Msgs,
             IsPartial(groups', 1 .. next_gid' - 1, Bridge), next_gid' \in Nat \ {0}, lost' \subseteq Groups
      PROVE  TypeOK'
  BY <1>2, ToldType DEF TypeOK, config, session
<1>3. ASSUME NoNewGroup
      PROVE  /\ IsPartial(groups', 1 .. next_gid' - 1, Bridge) /\ next_gid' \in Nat \ {0}
             /\ lost' \subseteq Groups
  BY <1>3 DEF NoNewGroup, TypeOK
<1>4. ASSUME UNCHANGED <<downloads, killed>>
      PROVE  downloads' \subseteq Job /\ killed' \subseteq Msgs
  BY <1>4 DEF TypeOK
<1>5. CASE Ignore(m, is_new)
  <2>1. Told(m, is_new) /\ UNCHANGED <<downloads, killed>> /\ NoNewGroup /\ todo' \in Seq(Task)
    BY <1>5 DEF Ignore, TypeOK
  <2> QED
    BY <2>1, <1>2, <1>3, <1>4
<1>6. CASE OnMessageOfOurs(m, is_new)
  <2>1. Told(m, is_new) /\ UNCHANGED <<downloads, killed>> /\ NoNewGroup /\ todo' = <<Id(m)>>
    BY <1>6 DEF OnMessageOfOurs
  <2>2. todo' \in Seq(Task)
    BY <2>1, Made
  <2> QED
    BY <2>1, <2>2, <1>2, <1>3, <1>4
<1>7. CASE OnMessage(m, is_new)
  <2>1. PICK gid \in {NoGroup} \cup DOMAIN groups : todo' = Tasks(m, gid) /\ StartDownload(m, gid)
    BY <1>7 DEF OnMessage
  <2>2. Told(m, is_new) /\ NoNewGroup
    BY <1>7 DEF OnMessage
  <2>3. gid \in Nat
    BY DEF NoGroup, TypeOK, IsPartial
  <2>4. todo' \in Seq(Task) /\ downloads' \subseteq Job /\ killed' \subseteq Msgs
    BY <2>1, <2>2, <2>3, TasksShape, StartDownloadType, ToldType
  <2> QED
    BY <2>2, <2>4, <1>2, <1>3
<1>8. CASE OnMessageAutocreates(m, is_new)
  <2>1. /\ Told(m, is_new) /\ m.chat \in Groups /\ StoreGroup(m.chat, Subject[m.chat])
        /\ todo' = <<Push(GetMetadata(m.chat))>> \o Tasks(m, next_gid)
        /\ StartDownload(m, next_gid)
    BY <1>8 DEF OnMessageAutocreates, ToAutocreate
  <2>2. Subject[m.chat] \in Channels
    BY <2>1, ReceiveAssumption
  <2>3. /\ IsPartial(groups', 1 .. next_gid' - 1, Bridge) /\ next_gid' \in Nat \ {0}
        /\ lost' \subseteq Groups
    BY <2>1, <2>2, StoreGroupType
  <2>4. next_gid \in Nat /\ <<Push(GetMetadata(m.chat))>> \in Seq(Task)
    BY <2>1, Made, SeqType DEF TypeOK
  <2>5. todo' \in Seq(Task)
    BY <2>1, <2>4, TasksShape, SeqType
  <2>6. downloads' \subseteq Job /\ killed' \subseteq Msgs
    BY <2>1, <2>4, StartDownloadType, ToldType
  <2> QED
    BY <2>1, <2>3, <2>5, <2>6, <1>2
<1>9. CASE OnMessageNotAutocreated(m, is_new)
  <2>1. /\ Told(m, is_new) /\ UNCHANGED <<downloads, killed>> /\ NoNewGroup /\ m.chat \in Groups
        /\ todo' = <<Push(GetMetadata(m.chat))>>
    BY <1>9 DEF OnMessageNotAutocreated, ToAutocreate
  <2>2. todo' \in Seq(Task)
    BY <2>1, Made, SeqType
  <2> QED
    BY <2>1, <2>2, <1>2, <1>3, <1>4
<1> QED
  BY <1>1, <1>5, <1>6, <1>7, <1>8, <1>9

\* What is left of a message when its download has ended (process_media_finished):
\* the row of the file, the id, the receipt.
LEMMA FileTasksShape ==
  ASSUME NEW d \in Job
  PROVE  /\ FileTasks(d) \in Seq(Task)
         /\ 1 \in DOMAIN FileTasks(d) /\ FileTasks(d)[1] = Row(d.m, "file", d.gid)
         /\ \A i \in DOMAIN FileTasks(d) : i \in Nat \ {0} /\
              (i = 1 \/ (i > 1 /\ FileTasks(d)[i] \in {Id(d.m), Push(MessageRead(d.m))}))
         /\ Id(d.m) \in Elements(FileTasks(d))
<1> DEFINE front == <<Row(d.m, "file", d.gid), Id(d.m)>>
           back  == Receipt(d.m)
           ts    == FileTasks(d)
<1>1. /\ Row(d.m, "file", d.gid) \in Task /\ Id(d.m) \in Task
      /\ Push(MessageRead(d.m)) \in Task
  BY Made DEF Job, Parts
<1>2. front \in Seq(Task) /\ Len(front) = 2 /\ front[1] = Row(d.m, "file", d.gid) /\ front[2] = Id(d.m)
  BY <1>1
<1>3. back \in Seq(Task) /\ back \in {<<>>, <<Push(MessageRead(d.m))>>}
  BY <1>1 DEF Receipt
<1>4. ts = front \o back
  BY DEF FileTasks
<1> HIDE DEF front, back, ts
<1>5. /\ ts \in Seq(Task) /\ Len(ts) = 2 + Len(back)
      /\ \A i \in 1 .. 2 : ts[i] = front[i]
      /\ \A i \in 1 .. Len(back) : ts[2 + i] = back[i]
  BY <1>2, <1>3, <1>4, ConcatProperties
<1>6. CASE back = <<>>
  <2>1. Len(ts) = 2 /\ DOMAIN ts = {1, 2}
    BY <1>5, <1>6
  <2> QED
    BY <1>2, <1>5, <2>1 DEF ts, Elements
<1>7. CASE back = <<Push(MessageRead(d.m))>>
  <2>1. Len(ts) = 3 /\ ts[3] = Push(MessageRead(d.m)) /\ DOMAIN ts = {1, 2, 3}
    BY <1>5, <1>7
  <2> QED
    BY <1>2, <1>5, <2>1 DEF ts, Elements
<1> QED
  BY <1>3, <1>6, <1>7

\* Downloads, and the commands that come in (DownloadEnds, process_media_finished).
LEMMA CommandType ==
  ASSUME TypeOK,
         \/ TakeMediaFinished
         \/ \E d \in downloads : DownloadEnds(d)
         \/ \E c \in Orders : Order(c)
  PROVE  TypeOK'
<1>1. CASE TakeMediaFinished
  <2>1. rx' \in Seq(Command) /\ Head(rx).job \in Job
    BY <1>1, CommandAtHand DEF TakeMediaFinished
  <2>2. todo' \in Seq(Task)
    BY <1>1, <2>1, FileTasksShape DEF TakeMediaFinished
  <2> QED
    BY <1>1, <2>1, <2>2 DEF TakeMediaFinished, TypeOK, config, session, database, whatsapp, history
<1>2. ASSUME NEW d \in downloads, DownloadEnds(d)
      PROVE  TypeOK'
  <2>1. downloads' \subseteq Job /\ rx' \in Seq(Command)
    BY <1>2, Made, SeqType DEF DownloadEnds, TypeOK
  <2> QED
    BY <1>2, <2>1 DEF DownloadEnds, TypeOK, config, session, database, whatsapp, history
<1>3. ASSUME NEW c \in Orders, Order(c)
      PROVE  TypeOK'
  <2>1. c \in Command
    BY DEF Command
  <2>2. rx' \in Seq(Command) /\ inputs' \in Nat
    BY <1>3, <2>1, SeqType DEF Order, Input, TypeOK
  <2> QED
    BY <1>3, <2>2 DEF Order, TypeOK, config, session, database, whatsapp, history
<1> QED
  BY <1>1, <1>2, <1>3

\* The empty tables and queues that the process begins with.
LEMMA InitType ==
  ASSUME Init
  PROVE  TypeOK
<1>1. IsPartial(messages, Stored, Nat \ {0}) /\ IsPartial(groups, 1 .. next_gid - 1, Bridge)
  BY EmptyType DEF Init
<1>2. rx \in Seq(Command) /\ outbox \in Seq(Request) /\ todo \in Seq(Task)
  BY DEF Init
<1>3. heard \in [Msgs -> {"never", "before", "now"}]
  BY DEF Init
<1>4. /\ downloads = {} /\ wa_msgids = {} /\ read = {} /\ asked = {} /\ cut = {} /\ killed = {}
      /\ lost = {} /\ chats = {} /\ inputs = 0 /\ next_gid = 1
      /\ up \in BOOLEAN /\ connected \in BOOLEAN /\ ~connected
      /\ mark_read \in BOOLEAN /\ autocreate \in BOOLEAN
  BY DEF Init
<1> QED
  BY <1>1, <1>2, <1>3, <1>4 DEF TypeOK

\* Every step keeps the types.
LEMMA NextType ==
  ASSUME TypeOK, Next
  PROVE  TypeOK'
<1>1. CASE Manager
  BY <1>1, TaskType, CommandType, GroupCommandType, OutboxType DEF Manager
<1>2. CASE OnMessages
  BY <1>2, MessageType DEF OnMessages
<1>3. CASE OnGroups
  BY <1>3, GroupEventType DEF OnGroups
<1>4. CASE Crash
  BY <1>4, RestartedType DEF Crash, Input, TypeOK
<1> QED
  <2>1. CASE Connects \/ OnEstablished \/ OnWaError \/ OnChats
    BY <2>1, ConnectionType
  <2>2. CASE HandOverFails
    BY <2>2, OutboxType
  <2>3. CASE (\E d \in downloads : DownloadEnds(d)) \/ \E c \in Orders : Order(c)
    BY <2>3, CommandType
  <2> QED
    BY <1>1, <1>2, <1>3, <1>4, <2>1, <2>2, <2>3 DEF Next

\* No step changes a type, so that the proofs below may reason with types.
LEMMA StutterType ==
  ASSUME TypeOK, UNCHANGED vars
  PROVE  TypeOK'
BY DEF vars, config, session, database, whatsapp, history, TypeOK

\* Whatever happens, tables, queues and requests keep their types; there is no
\* session without a connection.
THEOREM ReceiveTypes == Spec => []TypeOK
<1>1. Init => TypeOK
  BY InitType
<1>2. TypeOK /\ [Next]_vars => TypeOK'
  BY NextType, StutterType
<1> QED
  BY <1>1, <1>2, PTL DEF Spec

-----------------------------------------------------------------------------
(* Groups: bridged once, and asked for until they are ready *)

\* A group is bridged once, as group_associate takes care of.
BridgedOnce == \A i, j \in DOMAIN groups : groups[i].jid = groups[j].jid => i = j

\* No row is added for a group that has one, and none changes its group.
LEMMA BridgedOnceNext ==
  ASSUME TypeOK, BridgedOnce, Next
  PROVE  BridgedOnce'
<1>1. ASSUME NEW g \in Groups, NEW c \in Channels, StoreGroup(g, c), ~Bridged(g)
      PROVE  BridgedOnce'
  <2>1. /\ DOMAIN groups' = DOMAIN groups \cup {next_gid} /\ next_gid \notin DOMAIN groups
        /\ \A i \in DOMAIN groups : groups'[i] = groups[i]
        /\ groups'[next_gid] = [jid |-> g, channel |-> c, ready |-> FALSE]
    BY <1>1, StoreGroupType
  <2>2. \A i \in DOMAIN groups : groups[i].jid # g
    BY <1>1 DEF Bridged
  <2> QED
    BY <2>1, <2>2 DEF BridgedOnce
<1>2. ASSUME groups' = groups
      PROVE  BridgedOnce'
  BY <1>2 DEF BridgedOnce
<1>3. CASE StoreRow \/ StoreId \/ PushRequest
  BY <1>2, <1>3 DEF StoreRow, StoreId, PushRequest
<1>4. CASE Crash \/ StoreRowFails \/ UpdateGroupFails
  BY <1>2, <1>4 DEF Crash, StoreRowFails, UpdateGroupFails, Restarted, database
<1>5. CASE UpdateGroup
  <2> DEFINE i == GidOf(Head(todo).group)
  <2>1. groups' = [groups EXCEPT ![i] = [groups[i] EXCEPT !.ready = TRUE]]
    BY <1>5 DEF UpdateGroup
  <2>2. \A j \in DOMAIN groups : groups[j] \in Bridge
    BY DEF TypeOK, IsPartial
  <2> HIDE DEF i
  <2>3. DOMAIN groups' = DOMAIN groups /\ \A j \in DOMAIN groups : groups'[j].jid = groups[j].jid
    BY <2>1, <2>2 DEF Bridge
  <2> QED
    BY <2>3 DEF BridgedOnce
<1>6. CASE GroupAssociate
  BY <1>1, <1>2, <1>6, CommandAtHand DEF GroupAssociate, CanBridge, NoNewGroup
<1>7. CASE GroupRemove
  <2>1. \A i \in DOMAIN groups' : i \in DOMAIN groups /\ groups'[i] = groups[i]
    BY <1>7 DEF GroupRemove, Without
  <2> QED
    BY <2>1 DEF BridgedOnce
<1>8. CASE GroupUpdateAll
  BY <1>2, <1>8 DEF GroupUpdateAll, NoNewGroup
<1>9. CASE TakeMediaFinished \/ HandOver \/ HandOverFails \/ Discard
  BY <1>2, <1>9 DEF TakeMediaFinished, HandOver, HandOverFails, Discard, OutboxOnly, database
<1>10. CASE OnMessages
  <2> PICK m \in Msgs, is_new \in BOOLEAN :
        \/ Ignore(m, is_new) \/ OnMessageTooEarly(m, is_new) \/ OnMessageOfOurs(m, is_new)
        \/ OnMessage(m, is_new)
        \/ OnMessageAutocreates(m, is_new) \/ OnMessageNotAutocreated(m, is_new)
    BY <1>10 DEF OnMessages
  <2>1. CASE OnMessageAutocreates(m, is_new)
    <3>1. m.chat \in Groups /\ ~Bridged(m.chat) /\ StoreGroup(m.chat, Subject[m.chat])
      BY <2>1 DEF OnMessageAutocreates, ToAutocreate
    <3> QED
      BY <1>1, <3>1, ReceiveAssumption
  <2>2. CASE OnMessageTooEarly(m, is_new)
    BY <1>2, <2>2 DEF OnMessageTooEarly, Restarted, database
  <2> QED
    BY <1>2, <2>1, <2>2 DEF Ignore, OnMessageOfOurs, OnMessage, OnMessageNotAutocreated, NoNewGroup
<1>11. CASE OnGroups
  <2> PICK g \in Groups :
        \/ OnGotGroupMetadata(g) \/ OnNoGroupMetadata(g) \/ OnGroupIntroduce(g)
        \/ \E known \in BOOLEAN : OnGroupChange(g, known)
    BY <1>11 DEF OnGroups
  <2>1. Subject[g] \in Channels
    BY ReceiveAssumption
  <2> QED
    BY <1>1, <1>2, <2>1 DEF OnGotGroupMetadata, OnNoGroupMetadata, OnGroupIntroduce, OnGroupChange,
                            CanBridge, NoNewGroup
<1>12. CASE Connects \/ OnEstablished \/ OnWaError \/ OnChats
  BY <1>2, <1>12 DEF Connects, OnEstablished, OnWaError, OnChats, database
<1>13. CASE (\E d \in downloads : DownloadEnds(d)) \/ \E c \in Orders : Order(c)
  BY <1>2, <1>13 DEF DownloadEnds, Order, database
<1> QED
  BY <1>3, <1>4, <1>5, <1>6, <1>7, <1>8, <1>9, <1>10, <1>11, <1>12, <1>13 DEF Next, Manager

\* A group whose metadata is still to come, and where from.
Pending(g) ==
  \/ g \in lost \cup asked
  \/ GetMetadata(g) \in Elements(outbox)
  \/ Update(g) \in Elements(todo)
  \/ Push(GetMetadata(g)) \in Elements(todo)
AskedInv == \A i \in DOMAIN groups : groups[i].ready \/ Pending(groups[i].jid)

\* AskedUntilReady says of the sets what AskedInv says of every group.
LEMMA AskedInvEnough == AskedInv => AskedUntilReady
<1> SUFFICES ASSUME AskedInv, NEW i \in DOMAIN groups, ~groups[i].ready
             PROVE  groups[i].jid \in lost \cup asked \cup Asks(outbox)
                                     \cup UNION {Wants(t) : t \in Elements(todo)}
  BY DEF AskedUntilReady, Unready
<1> DEFINE g == groups[i].jid
<1>1. Pending(g)
  BY DEF AskedInv
<1> HIDE DEF g
<1>2. CASE GetMetadata(g) \in Elements(outbox)
  <2>1. GetMetadata(g).req = "metadata" /\ GetMetadata(g).group = g
    BY DEF GetMetadata
  <2> QED
    BY <1>2, <2>1 DEF g, Asks
<1>3. CASE Update(g) \in Elements(todo)
  <2>1. g \in Wants(Update(g))
    BY DEF Wants, Update
  <2> QED
    BY <1>3, <2>1 DEF g
<1>4. CASE Push(GetMetadata(g)) \in Elements(todo)
  <2>1. Push(GetMetadata(g)).op = "push" /\ Push(GetMetadata(g)).req = GetMetadata(g)
    BY DEF Push
  <2>2. GetMetadata(g) \in Elements(<<GetMetadata(g)>>)
    BY DEF Elements
  <2>3. GetMetadata(g).req = "metadata" /\ GetMetadata(g).group = g
    BY DEF GetMetadata
  <2>4. g \in Wants(Push(GetMetadata(g)))
    BY <2>1, <2>2, <2>3 DEF Wants, Asks
  <2> QED
    BY <1>4, <2>4 DEF g
<1> QED
  BY <1>1, <1>2, <1>3, <1>4 DEF g, Pending

\* What the steps leave alone stays pending (AskedInv is about every row).
LEMMA AskedStays ==
  ASSUME TypeOK, AskedInv,
         \A i \in DOMAIN groups' : i \in DOMAIN groups /\ groups'[i] = groups[i],
         \A g \in Groups : (\E i \in DOMAIN groups : groups[i].jid = g /\ ~groups[i].ready)
                               /\ Pending(g) => Pending(g)'
  PROVE  AskedInv'
<1> SUFFICES ASSUME NEW i \in DOMAIN groups', ~groups'[i].ready
             PROVE  Pending(groups[i].jid)'
  BY DEF AskedInv
<1> DEFINE g == groups[i].jid
<1>1. i \in DOMAIN groups /\ groups'[i] = groups[i] /\ g \in Groups
  BY DEF TypeOK, IsPartial, Bridge
<1>2. Pending(g)
  BY <1>1 DEF AskedInv
<1>3. ASSUME NEW h \in Groups, h = g PROVE Pending(h)'
  BY <1>1, <1>2, <1>3
<1>4. groups'[i].jid \in Groups /\ groups'[i].jid = g
  BY <1>1
<1> HIDE DEF g
<1> QED
  BY <1>3, <1>4 DEF Pending

\* A group that is stored, and whose metadata is to come, keeps the invariant.
LEMMA AskedStored ==
  ASSUME TypeOK, AskedInv, NEW g \in Groups, NEW c \in Channels, StoreGroup(g, c), Pending(g)',
         \A h \in Groups \ {g} : Pending(h) => Pending(h)'
  PROVE  AskedInv'
<1>1. /\ DOMAIN groups' = DOMAIN groups \cup {next_gid} /\ next_gid \notin DOMAIN groups
      /\ \A i \in DOMAIN groups : groups'[i] = groups[i]
      /\ groups'[next_gid] = [jid |-> g, channel |-> c, ready |-> FALSE]
  BY StoreGroupType
<1>2. \A i \in DOMAIN groups : groups[i].jid \in Groups
  BY DEF TypeOK, IsPartial, Bridge
<1> SUFFICES ASSUME NEW i \in DOMAIN groups', ~groups'[i].ready
             PROVE  Pending(groups[i].jid)'
  BY DEF AskedInv
<1>3. CASE i = next_gid
  <2>1. groups'[i].jid = g
    BY <1>1, <1>3
  <2> QED
    BY <2>1 DEF Pending
<1>4. CASE i \in DOMAIN groups
  <2>1. groups'[i] = groups[i] /\ groups[i].jid \in Groups /\ Pending(groups[i].jid)
    BY <1>1, <1>2, <1>4 DEF AskedInv
  <2>2. CASE groups[i].jid = g
    BY <2>1, <2>2 DEF Pending
  <2>3. CASE groups[i].jid # g
    <3>1. \A h \in Groups \ {g} : h = groups[i].jid => Pending(h)'
      BY <2>1
    <3> QED
      BY <2>1, <2>3, <3>1 DEF Pending
  <2> QED
    BY <2>2, <2>3
<1> QED
  BY <1>1, <1>3, <1>4

\* A handler that begins with nothing to do leaves a group pending if it keeps
\* what was asked and what will be.
LEMMA PendingStays ==
  ASSUME NEW g, Pending(g), todo = <<>>,
         lost \subseteq lost' \/ g \in asked',
         asked \subseteq asked' \cup lost',
         Elements(outbox) \subseteq Elements(outbox')
  PROVE  Pending(g)'
<1>1. Elements(todo) = {}
  BY DEF Elements
<1> QED
  BY <1>1 DEF Pending

\* A task that is done and is neither an update nor a request leaves its rest
\* pending; a request goes to the outbox.
LEMMA PendingTask ==
  ASSUME TypeOK, NEW g \in Groups, Pending(g), StoreRow \/ StoreId \/ PushRequest
  PROVE  Pending(g)'
<1>1. /\ todo # <<>> /\ todo' = Tail(todo) /\ UNCHANGED <<lost, asked>>
      /\ Elements(todo) = {Head(todo)} \cup Elements(Tail(todo))
  BY TaskAtHand DEF StoreRow, StoreId, PushRequest, TasksOnly, whatsapp, history
<1>2. Update(g).op = "update" /\ Push(GetMetadata(g)).op = "push" /\ Push(GetMetadata(g)).req = GetMetadata(g)
  BY DEF Update, Push
<1>3. CASE StoreRow \/ StoreId
  <2>1. outbox' = outbox /\ Head(todo).op \in {"row", "id"}
    BY <1>3 DEF StoreRow, StoreId
  <2> QED
    BY <1>1, <1>2, <2>1 DEF Pending
<1>4. CASE PushRequest
  <2>1. Head(todo).op = "push" /\ outbox' = Append(outbox, Head(todo).req) /\ Head(todo).req \in Request
    BY <1>1, <1>4, TaskAtHand DEF PushRequest
  <2>2. Elements(outbox') = Elements(outbox) \cup {Head(todo).req}
    BY <2>1, ElementsOf DEF TypeOK
  <2> QED
    BY <1>1, <1>2, <2>1, <2>2 DEF Pending
<1> QED
  BY <1>3, <1>4

\* The same for a request that leaves the outbox (poll).
LEMMA PendingRequest ==
  ASSUME TypeOK, NEW g \in Groups, Pending(g), HandOver \/ HandOverFails \/ Discard
  PROVE  Pending(g)'
<1>1. /\ todo = <<>> /\ outbox # <<>> /\ GetMetadata(g).req = "metadata" /\ GetMetadata(g).group = g
      /\ Elements(outbox) = {Head(outbox)} \cup Elements(Tail(outbox))
      /\ Elements(todo) = {}
  <2>1. todo = <<>> /\ outbox # <<>>
    BY DEF HandOver, HandOverFails, Discard
  <2>2. Elements(<<>>) = {}
    BY DEF Elements
  <2> QED
    BY <2>1, <2>2, RequestAtHand DEF GetMetadata
<1>2. CASE HandOver
  <2>1. outbox' = Tail(outbox) /\ lost' = lost /\ asked \subseteq asked'
    BY <1>2 DEF HandOver
  <2>2. Head(outbox) = GetMetadata(g) => g \in asked'
    BY <1>1, <1>2 DEF HandOver
  <2> QED
    BY <1>1, <2>1, <2>2 DEF Pending
<1>3. CASE HandOverFails
  <2>1. outbox' = Tail(outbox) /\ lost' = lost \cup Asks(<<Head(outbox)>>) /\ asked' = asked
    BY <1>3 DEF HandOverFails
  <2>2. Elements(<<Head(outbox)>>) = {Head(outbox)}
    BY DEF Elements
  <2>3. Head(outbox) = GetMetadata(g) => g \in lost'
    BY <1>1, <2>1, <2>2 DEF Asks
  <2> QED
    BY <1>1, <2>1, <2>3 DEF Pending
<1>4. CASE Discard
  <2>1. lost' = lost \cup Asks(outbox) /\ asked' = asked
    BY <1>4 DEF Discard
  <2>2. GetMetadata(g) \in Elements(outbox) => g \in lost'
    BY <1>1, <2>1 DEF Asks
  <2> QED
    BY <1>1, <2>1, <2>2 DEF Pending
<1> QED
  BY <1>2, <1>3, <1>4

\* Every step keeps AskedInv: a bridged group that is not ready is asked for, or
\* its question was lost.
LEMMA AskedInvNext ==
  ASSUME TypeOK, BridgedOnce, AskedInv, Next
  PROVE  AskedInv'
<1>1. ASSUME groups' = groups, \A g \in Groups : Pending(g) => Pending(g)'
      PROVE  AskedInv'
  BY <1>1, AskedStays
<1>2. ASSUME Restarted
      PROVE  AskedInv'
  <2>1. groups' = groups /\ lost' = lost \cup Unready
    BY <1>2 DEF Restarted, database
  <2>2. \A g \in Groups : (\E i \in DOMAIN groups : groups[i].jid = g /\ ~groups[i].ready) => Pending(g)'
    BY <2>1 DEF Unready, Pending
  <2> QED
    BY <2>1, <2>2, AskedStays
<1>3. ASSUME todo = <<>>, UNCHANGED <<lost, asked, groups>>, Elements(outbox) \subseteq Elements(outbox')
      PROVE  AskedInv'
  <2>1. ASSUME NEW g \in Groups, Pending(g) PROVE Pending(g)'
    BY <1>3, <2>1, PendingStays
  <2> QED
    BY <1>1, <1>3, <2>1
<1>4. CASE StoreRow \/ StoreId \/ PushRequest
  <2>1. groups' = groups
    BY <1>4 DEF StoreRow, StoreId, PushRequest
  <2> QED
    BY <1>1, <1>4, <2>1, PendingTask
<1>5. CASE HandOver \/ HandOverFails \/ Discard
  <2>1. groups' = groups
    BY <1>5 DEF HandOver, HandOverFails, Discard, OutboxOnly, database
  <2> QED
    BY <1>1, <1>5, <2>1, PendingRequest
<1>6. CASE Crash \/ StoreRowFails \/ UpdateGroupFails
  BY <1>2, <1>6 DEF Crash, StoreRowFails, UpdateGroupFails
<1>7. CASE UpdateGroup
  <2> DEFINE g == Head(todo).group
             i == GidOf(g)
  <2>1. /\ g \in Groups /\ Head(todo) = Update(g) /\ i \in DOMAIN groups /\ groups[i].jid = g
        /\ Elements(todo) = {Head(todo)} \cup Elements(Tail(todo))
    BY <1>7, TaskAtHand, GidType DEF UpdateGroup
  <2>2. /\ groups' = [groups EXCEPT ![i] = [groups[i] EXCEPT !.ready = TRUE]]
        /\ todo' = Tail(todo) /\ UNCHANGED <<outbox, lost, asked>>
    BY <1>7 DEF UpdateGroup, TasksOnly, whatsapp, history
  <2>3. \A j \in DOMAIN groups : groups[j] \in Bridge
    BY DEF TypeOK, IsPartial
  <2> HIDE DEF g, i
  <2>4. DOMAIN groups' = DOMAIN groups /\ groups'[i].ready /\ \A j \in DOMAIN groups : j # i => groups'[j] = groups[j]
    BY <2>1, <2>2, <2>3 DEF Bridge
  <2> SUFFICES ASSUME NEW j \in DOMAIN groups', ~groups'[j].ready
               PROVE  Pending(groups[j].jid)'
    BY DEF AskedInv
  <2>5. j \in DOMAIN groups /\ groups'[j] = groups[j] /\ groups[j].jid # g /\ Pending(groups[j].jid)
    BY <2>1, <2>4 DEF BridgedOnce, AskedInv
  <2>6. /\ Update(groups[j].jid).group = groups[j].jid /\ Update(g).group = g
        /\ Push(GetMetadata(groups[j].jid)).op = "push" /\ Update(g).op = "update"
    BY DEF Update, Push
  <2> QED
    BY <2>1, <2>2, <2>5, <2>6 DEF Pending
<1>8. CASE GroupAssociate
  <2> DEFINE com == Head(rx)
  <2>1. /\ com.group \in Groups /\ com.channel \in Channels /\ todo = <<>>
        /\ asked' = asked
    BY <1>8, CommandAtHand DEF GroupAssociate
  <2>2. CASE StoreGroup(com.group, com.channel) /\ outbox' = Append(outbox, GetMetadata(com.group))
    <3>1. GetMetadata(com.group) \in Request /\ lost' = lost \ {com.group}
      BY <2>1, <2>2, Made DEF StoreGroup
    <3>2. Elements(outbox') = Elements(outbox) \cup {GetMetadata(com.group)}
      BY <2>2, <3>1, ElementsOf DEF TypeOK
    <3>3. \A h \in Groups \ {com.group} : Pending(h) => Pending(h)'
      <4>1. Elements(todo) = {}
        BY <2>1 DEF Elements
      <4> QED
        BY <2>1, <3>1, <3>2, <4>1 DEF Pending
    <3>4. \A h \in Groups : h = com.group => Pending(h)'
      BY <3>2 DEF Pending
    <3>5. ASSUME NEW g \in Groups, NEW c \in Channels, g = com.group, c = com.channel
          PROVE  AskedInv'
      <4>1. StoreGroup(g, c) /\ Pending(g)' /\ \A h \in Groups \ {g} : Pending(h) => Pending(h)'
        BY <2>2, <3>3, <3>4, <3>5
      <4> QED
        BY <4>1, AskedStored
    <3> QED
      BY <2>1, <3>5
  <2>3. CASE NoNewGroup /\ UNCHANGED outbox
    BY <1>3, <2>1, <2>3 DEF NoNewGroup
  <2> QED
    BY <1>8, <2>2, <2>3 DEF GroupAssociate
<1>9. CASE GroupRemove
  <2>1. /\ \A i \in DOMAIN groups' : i \in DOMAIN groups /\ groups'[i] = groups[i]
        /\ todo' = todo /\ UNCHANGED <<outbox, lost, asked>>
    BY <1>9 DEF GroupRemove, Without
  <2> QED
    BY <2>1, AskedStays DEF Pending
<1>10. CASE GroupUpdateAll
  <2>1. /\ todo = <<>> /\ UNCHANGED <<lost, asked, groups>>
        /\ outbox' = outbox \o SetToSeq({GetMetadata(groups[i].jid) : i \in DOMAIN groups})
    BY <1>10 DEF GroupUpdateAll, NoNewGroup
  <2>2. Elements(outbox) \subseteq Elements(outbox')
    <3> DEFINE all == SetToSeq({GetMetadata(groups[i].jid) : i \in DOMAIN groups})
    <3>1. all \in Seq(Request)
      BY UpdateAllType
    <3> HIDE DEF all
    <3>2. Elements(outbox \o all) = Elements(outbox) \cup Elements(all)
      BY <3>1, ElementsOf DEF TypeOK
    <3> QED
      BY <2>1, <3>2 DEF all
  <2> QED
    BY <1>3, <2>1, <2>2
<1>11. CASE OnMessages
  <2> PICK m \in Msgs, is_new \in BOOLEAN :
        \/ Ignore(m, is_new) \/ OnMessageTooEarly(m, is_new) \/ OnMessageOfOurs(m, is_new)
        \/ OnMessage(m, is_new)
        \/ OnMessageAutocreates(m, is_new) \/ OnMessageNotAutocreated(m, is_new)
    BY <1>11 DEF OnMessages
  <2>1. CASE OnMessageTooEarly(m, is_new)
    BY <1>2, <2>1 DEF OnMessageTooEarly
  <2>2. CASE OnMessageAutocreates(m, is_new)
    <3> DEFINE g == m.chat
    <3>1. /\ g \in Groups /\ StoreGroup(g, Subject[g]) /\ todo = <<>> /\ UNCHANGED <<outbox, asked>>
          /\ todo' = <<Push(GetMetadata(g))>> \o Tasks(m, next_gid)
      BY <2>2 DEF OnMessageAutocreates, ToAutocreate, Told, Tells
    <3> HIDE DEF g
    <3>2. Subject[g] \in Channels /\ lost' = lost \ {g}
      BY <3>1, ReceiveAssumption DEF StoreGroup
    <3>3. Push(GetMetadata(g)) \in Elements(todo')
      <4>1. Push(GetMetadata(g)) \in Task /\ Tasks(m, next_gid) \in Seq(Task)
        BY <3>1, Made, TasksShape DEF TypeOK
      <4>2. /\ <<Push(GetMetadata(g))>> \in Seq(Task)
            /\ Elements(<<Push(GetMetadata(g))>>) = {Push(GetMetadata(g))}
        BY <4>1, ElementsOf, SeqType DEF TypeOK
      <4> HIDE DEF g
      <4> DEFINE first == <<Push(GetMetadata(g))>>
      <4>3. todo' = first \o Tasks(m, next_gid) /\ first \in Seq(Task)
        BY <3>1, <4>2
      <4> HIDE DEF first
      <4>4. Elements(first \o Tasks(m, next_gid)) = Elements(first) \cup Elements(Tasks(m, next_gid))
        BY <4>1, <4>3, ElementsOf
      <4> QED
        BY <4>2, <4>3, <4>4 DEF first
    <3>4. Elements(todo) = {}
      BY <3>1 DEF Elements
    <3> QED
      BY <3>1, <3>2, <3>3, <3>4, AskedStored DEF Pending
  <2>3. CASE Ignore(m, is_new) \/ OnMessageOfOurs(m, is_new) \/ OnMessage(m, is_new)
             \/ OnMessageNotAutocreated(m, is_new)
    <3>1. todo = <<>> /\ UNCHANGED <<lost, asked, groups, outbox>>
      BY <2>3 DEF Ignore, OnMessageOfOurs, OnMessage, OnMessageNotAutocreated, ToAutocreate, Told, Tells,
                  NoNewGroup
    <3> QED
      BY <1>3, <3>1
  <2> QED
    BY <2>1, <2>2, <2>3
<1>12. CASE OnGroups
  <2> PICK g \in Groups :
        \/ OnGotGroupMetadata(g) \/ OnNoGroupMetadata(g) \/ OnGroupIntroduce(g)
        \/ \E known \in BOOLEAN : OnGroupChange(g, known)
    BY <1>12 DEF OnGroups
  <2>1. Subject[g] \in Channels
    BY ReceiveAssumption
  <2>2. Elements(<<Update(g)>>) = {Update(g)} /\ Elements(<<Update(g), Update(g)>>) = {Update(g)}
    BY DEF Elements
  <2>3. ASSUME todo = <<>>, outbox' = outbox, lost \ {g} \subseteq lost', asked \ {g} \subseteq asked'
        PROVE  \A h \in Groups \ {g} : Pending(h) => Pending(h)'
    <3>1. Elements(todo) = {}
      BY <2>3 DEF Elements
    <3> QED
      BY <2>3, <3>1 DEF Pending
  <2>4. ASSUME todo = <<>>, outbox' = outbox, lost \ {g} \subseteq lost', asked \ {g} \subseteq asked',
               Pending(g)', groups' = groups \/ StoreGroup(g, Subject[g])
        PROVE  AskedInv'
    <3>1. \A h \in Groups \ {g} : Pending(h) => Pending(h)'
      BY <2>3, <2>4
    <3>2. \A h \in Groups : h = g => Pending(h)'
      BY <2>4
    <3>3. CASE groups' = groups
      BY <1>1, <3>1, <3>2, <3>3
    <3>4. CASE StoreGroup(g, Subject[g])
      BY <2>1, <2>4, <3>1, <3>4, AskedStored
    <3> QED
      BY <2>4, <3>3, <3>4
  <2>5. CASE OnGotGroupMetadata(g)
    <3>1. /\ todo = <<>> /\ outbox' = outbox /\ asked' = asked \ {g}
          /\ todo' \in {<<Update(g)>>, <<Update(g), Update(g)>>}
          /\ (groups' = groups /\ lost' = lost) \/ StoreGroup(g, Subject[g])
      BY <2>5 DEF OnGotGroupMetadata, NoNewGroup
    <3>2. lost \ {g} \subseteq lost'
      BY <3>1 DEF StoreGroup
    <3>3. Pending(g)'
      BY <2>2, <3>1 DEF Pending
    <3> QED
      BY <2>4, <3>1, <3>2, <3>3
  <2>6. CASE OnNoGroupMetadata(g)
    <3>1. /\ todo = <<>> /\ outbox' = outbox /\ asked' = asked \ {g} /\ groups' = groups
          /\ lost' = lost \cup {g}
      BY <2>6 DEF OnNoGroupMetadata
    <3>2. Pending(g)'
      BY <3>1 DEF Pending
    <3> QED
      BY <2>4, <3>1, <3>2
  <2>7. CASE OnGroupIntroduce(g)
    <3>1. todo = <<>> /\ outbox' = outbox /\ asked' = asked
      BY <2>7 DEF OnGroupIntroduce
    <3>2. CASE StoreGroup(g, Subject[g]) /\ todo' = <<Update(g)>>
      <4>1. lost \ {g} \subseteq lost'
        BY <3>2 DEF StoreGroup
      <4>2. Pending(g)'
        BY <2>2, <3>2 DEF Pending
      <4> QED
        BY <2>4, <3>1, <3>2, <4>1, <4>2
    <3>3. CASE NoNewGroup
      BY <1>3, <3>1, <3>3 DEF NoNewGroup
    <3> QED
      BY <2>7, <3>2, <3>3 DEF OnGroupIntroduce
  <2>8. CASE \E known \in BOOLEAN : OnGroupChange(g, known)
    <3>1. todo = <<>> /\ UNCHANGED <<lost, asked, groups, outbox>>
      BY <2>8 DEF OnGroupChange, NoNewGroup
    <3> QED
      BY <1>3, <3>1
  <2> QED
    BY <2>5, <2>6, <2>7, <2>8
<1>13. CASE OnWaError
  <2>1. todo = <<>> /\ UNCHANGED <<groups, outbox, todo>> /\ lost' = lost \cup asked
    BY <1>13 DEF OnWaError, database
  <2>2. \A g \in Groups : Pending(g) => Pending(g)'
    BY <2>1 DEF Pending
  <2> QED
    BY <1>1, <2>1, <2>2
<1>14. CASE Connects \/ OnEstablished \/ OnChats
  BY <1>3, <1>14 DEF Connects, OnEstablished, OnChats, database, whatsapp, history
<1>15. CASE TakeMediaFinished
  BY <1>3, <1>15 DEF TakeMediaFinished, database, whatsapp, history
<1>16. CASE (\E d \in downloads : DownloadEnds(d)) \/ \E c \in Orders : Order(c)
  <2>1. UNCHANGED <<groups, lost, asked, outbox, todo>>
    BY <1>16 DEF DownloadEnds, Order, database, whatsapp, history
  <2> QED
    BY <1>1, <2>1 DEF Pending
<1> QED
  BY <1>4, <1>5, <1>6, <1>7, <1>8, <1>9, <1>10, <1>11, <1>12, <1>13, <1>14, <1>15, <1>16 DEF Next, Manager

\* A bridged group gets its metadata or waits for an answer, unless the question
\* was lost: whatever is removed, made again, or dies in between.
THEOREM GroupsAreAsked == Spec => []AskedUntilReady
<1> DEFINE Inv == TypeOK /\ BridgedOnce /\ AskedInv
<1>1. Init => Inv
  <2> SUFFICES ASSUME Init PROVE BridgedOnce /\ AskedInv
    BY InitType
  <2>1. DOMAIN groups = {}
    BY DEF Init, Empty
  <2> QED
    BY <2>1 DEF BridgedOnce, AskedInv
<1>2. Inv /\ [Next]_vars => Inv'
  <2>1. ASSUME Inv, Next PROVE Inv'
    BY <2>1, NextType, BridgedOnceNext, AskedInvNext
  <2>2. ASSUME Inv, UNCHANGED vars PROVE Inv'
    <3>1. UNCHANGED <<groups, lost, asked, outbox, todo>>
      BY <2>2 DEF vars, database, whatsapp, history
    <3> QED
      BY <2>2, <3>1, StutterType DEF BridgedOnce, AskedInv, Pending
  <2> QED
    BY <2>1, <2>2
<1>3. Inv => AskedUntilReady
  BY AskedInvEnough
<1> QED
  BY <1>1, <1>2, <1>3, PTL DEF Spec

-----------------------------------------------------------------------------
(* What the steps do to the messages, the jobs and the tasks *)

\* The downloads that run, and those whose end waits for the manager.
Jobs == downloads \cup Media

HasRow(t, m, part) == t.op = "row" /\ t.m = m /\ t.part = part
Seals(t, m)        == t = Id(m) \/ t = Push(MessageRead(m))

\* The steps that neither store a message nor begin to.
Quiet ==
  \/ Connects \/ OnEstablished \/ OnWaError \/ OnChats
  \/ GroupAssociate \/ GroupRemove \/ GroupUpdateAll
  \/ HandOverFails \/ Discard
  \/ \E d \in downloads : DownloadEnds(d)
  \/ \E c \in Orders : Order(c)
  \/ \E g \in Groups : OnNoGroupMetadata(g)
  \/ \E m \in Msgs, is_new \in BOOLEAN : Ignore(m, is_new)

\* The steps whose handler updates a group or tells of it, and stores no message.
Aside ==
  \/ \E g \in Groups : OnGotGroupMetadata(g) \/ OnGroupIntroduce(g)
                         \/ \E known \in BOOLEAN : OnGroupChange(g, known)
  \/ \E m \in Msgs, is_new \in BOOLEAN : OnMessageNotAutocreated(m, is_new)

\* The steps of the manager, by what they do to messages.
LEMMA NextSplit ==
  ASSUME Next
  PROVE  \/ Quiet \/ Aside \/ Restarted
         \/ StoreRow \/ StoreId \/ UpdateGroup \/ PushRequest \/ HandOver \/ TakeMediaFinished
         \/ \E m \in Msgs, is_new \in BOOLEAN :
              OnMessageOfOurs(m, is_new) \/ OnMessage(m, is_new) \/ OnMessageAutocreates(m, is_new)
<1>1. CASE OnMessages
  <2> PICK m \in Msgs, is_new \in BOOLEAN :
        \/ Ignore(m, is_new) \/ OnMessageTooEarly(m, is_new) \/ OnMessageOfOurs(m, is_new)
        \/ OnMessage(m, is_new)
        \/ OnMessageAutocreates(m, is_new) \/ OnMessageNotAutocreated(m, is_new)
    BY <1>1 DEF OnMessages
  <2>1. CASE OnMessageTooEarly(m, is_new)
    BY <2>1 DEF OnMessageTooEarly
  <2> QED
    BY <2>1 DEF Quiet, Aside
<1>2. CASE OnGroups
  BY <1>2 DEF OnGroups, Quiet, Aside
<1>3. CASE Manager
  BY <1>3 DEF Manager, StoreRowFails, UpdateGroupFails, Quiet
<1>4. CASE Crash
  BY <1>4 DEF Crash
<1> QED
  BY <1>1, <1>2, <1>3, <1>4 DEF Next, Quiet

\* A command that is no end of a download leaves the jobs as they are.
LEMMA JobsStay ==
  ASSUME TypeOK, downloads' = downloads,
         \/ rx' = rx
         \/ rx # <<>> /\ Head(rx).c # "media" /\ rx' = Tail(rx)
         \/ \E c \in Orders : rx' = Append(rx, c)
  PROVE  Media' = Media /\ Jobs' = Jobs
<1>1. CASE rx' = rx
  BY <1>1 DEF Media, Jobs
<1>2. CASE rx # <<>> /\ Head(rx).c # "media" /\ rx' = Tail(rx)
  <2>1. Elements(rx) = {Head(rx)} \cup Elements(rx')
    BY <1>2, CommandAtHand
  <2> QED
    BY <1>2, <2>1 DEF Media, Jobs
<1>3. ASSUME NEW c \in Orders, rx' = Append(rx, c)
      PROVE  Media' = Media
  <2>1. c \in Command /\ c.c # "media"
    BY DEF Command, Orders
  <2>2. Elements(rx') = Elements(rx) \cup {c}
    BY <1>3, <2>1, ElementsOf DEF TypeOK
  <2> QED
    BY <2>1, <2>2 DEF Media
<1> QED
  BY <1>1, <1>2, <1>3 DEF Jobs

\* The end of a download becomes a command (spawn in whatsapp_media).
LEMMA DownloadEndsJobs ==
  ASSUME TypeOK, NEW d \in downloads, DownloadEnds(d)
  PROVE  Media' = Media \cup {d} /\ Jobs' = Jobs
<1>1. Elements(rx') = Elements(rx) \cup {MediaFinished(d)}
  BY Made, ElementsOf DEF DownloadEnds, TypeOK
<1>2. MediaFinished(d).c = "media" /\ MediaFinished(d).job = d
  BY DEF MediaFinished
<1>3. Media' = Media \cup {d}
  BY <1>1, <1>2 DEF Media
<1> QED
  BY <1>3 DEF Jobs, DownloadEnds

\* A quiet step leaves the tables of messages, the tasks and the jobs alone.
LEMMA QuietStep ==
  ASSUME TypeOK, Quiet
  PROVE  /\ UNCHANGED <<todo, messages, wa_msgids, read>>
         /\ Jobs' = Jobs /\ cut \subseteq cut'
         /\ \A m \in Msgs : MessageRead(m) \in Elements(outbox') => MessageRead(m) \in Elements(outbox)
<1>1. CASE Connects \/ OnEstablished \/ OnWaError \/ OnChats
  BY <1>1, JobsStay DEF Connects, OnEstablished, OnWaError, OnChats, database, whatsapp, history
<1>2. CASE GroupAssociate
  <2>1. /\ UNCHANGED <<todo, messages, wa_msgids, read, downloads, cut>>
        /\ rx # <<>> /\ Head(rx).c # "media" /\ rx' = Tail(rx)
    BY <1>2 DEF GroupAssociate, GroupsOnly
  <2>2. GetMetadata(Head(rx).group) \in Request
    BY <1>2, CommandAtHand, Made DEF GroupAssociate
  <2>3. CASE outbox' = Append(outbox, GetMetadata(Head(rx).group))
    <3>1. Elements(outbox') = Elements(outbox) \cup {GetMetadata(Head(rx).group)}
      BY <2>2, <2>3, ElementsOf DEF TypeOK
    <3>2. \A m \in Msgs : MessageRead(m).req # GetMetadata(Head(rx).group).req
      BY DEF MessageRead, GetMetadata
    <3> QED
      BY <2>1, <3>1, <3>2, JobsStay
  <2>4. CASE outbox' = outbox
    BY <2>1, <2>4, JobsStay
  <2> QED
    BY <1>2, <2>3, <2>4 DEF GroupAssociate
<1>3. CASE GroupRemove
  BY <1>3, JobsStay DEF GroupRemove, GroupsOnly
<1>4. CASE GroupUpdateAll
  <2> DEFINE set == {GetMetadata(groups[i].jid) : i \in DOMAIN groups}
             all == SetToSeq(set)
  <2>1. /\ UNCHANGED <<todo, messages, wa_msgids, read, downloads, cut>>
        /\ rx # <<>> /\ Head(rx).c # "media" /\ rx' = Tail(rx) /\ outbox' = outbox \o all
    BY <1>4 DEF GroupUpdateAll, GroupsOnly
  <2>2. all \in Seq(Request) /\ Elements(all) \subseteq set
    BY UpdateAllType
  <2>3. \A r \in set : r.req = "metadata"
    BY DEF GetMetadata
  <2> HIDE DEF set, all
  <2>4. Elements(outbox') = Elements(outbox) \cup Elements(all)
    BY <2>1, <2>2, ElementsOf DEF TypeOK
  <2>5. \A m \in Msgs : MessageRead(m).req = "read"
    BY DEF MessageRead
  <2> QED
    BY <2>1, <2>2, <2>3, <2>4, <2>5, JobsStay
<1>5. CASE HandOverFails
  <2>1. outbox # <<>> /\ outbox' = Tail(outbox) /\ UNCHANGED <<todo, messages, wa_msgids, read, rx, downloads, cut>>
    BY <1>5 DEF HandOverFails, OutboxOnly, database
  <2> QED
    BY <2>1, RequestAtHand, JobsStay
<1>6. CASE Discard
  <2>1. outbox' = <<>> /\ UNCHANGED <<todo, messages, wa_msgids, read, rx, downloads, cut>>
    BY <1>6 DEF Discard, OutboxOnly, database
  <2> QED
    BY <2>1, JobsStay DEF Elements
<1>7. CASE \E d \in downloads : DownloadEnds(d)
  BY <1>7, DownloadEndsJobs DEF DownloadEnds, database, whatsapp, history
<1>8. CASE \E c \in Orders : Order(c)
  BY <1>8, JobsStay DEF Order, database, whatsapp, history
<1>9. CASE \E g \in Groups : OnNoGroupMetadata(g)
  BY <1>9, JobsStay DEF OnNoGroupMetadata, GroupsOnly
<1>10. CASE \E m \in Msgs, is_new \in BOOLEAN : Ignore(m, is_new)
  BY <1>10, JobsStay DEF Ignore, Told
<1> QED
  BY <1>1, <1>2, <1>3, <1>4, <1>5, <1>6, <1>7, <1>8, <1>9, <1>10 DEF Quiet

\* The tasks of a handler that stores no message: updates, requests, and the
\* notice of a bridged group.
LEMMA AsideStep ==
  ASSUME TypeOK, Aside
  PROVE  /\ todo = <<>> /\ UNCHANGED <<rx, outbox, downloads, messages, wa_msgids, read>>
         /\ Jobs' = Jobs /\ cut \subseteq cut'
         /\ \A t \in Elements(todo') :
              \/ \E g \in Groups : t \in {Update(g), Push(GetMetadata(g))}
              \/ \E g \in Groups : Bridged(g) /\ groups' = groups /\ next_gid' = next_gid
                                    /\ t = Row(Notice(g), "text", GidOf(g))
<1>1. \A g \in Groups :
        /\ Elements(<<Update(g)>>) = {Update(g)} /\ Elements(<<Update(g), Update(g)>>) = {Update(g)}
        /\ Elements(<<Push(GetMetadata(g))>>) = {Push(GetMetadata(g))}
  BY DEF Elements
<1>2. Elements(<<>>) = {}
  BY DEF Elements
<1>3. ASSUME NEW g \in Groups, OnGotGroupMetadata(g) \/ OnGroupIntroduce(g)
      PROVE  /\ todo = <<>> /\ UNCHANGED <<rx, outbox, downloads, messages, wa_msgids, read, cut>>
             /\ todo' \in {<<>>, <<Update(g)>>, <<Update(g), Update(g)>>}
  BY <1>3 DEF OnGotGroupMetadata, OnGroupIntroduce, GroupsOnly
<1>4. ASSUME NEW g \in Groups, NEW known \in BOOLEAN, OnGroupChange(g, known)
      PROVE  /\ todo = <<>> /\ UNCHANGED <<rx, outbox, downloads, messages, wa_msgids, read, cut>>
             /\ groups' = groups /\ next_gid' = next_gid
             /\ todo' # <<>> => Bridged(g)
             /\ \A t \in Elements(todo') : t \in {Row(Notice(g), "text", GidOf(g)), Push(GetMetadata(g))}
  <2>1. /\ todo = <<>> /\ UNCHANGED <<rx, outbox, downloads, messages, wa_msgids, read, cut>>
        /\ groups' = groups /\ next_gid' = next_gid
    BY <1>4 DEF OnGroupChange, GroupsOnly, NoNewGroup
  <2>2. CASE Bridged(g)
    <3> DEFINE told == IF known THEN <<Row(Notice(g), "text", GidOf(g))>> ELSE <<>>
               asks == <<Push(GetMetadata(g))>>
    <3>1. Row(Notice(g), "text", GidOf(g)) \in Task /\ Push(GetMetadata(g)) \in Task
      BY <2>2, GidType, Made DEF Parts
    <3>2. told \in Seq(Task) /\ asks \in Seq(Task)
      BY <3>1
    <3>3. Elements(told) \subseteq {Row(Notice(g), "text", GidOf(g))}
      BY <1>2 DEF Elements
    <3>4. todo' = told \o asks
      BY <1>4, <2>2 DEF OnGroupChange
    <3>5. Elements(asks) = {Push(GetMetadata(g))}
      BY <1>1
    <3> HIDE DEF told, asks
    <3>6. Elements(todo') = Elements(told) \cup Elements(asks)
      BY <3>2, <3>4, ElementsOf
    <3> QED
      BY <2>1, <2>2, <3>3, <3>5, <3>6
  <2>3. CASE ~Bridged(g)
    <3>1. todo' = <<>>
      BY <1>4, <2>3 DEF OnGroupChange
    <3> QED
      BY <1>2, <2>1, <3>1
  <2> QED
    BY <2>2, <2>3
<1>5. ASSUME NEW m \in Msgs, NEW is_new \in BOOLEAN, OnMessageNotAutocreated(m, is_new)
      PROVE  /\ todo = <<>> /\ UNCHANGED <<rx, outbox, downloads, messages, wa_msgids, read>>
             /\ cut \subseteq cut' /\ m.chat \in Groups /\ todo' = <<Push(GetMetadata(m.chat))>>
  BY <1>5 DEF OnMessageNotAutocreated, ToAutocreate, Told, Tells
<1>6. CASE \E g \in Groups : OnGotGroupMetadata(g) \/ OnGroupIntroduce(g)
  BY <1>1, <1>2, <1>3, <1>6, JobsStay
<1>7. CASE \E g \in Groups, known \in BOOLEAN : OnGroupChange(g, known)
  <2> PICK g \in Groups, known \in BOOLEAN : OnGroupChange(g, known)
    BY <1>7
  <2>1. todo' = <<>> \/ Bridged(g)
    BY <1>4
  <2> QED
    BY <1>2, <1>4, <2>1, JobsStay
<1>8. CASE \E m \in Msgs, is_new \in BOOLEAN : OnMessageNotAutocreated(m, is_new)
  BY <1>1, <1>5, <1>8, JobsStay
<1> QED
  BY <1>6, <1>7, <1>8 DEF Aside

\* None of these tasks makes a message count as seen, and they store only
\* notices.
LEMMA AsideTasks ==
  ASSUME TypeOK, Aside, NEW t \in Elements(todo')
  PROVE  /\ \A m \in Msgs : ~Seals(t, m)
         /\ t.op = "row" => t.m \in Notices
<1>1. \A g \in Groups :
        /\ Update(g).op = "update" /\ Push(GetMetadata(g)).op = "push"
        /\ Push(GetMetadata(g)).req.req = "metadata"
        /\ Row(Notice(g), "text", GidOf(g)).op = "row"
        /\ Row(Notice(g), "text", GidOf(g)).m = Notice(g) /\ Notice(g) \in Notices
  BY Made DEF Update, Push, GetMetadata, Row
<1>2. \A m \in Msgs : /\ Id(m).op = "id" /\ Push(MessageRead(m)).op = "push"
                        /\ Push(MessageRead(m)).req.req = "read"
  BY DEF Id, Push, MessageRead
<1>3. \/ \E g \in Groups : t \in {Update(g), Push(GetMetadata(g))}
      \/ \E g \in Groups : t = Row(Notice(g), "text", GidOf(g))
  BY AsideStep
<1> QED
  BY <1>1, <1>2, <1>3 DEF Seals

\* on_message for a message that is stored, in a group that is there or is made
\* for it, in which case its metadata is asked first.
LEMMA MessageStep ==
  ASSUME TypeOK, NEW m \in Msgs, NEW is_new \in BOOLEAN,
         OnMessage(m, is_new) \/ OnMessageAutocreates(m, is_new)
  PROVE  /\ Told(m, is_new) /\ ~Rejected(m, is_new) /\ todo = <<>>
         /\ UNCHANGED <<rx, outbox, messages, wa_msgids, read>> /\ cut \subseteq cut'
         /\ \E gid \in Nat :
              /\ StartDownload(m, gid)
              /\ todo' = Tasks(m, gid) \/ todo' = <<Push(GetMetadata(m.chat))>> \o Tasks(m, gid)
              /\ todo' = Tasks(m, gid) \/ m.chat \in Groups
              /\ gid < next_gid'
              /\ gid = NoGroup => m.chat = Person
              /\ gid # NoGroup => gid \in DOMAIN groups' /\ groups'[gid].jid = m.chat
<1>1. /\ Told(m, is_new) /\ ~Rejected(m, is_new) /\ todo = <<>>
      /\ UNCHANGED <<rx, outbox, messages, wa_msgids, read>> /\ cut \subseteq cut'
  BY DEF OnMessage, OnMessageAutocreates, ToAutocreate, Told, Tells
<1>2. CASE OnMessage(m, is_new)
  <2>1. PICK gid \in {NoGroup} \cup DOMAIN groups :
          /\ IF gid = NoGroup THEN m.chat = Person /\ ~m.ours ELSE groups[gid].jid = m.chat
          /\ todo' = Tasks(m, gid) /\ StartDownload(m, gid)
    BY <1>2 DEF OnMessage
  <2>2. groups' = groups /\ next_gid' = next_gid
    BY <1>2 DEF OnMessage, NoNewGroup
  <2>3. gid \in Nat /\ gid < next_gid
    BY DEF NoGroup, TypeOK, IsPartial
  <2> QED
    BY <1>1, <2>1, <2>2, <2>3
<1>3. CASE OnMessageAutocreates(m, is_new)
  <2>1. /\ m.chat \in Groups /\ StoreGroup(m.chat, Subject[m.chat])
        /\ todo' = <<Push(GetMetadata(m.chat))>> \o Tasks(m, next_gid)
        /\ StartDownload(m, next_gid)
    BY <1>3 DEF OnMessageAutocreates, ToAutocreate
  <2>2. Subject[m.chat] \in Channels
    BY <2>1, ReceiveAssumption
  <2>3. /\ next_gid' = next_gid + 1 /\ DOMAIN groups' = DOMAIN groups \cup {next_gid}
        /\ groups'[next_gid] = [jid |-> m.chat, channel |-> Subject[m.chat], ready |-> FALSE]
    BY <2>1, <2>2, StoreGroupType
  <2>4. next_gid \in Nat \ {0} /\ next_gid < next_gid' /\ groups'[next_gid].jid = m.chat
    BY <2>3 DEF TypeOK
  <2> QED
    BY <1>1, <2>1, <2>3, <2>4 DEF NoGroup
<1> QED
  BY <1>2, <1>3

\* The tasks of a message, after k others: its rows, then what makes it count as
\* seen, unless that waits for its file.
TasksOf(ts, m, gid, k) ==
  /\ \A i \in 1 .. Len(Texts(m)) : k + i \in DOMAIN ts /\ ts[k + i] = Row(m, Texts(m)[i], gid)
  /\ \A i \in DOMAIN ts :
       \/ i = k /\ \E g \in Groups : ts[i] = Push(GetMetadata(g))
       \/ \E j \in 1 .. Len(Texts(m)) : i = k + j
       \/ i > k + Len(Texts(m)) /\ ~m.file /\ ts[i] \in {Id(m), Push(MessageRead(m))}
  /\ m.text /\ ~m.file => Id(m) \in Elements(ts)

\* Whether its group is made for it or not, on_message has these to do for it.
LEMMA MessageTasks ==
  ASSUME TypeOK, NEW m \in Msgs, NEW gid \in Nat, NEW ts,
         \/ ts = Tasks(m, gid)
         \/ ts = <<Push(GetMetadata(m.chat))>> \o Tasks(m, gid) /\ m.chat \in Groups
  PROVE  \E k \in {0, 1} : TasksOf(ts, m, gid, k)
<1> DEFINE n == Len(Texts(m))
<1>1. n \in Nat
  BY TextsShape
<1>2. CASE ts = Tasks(m, gid)
  <2>1. \A i \in 1 .. n : 0 + i = i
    OBVIOUS
  <2>2. 0 + n = n
    BY <1>1
  <2>3. \A i \in DOMAIN ts : i \in 1 .. n \/ (i > n /\ ~m.file /\ ts[i] \in {Id(m), Push(MessageRead(m))})
    BY <1>2, TasksShape
  <2>4. TasksOf(ts, m, gid, 0)
    BY <1>2, <2>1, <2>2, <2>3, TasksShape DEF TasksOf
  <2> QED
    BY <2>4
<1>3. CASE ts = <<Push(GetMetadata(m.chat))>> \o Tasks(m, gid) /\ m.chat \in Groups
  <2> DEFINE first == <<Push(GetMetadata(m.chat))>>
             rest  == Tasks(m, gid)
  <2>1. first \in Seq(Task) /\ Len(first) = 1 /\ first[1] = Push(GetMetadata(m.chat))
    BY <1>3, Made, SeqType
  <2>2. /\ rest \in Seq(Task)
        /\ \A i \in 1 .. n : i \in DOMAIN rest /\ rest[i] = Row(m, Texts(m)[i], gid)
        /\ \A i \in DOMAIN rest :
             i \in 1 .. n \/ (i > n /\ ~m.file /\ rest[i] \in {Id(m), Push(MessageRead(m))})
        /\ m.text /\ ~m.file => Id(m) \in Elements(rest)
    BY TasksShape
  <2>3. ts = first \o rest
    BY <1>3
  <2> HIDE DEF first, rest, n
  <2>4. /\ ts \in Seq(Task) /\ Len(ts) = 1 + Len(rest)
        /\ \A i \in 1 .. 1 : ts[i] = first[i]
        /\ \A i \in 1 .. Len(rest) : ts[1 + i] = rest[i]
    <3>1. first \in Seq(Task) /\ rest \in Seq(Task)
      BY <2>1, <2>2
    <3>2. /\ first \o rest \in Seq(Task) /\ Len(first \o rest) = Len(first) + Len(rest)
          /\ \A i \in 1 .. Len(first) : (first \o rest)[i] = first[i]
          /\ \A i \in 1 .. Len(rest) : (first \o rest)[Len(first) + i] = rest[i]
      BY <3>1, ConcatProperties
    <3> QED
      BY <2>1, <2>3, <3>2
  <2>5. DOMAIN rest = 1 .. Len(rest) /\ DOMAIN ts = 1 .. 1 + Len(rest) /\ Len(rest) \in Nat
    BY <2>2, <2>4
  <2>6. \A i \in DOMAIN ts : i = 1 \/ \E j \in DOMAIN rest : i = 1 + j /\ ts[i] = rest[j]
    <3> SUFFICES ASSUME NEW i \in DOMAIN ts, i # 1
                 PROVE  \E j \in DOMAIN rest : i = 1 + j /\ ts[i] = rest[j]
      OBVIOUS
    <3>1. i - 1 \in DOMAIN rest /\ i = 1 + (i - 1)
      BY <2>5
    <3> QED
      BY <2>4, <2>5, <3>1
  <2>7. \A i \in 1 .. n : 1 + i \in DOMAIN ts /\ ts[1 + i] = Row(m, Texts(m)[i], gid)
    BY <1>1, <2>2, <2>4, <2>5
  <2>8. m.text /\ ~m.file => Id(m) \in Elements(ts)
    BY <2>1, <2>2, <2>3, ElementsOf
  <2>9. ASSUME NEW i \in DOMAIN ts
        PROVE  \/ i = 1 /\ \E g \in Groups : ts[i] = Push(GetMetadata(g))
               \/ \E j \in 1 .. n : i = 1 + j
               \/ i > 1 + n /\ ~m.file /\ ts[i] \in {Id(m), Push(MessageRead(m))}
    <3>1. CASE i = 1
      BY <1>3, <2>1, <2>4, <3>1
    <3>2. CASE i # 1
      <4>1. PICK j \in DOMAIN rest : i = 1 + j /\ ts[i] = rest[j]
        BY <2>6, <3>2
      <4> QED
        BY <1>1, <2>2, <2>5, <4>1
    <3> QED
      BY <3>1, <3>2
  <2>10. TasksOf(ts, m, gid, 1)
    BY <2>7, <2>8, <2>9 DEF TasksOf, n
  <2> QED
    BY <2>10
<1> QED
  BY <1>2, <1>3

\* StartDownload makes one job, for a message that has a file.
LEMMA StartDownloadJobs ==
  ASSUME TypeOK, NEW m \in Msgs, NEW gid \in Nat, StartDownload(m, gid), rx' = rx
  PROVE  /\ Media' = Media
         /\ \A d \in Jobs' : d \in Jobs \/ (m.file /\ d.m = m /\ d.gid = gid)
         /\ Jobs \subseteq Jobs'
         /\ m.file => \E d \in Jobs' : d.m = m
         /\ \A d, e \in Jobs' : d \notin Jobs /\ e \notin Jobs => d = e
<1>1. Media' = Media
  BY DEF Media
<1>2. CASE m.file
  <2> DEFINE job == [m |-> m, gid |-> gid, n |-> inputs']
  <2>1. job.m = m /\ job.gid = gid
    OBVIOUS
  <2>2. Jobs' = Jobs \cup {job}
    BY <1>1, <1>2 DEF StartDownload, Jobs
  <2> HIDE DEF job
  <2> QED
    BY <1>1, <1>2, <2>1, <2>2
<1>3. CASE ~m.file
  BY <1>1, <1>3 DEF StartDownload, Jobs
<1> QED
  BY <1>2, <1>3

\* process_media_finished takes one job off.
LEMMA TakeMediaJobs ==
  ASSUME TypeOK, TakeMediaFinished
  PROVE  /\ Jobs' \subseteq Jobs /\ Head(rx).job \in Media /\ Head(rx).job \in Job
         /\ Media = Media' \cup {Head(rx).job}
<1>1. /\ rx # <<>> /\ Head(rx).c = "media" /\ rx' = Tail(rx) /\ downloads' = downloads
      /\ Elements(rx) = {Head(rx)} \cup Elements(rx')
  BY CommandAtHand DEF TakeMediaFinished
<1>2. Media = Media' \cup {Head(rx).job}
  BY <1>1 DEF Media
<1> QED
  BY <1>1, <1>2, CommandAtHand DEF Jobs

\* What was stored stays stored; a row that is stored is the one at hand.
LEMMA MessagesGrow ==
  ASSUME TypeOK, Next
  PROVE  /\ \A m, part : IsStored(m, part) => IsStored(m, part)'
         /\ ~StoreRow => messages' = messages
<1>1. CASE StoreRow
  <2>1. DOMAIN messages \subseteq DOMAIN messages'
    BY <1>1 DEF StoreRow, Put
  <2> QED
    BY <1>1, <2>1 DEF IsStored
<1>2. CASE ~StoreRow
  <2>1. messages' = messages
    <3>1. ASSUME NEW m \in Msgs, NEW is_new \in BOOLEAN, OnMessageOfOurs(m, is_new)
          PROVE  messages' = messages
      BY <3>1 DEF OnMessageOfOurs, Told
    <3>2. CASE Restarted
      BY <3>2 DEF Restarted, database
    <3>3. CASE StoreId \/ UpdateGroup \/ PushRequest \/ HandOver \/ TakeMediaFinished
      BY <3>3 DEF StoreId, UpdateGroup, PushRequest, HandOver, TakeMediaFinished, OutboxOnly, database
    <3> QED
      BY <1>2, <3>1, <3>2, <3>3, NextSplit, QuietStep, AsideStep, MessageStep
  <2> QED
    BY <1>2, <2>1 DEF IsStored
<1> QED
  BY <1>1, <1>2

-----------------------------------------------------------------------------
(* Messages are stored for the chat that they were sent to *)

\* Where a row or a download will go: its group has the id that the group of
\* the message has, or had before it was removed, and no later one.
Fits(m, gid) ==
  /\ gid < next_gid
  /\ gid = NoGroup => m.chat = Person
  /\ gid \in DOMAIN groups => groups[gid].jid = m.chat

ChatInv ==
  /\ RightChat
  /\ \A t \in Elements(todo) : t.op = "row" => Fits(t.m, t.gid)
  /\ \A d \in Jobs : Fits(d.m, d.gid)

\* An id of a group that was used is never that of another one (the serial of
\* wa_groups).
LEMMA GidsStay ==
  ASSUME TypeOK, Next
  PROVE  /\ next_gid \in Nat /\ next_gid' \in Nat /\ next_gid <= next_gid'
         /\ \A i \in DOMAIN groups' :
              i < next_gid => i \in DOMAIN groups /\ groups'[i].jid = groups[i].jid
<1>0. next_gid \in Nat /\ \A i \in DOMAIN groups : i < next_gid
  BY DEF TypeOK, IsPartial
<1>1. ASSUME NEW g \in Groups, NEW c \in Channels, StoreGroup(g, c)
      PROVE  /\ next_gid' = next_gid + 1
             /\ \A i \in DOMAIN groups' : i < next_gid => i \in DOMAIN groups /\ groups'[i] = groups[i]
  <2>1. /\ DOMAIN groups' = DOMAIN groups \cup {next_gid} /\ next_gid' = next_gid + 1
        /\ \A i \in DOMAIN groups : groups'[i] = groups[i]
    BY <1>1, StoreGroupType
  <2> QED
    BY <1>0, <2>1
<1>2. CASE StoreRow \/ StoreId \/ PushRequest
  BY <1>0, <1>2 DEF StoreRow, StoreId, PushRequest, TasksOnly
<1>3. CASE Restarted
  BY <1>0, <1>3 DEF Restarted, database
<1>4. CASE UpdateGroup
  <2> DEFINE i == GidOf(Head(todo).group)
  <2>1. groups' = [groups EXCEPT ![i] = [groups[i] EXCEPT !.ready = TRUE]] /\ next_gid' = next_gid
    BY <1>4 DEF UpdateGroup, TasksOnly
  <2>2. \A j \in DOMAIN groups : groups[j] \in Bridge
    BY DEF TypeOK, IsPartial
  <2> HIDE DEF i
  <2>3. DOMAIN groups' = DOMAIN groups /\ \A j \in DOMAIN groups : groups'[j].jid = groups[j].jid
    BY <2>1, <2>2 DEF Bridge
  <2> QED
    BY <1>0, <2>1, <2>3
<1>5. CASE GroupAssociate
  BY <1>0, <1>1, <1>5, CommandAtHand DEF GroupAssociate, NoNewGroup
<1>6. CASE GroupRemove
  <2>1. next_gid' = next_gid /\ \A i \in DOMAIN groups' : i \in DOMAIN groups /\ groups'[i] = groups[i]
    BY <1>6 DEF GroupRemove, Without
  <2> QED
    BY <1>0, <2>1
<1>7. CASE GroupUpdateAll \/ TakeMediaFinished \/ HandOver \/ HandOverFails \/ Discard
  BY <1>0, <1>7 DEF GroupUpdateAll, NoNewGroup, TakeMediaFinished, HandOver, HandOverFails, Discard,
                    OutboxOnly, database
<1>8. CASE OnMessages
  <2> PICK m \in Msgs, is_new \in BOOLEAN :
        \/ Ignore(m, is_new) \/ OnMessageTooEarly(m, is_new) \/ OnMessageOfOurs(m, is_new)
        \/ OnMessage(m, is_new)
        \/ OnMessageAutocreates(m, is_new) \/ OnMessageNotAutocreated(m, is_new)
    BY <1>8 DEF OnMessages
  <2>1. CASE OnMessageAutocreates(m, is_new)
    <3>1. m.chat \in Groups /\ StoreGroup(m.chat, Subject[m.chat])
      BY <2>1 DEF OnMessageAutocreates, ToAutocreate
    <3> QED
      BY <1>0, <1>1, <3>1, ReceiveAssumption
  <2>2. CASE OnMessageTooEarly(m, is_new)
    BY <1>3, <2>2 DEF OnMessageTooEarly
  <2> QED
    BY <1>0, <2>1, <2>2 DEF Ignore, OnMessageOfOurs, OnMessage, OnMessageNotAutocreated, NoNewGroup
<1>9. CASE OnGroups
  <2> PICK g \in Groups :
        \/ OnGotGroupMetadata(g) \/ OnNoGroupMetadata(g) \/ OnGroupIntroduce(g)
        \/ \E known \in BOOLEAN : OnGroupChange(g, known)
    BY <1>9 DEF OnGroups
  <2>1. Subject[g] \in Channels
    BY ReceiveAssumption
  <2> QED
    BY <1>0, <1>1, <2>1 DEF OnGotGroupMetadata, OnNoGroupMetadata, OnGroupIntroduce, OnGroupChange, NoNewGroup
<1>10. CASE Connects \/ OnEstablished \/ OnWaError \/ OnChats
  BY <1>0, <1>10 DEF Connects, OnEstablished, OnWaError, OnChats, database
<1>11. CASE (\E d \in downloads : DownloadEnds(d)) \/ \E c \in Orders : Order(c)
  BY <1>0, <1>11 DEF DownloadEnds, Order, database
<1>12. CASE Crash \/ StoreRowFails \/ UpdateGroupFails
  BY <1>3, <1>12 DEF Crash, StoreRowFails, UpdateGroupFails
<1> QED
  BY <1>2, <1>4, <1>5, <1>6, <1>7, <1>8, <1>9, <1>10, <1>11, <1>12 DEF Next, Manager

\* So where a row or a download belongs, it belongs ever after.
LEMMA FitsStays ==
  ASSUME TypeOK, Next, NEW m, NEW gid \in Nat, Fits(m, gid)
  PROVE  Fits(m, gid)'
BY GidsStay DEF Fits

\* Rows in todo and jobs have groups, or none, that are numbers.
LEMMA GidsType ==
  ASSUME TypeOK
  PROVE  /\ \A t \in Elements(todo) : t.op = "row" => t.gid \in Nat
         /\ \A d \in Jobs : d.gid \in Nat
<1>1. Elements(todo) \subseteq Task
  BY ElementsOf DEF TypeOK
<1>2. Jobs \subseteq Job
  BY MediaType DEF Jobs, TypeOK
<1> QED
  BY <1>1, <1>2 DEF Task, Job

\* Every step keeps ChatInv.
LEMMA ChatInvNext ==
  ASSUME TypeOK, ChatInv, Next
  PROVE  ChatInv'
<1>1. ASSUME messages' = messages PROVE RightChat'
  BY <1>1 DEF ChatInv, RightChat
<1>2. \A t \in Elements(todo) : t.op = "row" => Fits(t.m, t.gid)'
  BY FitsStays, GidsType DEF ChatInv
<1>3. \A d \in Jobs : Fits(d.m, d.gid)'
  BY FitsStays, GidsType DEF ChatInv
<1>4. ASSUME RightChat',
             \A t \in Elements(todo') : t.op = "row" => t \in Elements(todo) \/ Fits(t.m, t.gid)',
             \A d \in Jobs' : d \in Jobs \/ Fits(d.m, d.gid)'
      PROVE  ChatInv'
  BY <1>2, <1>3, <1>4 DEF ChatInv
<1>5. CASE StoreRow
  <2> DEFINE task == Head(todo)
             row  == [m |-> task.m, part |-> task.part,
                      to |-> IF task.gid = NoGroup THEN Person ELSE groups[task.gid].jid]
  <2>1. /\ todo # <<>> /\ task.op = "row" /\ task.gid \in {NoGroup} \cup DOMAIN groups
        /\ DOMAIN messages' = DOMAIN messages \cup {row} /\ todo' = Tail(todo)
        /\ UNCHANGED <<rx, downloads>>
    BY <1>5 DEF StoreRow, Put, TasksOnly
  <2>2. task \in Elements(todo) /\ Elements(todo') \subseteq Elements(todo)
    BY <2>1, TaskAtHand
  <2>3. Fits(task.m, task.gid)
    BY <2>1, <2>2 DEF ChatInv
  <2>4. row.to = row.m.chat
    BY <2>1, <2>3 DEF Fits
  <2> HIDE DEF row
  <2>5. RightChat'
    BY <2>1, <2>4 DEF ChatInv, RightChat
  <2> QED
    BY <1>4, <2>1, <2>2, <2>5, JobsStay
<1>6. CASE StoreId \/ UpdateGroup \/ PushRequest
  <2>1. todo # <<>> /\ todo' = Tail(todo) /\ UNCHANGED <<rx, downloads, messages>>
    BY <1>6 DEF StoreId, UpdateGroup, PushRequest, TasksOnly
  <2> QED
    BY <1>1, <1>4, <2>1, TaskAtHand, JobsStay
<1>7. CASE Restarted
  <2>1. messages' = messages /\ todo' = <<>> /\ rx' = <<>> /\ downloads' = {}
    BY <1>7 DEF Restarted, database
  <2>2. Elements(todo') = {} /\ Jobs' = {}
    BY <2>1 DEF Elements, Jobs, Media
  <2> QED
    BY <1>1, <1>4, <2>1, <2>2
<1>8. CASE Quiet
  <2>1. todo' = todo /\ messages' = messages /\ Jobs' = Jobs
    BY <1>8, QuietStep
  <2> QED
    BY <1>1, <1>4, <2>1
<1>9. CASE Aside
  <2>1. messages' = messages /\ Jobs' = Jobs
    BY <1>9, AsideStep
  <2>2. ASSUME NEW t \in Elements(todo'), t.op = "row"
        PROVE  Fits(t.m, t.gid)'
    <3>1. \A g \in Groups : Update(g).op = "update" /\ Push(GetMetadata(g)).op = "push"
      BY DEF Update, Push
    <3>2. PICK g \in Groups : /\ Bridged(g) /\ groups' = groups /\ next_gid' = next_gid
                             /\ t = Row(Notice(g), "text", GidOf(g))
      BY <1>9, <2>2, <3>1, AsideStep
    <3>3. t.m.chat = g /\ t.gid = GidOf(g)
      BY <3>2 DEF Row, Notice
    <3>4. Fits(t.m, t.gid)
      BY <3>2, <3>3, GidType DEF Fits, NoGroup
    <3> QED
      BY <3>2, <3>4 DEF Fits
  <2> QED
    BY <1>1, <1>4, <2>1, <2>2
<1>10. CASE HandOver
  <2>1. UNCHANGED <<todo, messages, rx, downloads>>
    BY <1>10 DEF HandOver, OutboxOnly, database
  <2> QED
    BY <1>1, <1>4, <2>1, JobsStay
<1>11. CASE TakeMediaFinished
  <2> DEFINE d == Head(rx).job
  <2>1. messages' = messages /\ todo' = FileTasks(d)
    BY <1>11 DEF TakeMediaFinished, database
  <2>2. Jobs' \subseteq Jobs /\ d \in Jobs /\ d \in Job
    BY <1>11, TakeMediaJobs DEF Jobs
  <2> HIDE DEF d
  <2>3. ASSUME NEW t \in Elements(todo'), t.op = "row"
        PROVE  Fits(t.m, t.gid)'
    <3>1. /\ Id(d.m).op = "id" /\ Push(MessageRead(d.m)).op = "push"
          /\ Row(d.m, "file", d.gid).m = d.m /\ Row(d.m, "file", d.gid).gid = d.gid
      BY DEF Id, Push, Row
    <3>2. t = Row(d.m, "file", d.gid)
      BY <2>1, <2>2, <2>3, <3>1, FileTasksShape DEF Elements
    <3> QED
      BY <1>3, <2>2, <3>1, <3>2
  <2> QED
    BY <1>1, <1>4, <2>1, <2>2, <2>3
<1>12. ASSUME NEW m \in Msgs, NEW is_new \in BOOLEAN, OnMessageOfOurs(m, is_new)
       PROVE  ChatInv'
  <2>1. todo' = <<Id(m)>> /\ UNCHANGED <<messages, rx, downloads>>
    BY <1>12 DEF OnMessageOfOurs, Told
  <2>2. \A t \in Elements(todo') : t.op # "row"
    BY <2>1 DEF Elements, Id
  <2> QED
    BY <1>1, <1>4, <2>1, <2>2, JobsStay
<1>13. ASSUME NEW m \in Msgs, NEW is_new \in BOOLEAN, OnMessage(m, is_new) \/ OnMessageAutocreates(m, is_new)
       PROVE  ChatInv'
  <2>1. PICK gid \in Nat :
          /\ StartDownload(m, gid)
          /\ todo' = Tasks(m, gid) \/ todo' = <<Push(GetMetadata(m.chat))>> \o Tasks(m, gid)
          /\ todo' = Tasks(m, gid) \/ m.chat \in Groups
          /\ gid < next_gid'
          /\ gid = NoGroup => m.chat = Person
          /\ gid # NoGroup => gid \in DOMAIN groups' /\ groups'[gid].jid = m.chat
    BY <1>13, MessageStep
  <2>2. PICK k \in {0, 1} : TasksOf(todo', m, gid, k)
    BY <2>1, MessageTasks
  <2>3. messages' = messages /\ rx' = rx
    BY <1>13, MessageStep
  <2>4. Fits(m, gid)'
    <3>1. NoGroup \notin DOMAIN groups'
      <4>1. TypeOK'
        BY NextType
      <4> QED
        BY <4>1 DEF TypeOK, IsPartial, NoGroup
    <3> QED
      BY <2>1, <3>1 DEF Fits
  <2>5. ASSUME NEW t \in Elements(todo'), t.op = "row"
        PROVE  t.m = m /\ t.gid = gid
    <3>1. PICK i \in DOMAIN todo' : t = todo'[i]
      BY DEF Elements
    <3>2. /\ Id(m).op = "id" /\ Push(MessageRead(m)).op = "push"
          /\ \A g \in Groups : Push(GetMetadata(g)).op = "push"
          /\ \A part : Row(m, part, gid).m = m /\ Row(m, part, gid).gid = gid
      BY DEF Id, Push, Row
    <3>3. PICK j \in 1 .. Len(Texts(m)) : i = k + j
      BY <2>2, <2>5, <3>1, <3>2 DEF TasksOf
    <3> QED
      BY <2>2, <3>1, <3>2, <3>3 DEF TasksOf
  <2>6. \A d \in Jobs' : d \in Jobs \/ (d.m = m /\ d.gid = gid)
    BY <2>1, <2>3, StartDownloadJobs
  <2>7. \A t \in Elements(todo') : t.op = "row" => Fits(t.m, t.gid)'
    BY <2>4, <2>5
  <2>8. \A d \in Jobs' : d \in Jobs \/ Fits(d.m, d.gid)'
    BY <2>4, <2>6
  <2> QED
    BY <1>1, <1>4, <2>3, <2>7, <2>8
<1> QED
  BY <1>5, <1>6, <1>7, <1>8, <1>9, <1>10, <1>11, <1>12, <1>13, NextSplit

\* A message is stored for the chat that it was sent to, whatever groups are
\* removed and bridged while its file is downloaded.
THEOREM ChatsAreRight == Spec => []RightChat
<1> DEFINE Inv == TypeOK /\ ChatInv
<1>1. Init => Inv
  <2> SUFFICES ASSUME Init PROVE ChatInv
    BY InitType
  <2>1. DOMAIN messages = {} /\ Elements(todo) = {} /\ Jobs = {}
    BY DEF Init, Empty, Elements, Jobs, Media
  <2> QED
    BY <2>1 DEF ChatInv, RightChat
<1>2. Inv /\ [Next]_vars => Inv'
  <2>1. ASSUME Inv, Next PROVE Inv'
    BY <2>1, NextType, ChatInvNext
  <2>2. ASSUME Inv, UNCHANGED vars PROVE Inv'
    <3>1. UNCHANGED <<groups, next_gid, messages, todo, rx, downloads>>
      BY <2>2 DEF vars, database
    <3> QED
      BY <2>2, <3>1, StutterType DEF ChatInv, RightChat, Fits, Jobs, Media
  <2> QED
    BY <2>1, <2>2
<1>3. Inv => RightChat
  BY DEF ChatInv
<1> QED
  BY <1>1, <1>2, <1>3, PTL DEF Spec

-----------------------------------------------------------------------------
(* What counts as seen is stored *)

\* The parts that a message is stored in, and whether it may count as seen.
Needed(m) == Elements(Texts(m)) \cup (IF m.file THEN {"file"} ELSE {})
Good(m)   == (\A part \in Needed(m) : IsStored(m, part)) \/ (m.ours /\ m.chat = Person)

\* Whatever makes a message count as seen comes after its rows: in the tables,
\* in the outbox, in what a handler still does, and when a download has ended.
Ahead(ts, i, m, part) == \E j \in DOMAIN ts : j < i /\ HasRow(ts[j], m, part)
RowsFirst ==
  \A i \in DOMAIN todo, m \in Msgs : Seals(todo[i], m) =>
    Good(m) \/ \A part \in Needed(m) : IsStored(m, part) \/ Ahead(todo, i, m, part)

Captioned ==
  \A d \in Jobs : \A part \in Elements(Texts(d.m)) :
    IsStored(d.m, part) \/ \E j \in DOMAIN todo : HasRow(todo[j], d.m, part)

SeenInv ==
  /\ \A m \in wa_msgids \cup read : Good(m)
  /\ \A m \in Msgs : MessageRead(m) \in Elements(outbox) => Good(m)
  /\ RowsFirst
  /\ Captioned

\* What was stored stays so.
LEMMA GoodStays ==
  ASSUME TypeOK, Next, NEW m, Good(m)
  PROVE  Good(m)'
BY MessagesGrow DEF Good, Needed, Texts, Elements

\* The tasks behind the one at hand, one place further on.
LEMMA TailOf ==
  ASSUME TypeOK, todo # <<>>, todo' = Tail(todo)
  PROVE  /\ 1 \in DOMAIN todo /\ todo[1] = Head(todo) /\ DOMAIN todo \subseteq Nat \ {0}
         /\ \A i \in DOMAIN todo' : i \in Nat \ {0} /\ i + 1 \in DOMAIN todo /\ todo'[i] = todo[i + 1]
         /\ \A i \in DOMAIN todo : i # 1 => i - 1 \in DOMAIN todo' /\ todo'[i - 1] = todo[i]
<1>1. todo \in Seq(Task)
  BY DEF TypeOK
<1> QED
  BY <1>1

\* When a task is done, and it stored its row if it had one, the rows that the
\* others wait for are stored or still ahead of them.
LEMMA RowsFirstTail ==
  ASSUME TypeOK, Next, SeenInv, todo # <<>>, todo' = Tail(todo),
         \A m, part : HasRow(Head(todo), m, part) => IsStored(m, part)'
  PROVE  /\ RowsFirst'
         /\ \A d \in Jobs : \A part \in Elements(Texts(d.m)) :
              IsStored(d.m, part)' \/ \E j \in DOMAIN todo' : HasRow(todo'[j], d.m, part)
<1>1. /\ 1 \in DOMAIN todo /\ todo[1] = Head(todo) /\ DOMAIN todo \subseteq Nat \ {0}
      /\ \A i \in DOMAIN todo' : i \in Nat \ {0} /\ i + 1 \in DOMAIN todo /\ todo'[i] = todo[i + 1]
      /\ \A i \in DOMAIN todo : i # 1 => i - 1 \in DOMAIN todo' /\ todo'[i - 1] = todo[i]
  BY TailOf
<1>2. \A m, part : IsStored(m, part) => IsStored(m, part)'
  BY MessagesGrow
<1>3. \A m, part : HasRow(todo[1], m, part) => IsStored(m, part)'
  BY <1>1
<1>4. ASSUME NEW i \in DOMAIN todo', NEW m \in Msgs, Seals(todo'[i], m)
      PROVE  Good(m)' \/ \A part \in Needed(m) : IsStored(m, part)' \/ Ahead(todo', i, m, part)
  <2>1. CASE Good(m)
    BY <2>1, GoodStays
  <2>2. CASE ~Good(m)
    <3> SUFFICES ASSUME NEW part \in Needed(m), ~IsStored(m, part)'
                 PROVE  Ahead(todo', i, m, part)
      OBVIOUS
    <3>1. i + 1 \in DOMAIN todo /\ Seals(todo[i + 1], m)
      BY <1>1, <1>4
    <3>2. PICK j \in DOMAIN todo : j < i + 1 /\ HasRow(todo[j], m, part)
      BY <1>2, <2>2, <3>1 DEF SeenInv, RowsFirst, Ahead
    <3>3. j # 1 /\ j \in Nat /\ i \in Nat
      BY <1>1, <1>3, <3>2
    <3>4. j - 1 \in DOMAIN todo' /\ j - 1 < i /\ HasRow(todo'[j - 1], m, part)
      BY <1>1, <3>2, <3>3
    <3> QED
      BY <3>4 DEF Ahead
  <2> QED
    BY <2>1, <2>2
<1>5. RowsFirst'
  BY <1>4 DEF RowsFirst, Needed, Texts, Elements, Ahead, Seals, HasRow
<1>6. ASSUME NEW d \in Jobs, NEW part \in Elements(Texts(d.m)), ~IsStored(d.m, part)'
      PROVE  \E j \in DOMAIN todo' : HasRow(todo'[j], d.m, part)
  <2>1. PICK j \in DOMAIN todo : HasRow(todo[j], d.m, part)
    BY <1>2, <1>6 DEF SeenInv, Captioned
  <2>2. j # 1
    BY <1>3, <1>6, <2>1
  <2> QED
    BY <1>1, <2>1, <2>2
<1> QED
  BY <1>5, <1>6

\* A handler that begins finds the captions of all jobs stored.
LEMMA CaptionsStored ==
  ASSUME TypeOK, Next, SeenInv, todo = <<>>, NEW d \in Jobs, NEW part \in Elements(Texts(d.m))
  PROVE  IsStored(d.m, part) /\ IsStored(d.m, part)'
<1>1. DOMAIN todo = {}
  OBVIOUS
<1> QED
  BY <1>1, MessagesGrow DEF SeenInv, Captioned

\* Every step keeps SeenInv.
LEMMA SeenInvNext ==
  ASSUME TypeOK, SeenInv, Next
  PROVE  SeenInv'
<1>1. \A m \in wa_msgids \cup read : Good(m)'
  BY GoodStays DEF SeenInv
<1>2. \A m \in Msgs : MessageRead(m) \in Elements(outbox) => Good(m)'
  BY GoodStays DEF SeenInv
<1>3. \A m, part : IsStored(m, part) => IsStored(m, part)'
  BY MessagesGrow
<1>4. ASSUME \A m \in wa_msgids' \cup read' : m \in wa_msgids \cup read \/ Good(m)',
             \A m \in Msgs : MessageRead(m) \in Elements(outbox') =>
                             MessageRead(m) \in Elements(outbox) \/ Good(m)',
             RowsFirst',
             \A d \in Jobs' : \A part \in Elements(Texts(d.m)) :
               IsStored(d.m, part)' \/ \E j \in DOMAIN todo' : HasRow(todo'[j], d.m, part)
      PROVE  SeenInv'
  <2>1. Captioned'
    BY <1>4 DEF Captioned, Texts, Elements, HasRow
  <2> QED
    BY <1>1, <1>2, <1>4, <2>1 DEF SeenInv
<1>5. ASSUME \A i \in DOMAIN todo', m \in Msgs : ~Seals(todo'[i], m) \/ Good(m)'
      PROVE  RowsFirst'
  BY <1>5 DEF RowsFirst, Seals
<1>6. ASSUME todo = <<>>
      PROVE  \A d \in Jobs : \A part \in Elements(Texts(d.m)) : IsStored(d.m, part)'
  BY <1>6, CaptionsStored
<1>7. CASE StoreRow
  <2> DEFINE task == Head(todo)
             row  == [m |-> task.m, part |-> task.part,
                      to |-> IF task.gid = NoGroup THEN Person ELSE groups[task.gid].jid]
  <2>1. /\ todo # <<>> /\ todo' = Tail(todo) /\ DOMAIN messages' = DOMAIN messages \cup {row}
        /\ UNCHANGED <<rx, downloads, wa_msgids, outbox, read>>
    BY <1>7 DEF StoreRow, Put, TasksOnly, whatsapp
  <2>2. row.m = task.m /\ row.part = task.part
    OBVIOUS
  <2> HIDE DEF row
  <2>3. \A m, part : HasRow(task, m, part) => IsStored(m, part)'
    BY <2>1, <2>2 DEF HasRow, IsStored
  <2>4. Jobs' = Jobs
    BY <2>1, JobsStay
  <2> QED
    BY <1>4, <2>1, <2>3, <2>4, RowsFirstTail
<1>8. CASE StoreId \/ UpdateGroup \/ PushRequest
  <2>1. /\ todo # <<>> /\ todo' = Tail(todo) /\ Head(todo).op # "row"
        /\ UNCHANGED <<rx, downloads, read>>
    BY <1>8 DEF StoreId, UpdateGroup, PushRequest, TasksOnly, whatsapp
  <2>2. \A m, part : ~HasRow(Head(todo), m, part)
    BY <2>1 DEF HasRow
  <2>3. ASSUME NEW m \in Msgs, Seals(Head(todo), m)
        PROVE  Good(m)'
    <3>1. 1 \in DOMAIN todo /\ todo[1] = Head(todo) /\ DOMAIN todo \subseteq Nat \ {0}
      BY <2>1, TailOf
    <3>2. \A part : ~Ahead(todo, 1, m, part)
      BY <3>1 DEF Ahead
    <3>3. Good(m)
      BY <2>3, <3>1, <3>2 DEF SeenInv, RowsFirst, Good
    <3> QED
      BY <3>3, GoodStays
  <2>4. /\ \A m \in wa_msgids' : m \in wa_msgids \/ (m \in Msgs /\ Head(todo) = Id(m))
        /\ \A m \in Msgs : MessageRead(m) \in Elements(outbox') =>
             MessageRead(m) \in Elements(outbox) \/ Head(todo) = Push(MessageRead(m))
    <3>1. CASE StoreId
      BY <2>1, <3>1, TaskAtHand DEF StoreId
    <3>2. CASE UpdateGroup
      BY <3>2 DEF UpdateGroup
    <3>3. CASE PushRequest
      <4>1. /\ Head(todo).req \in Request /\ Head(todo) = Push(Head(todo).req)
            /\ outbox' = Append(outbox, Head(todo).req) /\ wa_msgids' = wa_msgids
        BY <2>1, <3>3, TaskAtHand DEF PushRequest
      <4>2. Elements(outbox') = Elements(outbox) \cup {Head(todo).req}
        BY <4>1, ElementsOf DEF TypeOK
      <4> QED
        BY <4>1, <4>2
    <3> QED
      BY <1>8, <3>1, <3>2, <3>3
  <2>5. Jobs' = Jobs
    BY <2>1, JobsStay
  <2> QED
    BY <1>4, <2>1, <2>2, <2>3, <2>4, <2>5, RowsFirstTail DEF Seals
<1>9. CASE Restarted
  <2>1. /\ UNCHANGED <<wa_msgids, read>>
        /\ todo' = <<>> /\ outbox' = <<>> /\ rx' = <<>> /\ downloads' = {}
    BY <1>9 DEF Restarted, database
  <2>2. Elements(outbox') = {} /\ Jobs' = {} /\ DOMAIN todo' = {}
    BY <2>1 DEF Elements, Jobs, Media
  <2> QED
    BY <1>4, <1>5, <2>1, <2>2
<1>10. CASE Quiet
  <2>1. /\ UNCHANGED <<todo, messages, wa_msgids, read>> /\ Jobs' = Jobs
        /\ \A m \in Msgs : MessageRead(m) \in Elements(outbox') => MessageRead(m) \in Elements(outbox)
    BY <1>10, QuietStep
  <2>2. RowsFirst' /\ Captioned'
    BY <2>1 DEF SeenInv, RowsFirst, Captioned, Ahead, Good, Needed, IsStored, Seals, HasRow
  <2> QED
    BY <1>1, <1>2, <2>1, <2>2 DEF SeenInv
<1>11. CASE Aside
  <2>1. todo = <<>> /\ UNCHANGED <<outbox, wa_msgids, read>> /\ Jobs' = Jobs
    BY <1>11, AsideStep
  <2>2. \A i \in DOMAIN todo', m \in Msgs : ~Seals(todo'[i], m)
    BY <1>11, AsideTasks DEF Elements
  <2> QED
    BY <1>4, <1>5, <1>6, <2>1, <2>2
<1>12. CASE HandOver
  <2>1. /\ outbox # <<>> /\ outbox' = Tail(outbox) /\ todo = <<>> /\ todo' = todo
        /\ UNCHANGED <<rx, downloads, wa_msgids>>
        /\ read' = read \/ (Head(outbox).req = "read" /\ read' = read \cup {Head(outbox).m})
    BY <1>12 DEF HandOver, OutboxOnly, database
  <2>2. Elements(outbox) = {Head(outbox)} \cup Elements(outbox')
    BY <2>1, RequestAtHand
  <2>3. Head(outbox).req = "read" => Head(outbox) = MessageRead(Head(outbox).m) /\ Head(outbox).m \in Msgs
    <3>1. Head(outbox) \in Request
      BY <2>1, RequestAtHand
    <3> QED
      BY <3>1 DEF Request, MessageRead
  <2>4. DOMAIN todo' = {} /\ Jobs' = Jobs
    BY <2>1, JobsStay
  <2> QED
    BY <1>2, <1>4, <1>5, <1>6, <2>1, <2>2, <2>3, <2>4
<1>13. CASE TakeMediaFinished
  <2> DEFINE d == Head(rx).job
  <2>1. todo = <<>> /\ todo' = FileTasks(d) /\ UNCHANGED <<wa_msgids, read, outbox>>
    BY <1>13 DEF TakeMediaFinished, database, whatsapp
  <2>2. Jobs' \subseteq Jobs /\ d \in Jobs /\ d \in Job
    BY <1>13, TakeMediaJobs DEF Jobs
  <2> HIDE DEF d
  <2>3. /\ 1 \in DOMAIN todo' /\ todo'[1] = Row(d.m, "file", d.gid)
        /\ \A i \in DOMAIN todo' : i \in Nat \ {0} /\
             (i = 1 \/ (i > 1 /\ todo'[i] \in {Id(d.m), Push(MessageRead(d.m))}))
    BY <2>1, <2>2, FileTasksShape
  <2>4. HasRow(todo'[1], d.m, "file")
    BY <2>3 DEF HasRow, Row
  <2>5. ASSUME NEW i \in DOMAIN todo', NEW m \in Msgs, Seals(todo'[i], m)
        PROVE  \A part \in Needed(m) : IsStored(m, part)' \/ Ahead(todo', i, m, part)
    <3>1. /\ Id(m).op = "id" /\ Push(MessageRead(m)).op = "push" /\ Row(d.m, "file", d.gid).op = "row"
          /\ Id(m).m = m /\ Push(MessageRead(m)).req.m = m
          /\ Id(d.m).op = "id" /\ Push(MessageRead(d.m)).op = "push"
          /\ Id(d.m).m = d.m /\ Push(MessageRead(d.m)).req.m = d.m
      BY DEF Id, Push, Row, MessageRead
    <3>2. i > 1 /\ m = d.m
      BY <2>3, <2>5, <3>1 DEF Seals
    <3>3. \A part \in Elements(Texts(m)) : IsStored(m, part)'
      BY <1>6, <2>1, <2>2, <3>2
    <3>4. Ahead(todo', i, m, "file")
      BY <2>3, <2>4, <3>2 DEF Ahead
    <3> QED
      BY <3>3, <3>4 DEF Needed
  <2>6. RowsFirst'
    BY <2>5 DEF RowsFirst, Ahead, Needed, Texts, Elements, Seals, HasRow
  <2> QED
    BY <1>4, <1>6, <2>1, <2>2, <2>6
<1>14. ASSUME NEW m \in Msgs, NEW is_new \in BOOLEAN, OnMessageOfOurs(m, is_new)
       PROVE  SeenInv'
  <2>1. /\ todo = <<>> /\ todo' = <<Id(m)>> /\ m.ours /\ m.chat = Person
        /\ UNCHANGED <<rx, downloads, wa_msgids, read, outbox>>
    BY <1>14 DEF OnMessageOfOurs, Told, Tells
  <2>2. \A i \in DOMAIN todo' : todo'[i] = Id(m)
    BY <2>1
  <2>3. \A n \in Msgs : Id(m).m = m /\ Id(n).m = n /\ Id(m).op = "id" /\ Push(MessageRead(n)).op = "push"
    BY DEF Id, Push
  <2>4. \A i \in DOMAIN todo', n \in Msgs : ~Seals(todo'[i], n) \/ Good(n)'
    BY <2>1, <2>2, <2>3 DEF Seals, Good
  <2>5. Jobs' = Jobs
    BY <2>1, JobsStay
  <2> QED
    BY <1>4, <1>5, <1>6, <2>1, <2>4, <2>5
<1>15. ASSUME NEW m \in Msgs, NEW is_new \in BOOLEAN, OnMessage(m, is_new) \/ OnMessageAutocreates(m, is_new)
       PROVE  SeenInv'
  <2>1. todo = <<>> /\ UNCHANGED <<rx, outbox, wa_msgids, read>>
    BY <1>15, MessageStep
  <2>2. PICK gid \in Nat :
          /\ StartDownload(m, gid)
          /\ todo' = Tasks(m, gid) \/ todo' = <<Push(GetMetadata(m.chat))>> \o Tasks(m, gid)
          /\ todo' = Tasks(m, gid) \/ m.chat \in Groups
    BY <1>15, MessageStep
  <2>3. PICK k \in {0, 1} : TasksOf(todo', m, gid, k)
    BY <2>2, MessageTasks
  <2>4. \A d \in Jobs' : d \in Jobs \/ d.m = m
    BY <2>1, <2>2, StartDownloadJobs
  <2>5. \A part \in Elements(Texts(m)) : \E j \in 1 .. Len(Texts(m)) :
          k + j \in DOMAIN todo' /\ HasRow(todo'[k + j], m, part)
    <3> SUFFICES ASSUME NEW j \in DOMAIN Texts(m)
                 PROVE  j \in 1 .. Len(Texts(m)) /\ k + j \in DOMAIN todo' /\ HasRow(todo'[k + j], m, Texts(m)[j])
      BY DEF Elements
    <3>1. j \in 1 .. Len(Texts(m))
      BY TextsShape
    <3>2. k + j \in DOMAIN todo' /\ todo'[k + j] = Row(m, Texts(m)[j], gid)
      BY <2>3, <3>1 DEF TasksOf
    <3>3. \A part : HasRow(Row(m, part, gid), m, part)
      BY DEF HasRow, Row
    <3> QED
      BY <3>1, <3>2, <3>3
  <2>6. ASSUME NEW i \in DOMAIN todo', NEW n \in Msgs, Seals(todo'[i], n)
        PROVE  \A part \in Needed(n) : Ahead(todo', i, n, part)
    <3>1. /\ Id(n).op = "id" /\ Push(MessageRead(n)).op = "push" /\ Push(MessageRead(n)).req.req = "read"
          /\ Id(n).m = n /\ Push(MessageRead(n)).req.m = n
          /\ Id(m).op = "id" /\ Push(MessageRead(m)).op = "push" /\ Id(m).m = m
          /\ Push(MessageRead(m)).req.m = m
          /\ \A g \in Groups : /\ Push(GetMetadata(g)).op = "push"
                               /\ Push(GetMetadata(g)).req.req = "metadata"
          /\ \A part : Row(m, part, gid).op = "row"
      BY DEF Id, Push, Row, MessageRead, GetMetadata
    <3>2. ~\E j \in 1 .. Len(Texts(m)) : i = k + j
      BY <2>3, <2>6, <3>1 DEF TasksOf, Seals
    <3>3. i > k + Len(Texts(m)) /\ ~m.file /\ n = m
      BY <2>3, <2>6, <3>1, <3>2 DEF TasksOf, Seals
    <3>4. \A j \in 1 .. Len(Texts(m)) : k + j < i
      <4>1. Len(Texts(m)) \in Nat /\ i \in Nat
        <5>1. TypeOK'
          BY NextType
        <5> QED
          BY <5>1, TextsShape DEF TypeOK
      <4> QED
        BY <3>3, <4>1
    <3> QED
      BY <2>5, <3>3, <3>4 DEF Ahead, Needed
  <2>7. RowsFirst'
    BY <2>6 DEF RowsFirst, Ahead, Needed, Texts, Elements, Seals, HasRow
  <2>8. \A d \in Jobs' : \A part \in Elements(Texts(d.m)) :
          IsStored(d.m, part)' \/ \E j \in DOMAIN todo' : HasRow(todo'[j], d.m, part)
    BY <1>6, <2>1, <2>4, <2>5
  <2> QED
    BY <1>4, <2>1, <2>7, <2>8
<1> QED
  BY <1>7, <1>8, <1>9, <1>10, <1>11, <1>12, <1>13, <1>14, <1>15, NextSplit

\* A message that is rejected from now on because its id is known, or that
\* WhatsApp knows to be read, was stored whole: whenever the process dies.
THEOREM SeenMessagesAreStored == Spec => []SeenIsStored
<1> DEFINE Inv == TypeOK /\ SeenInv
<1>1. Init => Inv
  <2> SUFFICES ASSUME Init PROVE SeenInv
    BY InitType
  <2>1. /\ wa_msgids = {} /\ read = {} /\ Elements(outbox) = {} /\ DOMAIN todo = {}
        /\ Jobs = {}
    BY DEF Init, Empty, Elements, Jobs, Media
  <2> QED
    BY <2>1 DEF SeenInv, RowsFirst, Captioned
<1>2. Inv /\ [Next]_vars => Inv'
  <2>1. ASSUME Inv, Next PROVE Inv'
    BY <2>1, NextType, SeenInvNext
  <2>2. ASSUME Inv, UNCHANGED vars PROVE Inv'
    <3>1. UNCHANGED <<wa_msgids, read, outbox, messages, todo, rx, downloads>>
      BY <2>2 DEF vars, database, whatsapp
    <3>2. Jobs' = Jobs
      BY <3>1 DEF Jobs, Media
    <3>3. RowsFirst' /\ Captioned'
      BY <2>2, <3>1, <3>2 DEF SeenInv, RowsFirst, Captioned, Ahead, Good, Needed, IsStored, Seals, HasRow
    <3>4. \A m : Good(m) => Good(m)'
      BY <3>1 DEF Good, IsStored, Needed
    <3> QED
      BY <2>2, <3>1, <3>3, <3>4, StutterType DEF SeenInv
  <2> QED
    BY <2>1, <2>2
<1>3. Inv => SeenIsStored
  <2> SUFFICES ASSUME Inv, NEW m \in wa_msgids \cup read, ~(m.ours /\ m.chat = Person)
               PROVE  Complete(m)
    BY DEF SeenIsStored
  <2>1. \A part \in Needed(m) : IsStored(m, part)
    BY DEF SeenInv, Good
  <2> QED
    BY <2>1 DEF Needed, Complete, Elements
<1> QED
  BY <1>1, <1>2, <1>3, PTL DEF Spec

-----------------------------------------------------------------------------
(* Messages are stored once *)

\* What StoredOnce makes an exception of.
Excused == cut \cup Notices

\* A row that will be stored is not stored yet, and is there once.
FreshRows ==
  \A i \in DOMAIN todo, m \in Msgs \ Excused, part \in Parts : HasRow(todo[i], m, part) =>
    ~IsStored(m, part) /\ \A j \in DOMAIN todo : HasRow(todo[j], m, part) => i = j

\* A message that is stored, or will be, is known, or somebody will make it so.
KnownOf ==
  \A m \in Msgs \ (Excused \cup wa_msgids) :
    Kept(m) \/ (\E i \in DOMAIN todo, part \in Parts : HasRow(todo[i], m, part)) =>
      (\E d \in Jobs : d.m = m) \/ Id(m) \in Elements(todo)

\* A message has one job, whose file is not stored yet.
FreshJobs ==
  \A d \in Jobs : d.m \notin Excused =>
    /\ ~IsStored(d.m, "file")
    /\ \A i \in DOMAIN todo : ~HasRow(todo[i], d.m, "file")
    /\ \A e \in Jobs : e.m = d.m => e = d
    /\ d \in downloads => d \notin Media

\* It ends once.
FreshQueue ==
  \A i, j \in DOMAIN rx :
    rx[i].c = "media" /\ rx[j] = rx[i] /\ rx[i].job.m \notin Excused => i = j

StoredInv == StoredOnce /\ FreshRows /\ KnownOf /\ FreshJobs /\ FreshQueue

\* What happened untimely is not forgotten.
LEMMA CutGrows ==
  ASSUME TypeOK, Next
  PROVE  cut \subseteq cut' /\ Excused \subseteq Excused'
<1>1. ASSUME NEW m \in Msgs, NEW is_new \in BOOLEAN, OnMessageOfOurs(m, is_new)
      PROVE  cut \subseteq cut'
  BY <1>1 DEF OnMessageOfOurs, Told
<1>2. CASE Restarted
  BY <1>2 DEF Restarted, Excused
<1>3. CASE StoreRow \/ StoreId \/ UpdateGroup \/ PushRequest \/ HandOver \/ TakeMediaFinished
  BY <1>3 DEF StoreRow, StoreId, UpdateGroup, PushRequest, TasksOnly, HandOver, TakeMediaFinished,
              OutboxOnly, history, Excused
<1> QED
  BY <1>1, <1>2, <1>3, NextSplit, QuietStep, AsideStep, MessageStep DEF Excused

\* Commands that are taken, and orders that come, leave no job in rx twice.
LEMMA QueueStays ==
  ASSUME TypeOK, FreshQueue, Excused \subseteq Excused',
         \/ rx' = rx
         \/ rx # <<>> /\ rx' = Tail(rx)
         \/ \E c \in Orders : rx' = Append(rx, c)
  PROVE  FreshQueue'
<1>1. CASE rx' = rx
  BY <1>1 DEF FreshQueue
<1>2. CASE rx # <<>> /\ rx' = Tail(rx)
  <2>1. rx \in Seq(Command)
    BY DEF TypeOK
  <2>2. \A i \in DOMAIN rx' : i \in Nat /\ i + 1 \in DOMAIN rx /\ rx'[i] = rx[i + 1]
    BY <1>2, <2>1
  <2> SUFFICES ASSUME NEW i \in DOMAIN rx', NEW j \in DOMAIN rx', rx'[i].c = "media", rx'[j] = rx'[i],
                      rx'[i].job.m \notin Excused'
               PROVE  i = j
    BY DEF FreshQueue
  <2>3. i + 1 = j + 1
    BY <2>2 DEF FreshQueue
  <2> QED
    BY <2>2, <2>3
<1>3. ASSUME NEW c \in Orders, rx' = Append(rx, c)
      PROVE  FreshQueue'
  <2>1. c \in Command /\ c.c # "media"
    BY DEF Command, Orders
  <2>2. rx \in Seq(Command)
    BY DEF TypeOK
  <2>3. \A i \in DOMAIN rx' : rx'[i].c = "media" => i \in DOMAIN rx /\ rx'[i] = rx[i]
    BY <1>3, <2>1, <2>2
  <2> QED
    BY <2>1, <2>3 DEF FreshQueue
<1> QED
  BY <1>1, <1>2, <1>3

\* A download that ends is in rx once, for it was not there.
LEMMA DownloadEndsQueue ==
  ASSUME TypeOK, StoredInv, NEW d \in downloads, DownloadEnds(d)
  PROVE  FreshQueue' /\ FreshJobs'
<1>1. /\ rx' = Append(rx, MediaFinished(d)) /\ downloads' = downloads \ {d}
      /\ UNCHANGED <<messages, todo, cut>>
  BY DEF DownloadEnds, database, history
<1>2. Media' = Media \cup {d} /\ Jobs' = Jobs /\ d \in Jobs
  BY DownloadEndsJobs DEF Jobs
<1>3. FreshJobs'
  <2>1. \A e \in Jobs' : e \in downloads' => e \in downloads /\ e # d
    BY <1>1
  <2>2. \A m : m \notin Excused' => m \notin Excused
    BY <1>1 DEF Excused
  <2>3. \A m, part : IsStored(m, part)' => IsStored(m, part)
    BY <1>1 DEF IsStored
  <2> QED
    BY <1>1, <1>2, <2>1, <2>2, <2>3 DEF StoredInv, FreshJobs, HasRow
<1>4. ASSUME d.m \notin Excused
      PROVE  \A i \in DOMAIN rx : rx[i] # MediaFinished(d)
  <2>1. d \notin Media
    BY <1>2, <1>4 DEF StoredInv, FreshJobs
  <2>2. MediaFinished(d).c = "media" /\ MediaFinished(d).job = d
    BY DEF MediaFinished
  <2> QED
    BY <2>1, <2>2 DEF Media, Elements
<1>5. FreshQueue'
  <2>1. rx \in Seq(Command) /\ MediaFinished(d) \in Command
    BY Made DEF TypeOK
  <2>2. /\ DOMAIN rx' = DOMAIN rx \cup {Len(rx) + 1} /\ rx'[Len(rx) + 1] = MediaFinished(d)
        /\ \A i \in DOMAIN rx : rx'[i] = rx[i]
    BY <1>1, <2>1
  <2>3. MediaFinished(d).job = d
    BY DEF MediaFinished
  <2> SUFFICES ASSUME NEW i \in DOMAIN rx', NEW j \in DOMAIN rx', rx'[i].c = "media", rx'[j] = rx'[i],
                      rx'[i].job.m \notin Excused
               PROVE  i = j
    BY <1>1 DEF FreshQueue, Excused
  <2>4. CASE i \in DOMAIN rx /\ j \in DOMAIN rx
    BY <2>2, <2>4 DEF StoredInv, FreshQueue
  <2>5. CASE rx'[i] = MediaFinished(d)
    <3>1. d.m \notin Excused
      BY <2>3, <2>5
    <3> QED
      BY <1>4, <2>2, <2>5, <3>1
  <2> QED
    BY <2>2, <2>4, <2>5
<1> QED
  BY <1>3, <1>5

\* A quiet step takes no end of a download out of rx.
LEMMA QuietQueue ==
  ASSUME TypeOK, Quiet
  PROVE  \/ /\ downloads' = downloads
            /\ \/ rx' = rx
               \/ rx # <<>> /\ Head(rx).c # "media" /\ rx' = Tail(rx)
               \/ \E c \in Orders : rx' = Append(rx, c)
         \/ \E d \in downloads : DownloadEnds(d)
<1>1. CASE Connects \/ OnEstablished \/ OnWaError \/ OnChats
  BY <1>1 DEF Connects, OnEstablished, OnWaError, OnChats
<1>2. CASE GroupAssociate \/ GroupRemove \/ GroupUpdateAll
  BY <1>2 DEF GroupAssociate, GroupRemove, GroupUpdateAll, GroupsOnly
<1>3. CASE HandOverFails \/ Discard
  BY <1>3 DEF HandOverFails, Discard, OutboxOnly
<1>4. CASE \E g \in Groups : OnNoGroupMetadata(g)
  BY <1>4 DEF OnNoGroupMetadata, GroupsOnly
<1>5. CASE \E m \in Msgs, is_new \in BOOLEAN : Ignore(m, is_new)
  BY <1>5 DEF Ignore, Told
<1>6. CASE \E c \in Orders : Order(c)
  BY <1>6 DEF Order
<1> QED
  BY <1>1, <1>2, <1>3, <1>4, <1>5, <1>6 DEF Quiet

\* A message that is not rejected, and not told untimely, was not stored.
LEMMA NotStoredBefore ==
  ASSUME TypeOK, StoredInv, NEW m \in Msgs, NEW is_new \in BOOLEAN,
         Told(m, is_new), ~Rejected(m, is_new), m \notin Excused'
  PROVE  ~Kept(m) /\ \A d \in Jobs : d.m # m
<1>1. todo = <<>> /\ Elements(todo) = {} /\ DOMAIN todo = {}
  BY DEF Told, Tells, Elements
<1>2. m \notin InFlight /\ ~(is_new /\ mark_read /\ Kept(m)) /\ m \notin cut
  BY DEF Told, Excused
<1>3. \A d \in Jobs : d.m # m
  BY <1>2 DEF InFlight, Jobs
<1>4. CASE is_new /\ mark_read
  BY <1>2, <1>3, <1>4
<1>5. CASE m \notin wa_msgids
  BY <1>1, <1>2, <1>3, <1>5 DEF StoredInv, KnownOf, Excused
<1> QED
  BY <1>3, <1>4, <1>5 DEF Rejected

\* Tables that did not change keep what StoredOnce says of them.
LEMMA StoredOnceStays ==
  ASSUME TypeOK, Next, StoredOnce, messages' = messages
  PROVE  /\ StoredOnce'
         /\ \A m, part : IsStored(m, part)' <=> IsStored(m, part)
         /\ \A m : Kept(m)' <=> Kept(m)
<1>1. StoredOnce'
  BY CutGrows DEF StoredOnce, Excused
<1> QED
  BY <1>1 DEF IsStored, Kept

\* A task that stores no row leaves less to do.
LEMMA StoredTask ==
  ASSUME TypeOK, Next, StoredInv, StoreId \/ UpdateGroup \/ PushRequest
  PROVE  StoredInv'
<1>1. /\ todo # <<>> /\ todo' = Tail(todo) /\ Head(todo).op # "row"
      /\ UNCHANGED <<rx, downloads, messages, cut>>
  BY DEF StoreId, UpdateGroup, PushRequest, TasksOnly, history
<1>2. /\ 1 \in DOMAIN todo /\ todo[1] = Head(todo) /\ DOMAIN todo \subseteq Nat \ {0}
      /\ \A i \in DOMAIN todo' : i \in Nat \ {0} /\ i + 1 \in DOMAIN todo /\ todo'[i] = todo[i + 1]
      /\ \A i \in DOMAIN todo : i # 1 => i - 1 \in DOMAIN todo' /\ todo'[i - 1] = todo[i]
  BY <1>1, TailOf
<1>3. /\ StoredOnce' /\ \A m, part : IsStored(m, part)' <=> IsStored(m, part)
      /\ \A m : Kept(m)' <=> Kept(m)
  BY <1>1, StoredOnceStays DEF StoredInv
<1>4. Excused' = Excused /\ Media' = Media /\ Jobs' = Jobs
  BY <1>1, JobsStay DEF Excused
<1>5. FreshRows'
  <2> SUFFICES ASSUME NEW i \in DOMAIN todo', NEW m \in Msgs \ Excused, NEW part \in Parts,
                      HasRow(todo'[i], m, part)
               PROVE  ~IsStored(m, part) /\ \A j \in DOMAIN todo' : HasRow(todo'[j], m, part) => i = j
    BY <1>3, <1>4 DEF FreshRows, HasRow
  <2>1. \A j \in DOMAIN todo' : HasRow(todo'[j], m, part) => i + 1 = j + 1
    BY <1>2 DEF StoredInv, FreshRows
  <2>2. ~IsStored(m, part)
    BY <1>2 DEF StoredInv, FreshRows
  <2> QED
    BY <1>2, <2>1, <2>2
<1>6. KnownOf'
  <2>1. wa_msgids \subseteq wa_msgids' /\ \A m \in Msgs : Head(todo) = Id(m) => m \in wa_msgids'
    <3>1. \A m \in Msgs : Id(m).op = "id" /\ Id(m).m = m
      BY DEF Id
    <3> QED
      BY <3>1 DEF StoreId, UpdateGroup, PushRequest
  <2>2. Elements(todo) = {Head(todo)} \cup Elements(todo')
    BY <1>1, TaskAtHand
  <2> SUFFICES ASSUME NEW m \in Msgs \ (Excused \cup wa_msgids'),
                      Kept(m) \/ (\E i \in DOMAIN todo', part \in Parts : HasRow(todo'[i], m, part)),
                      ~\E d \in Jobs : d.m = m
               PROVE  Id(m) \in Elements(todo')
    BY <1>3, <1>4 DEF KnownOf, HasRow, Id
  <2>3. Kept(m) \/ (\E i \in DOMAIN todo, part \in Parts : HasRow(todo[i], m, part))
    BY <1>2
  <2>4. Id(m) \in Elements(todo)
    BY <2>1, <2>3 DEF StoredInv, KnownOf
  <2> QED
    BY <2>1, <2>2, <2>4
<1>7. FreshJobs'
  <2>1. \A d \in Jobs : d.m \notin Excused => \A i \in DOMAIN todo' : ~HasRow(todo'[i], d.m, "file")
    BY <1>2 DEF StoredInv, FreshJobs
  <2> QED
    BY <1>1, <1>3, <1>4, <2>1 DEF StoredInv, FreshJobs, HasRow
<1>8. FreshQueue'
  BY <1>1, <1>4, QueueStays DEF StoredInv
<1> QED
  BY <1>3, <1>5, <1>6, <1>7, <1>8 DEF StoredInv

\* A row that is stored is stored for the first time.
LEMMA StoredRow ==
  ASSUME TypeOK, Next, StoredInv, StoreRow
  PROVE  StoredInv'
<1> DEFINE task == Head(todo)
           row  == [m |-> task.m, part |-> task.part,
                    to |-> IF task.gid = NoGroup THEN Person ELSE groups[task.gid].jid]
<1>1. /\ todo # <<>> /\ todo' = Tail(todo) /\ task.op = "row"
      /\ messages' = Put(messages, row, IF row \in DOMAIN messages THEN messages[row] + 1 ELSE 1)
      /\ UNCHANGED <<rx, downloads, wa_msgids, cut>>
  BY DEF StoreRow, TasksOnly, history
<1>2. /\ 1 \in DOMAIN todo /\ todo[1] = task /\ DOMAIN todo \subseteq Nat \ {0}
      /\ \A i \in DOMAIN todo' : i \in Nat \ {0} /\ i + 1 \in DOMAIN todo /\ todo'[i] = todo[i + 1]
      /\ \A i \in DOMAIN todo : i # 1 => i - 1 \in DOMAIN todo' /\ todo'[i - 1] = todo[i]
  BY <1>1, TailOf
<1>3. Excused' = Excused /\ Media' = Media /\ Jobs' = Jobs
  BY <1>1, JobsStay DEF Excused
<1>4. task.m \in Msgs \cup Notices /\ task.part \in Parts /\ HasRow(task, task.m, task.part)
  BY <1>1, TaskAtHand DEF HasRow
<1>5. row.m = task.m /\ row.part = task.part
  OBVIOUS
<1> HIDE DEF row
<1>6. \A m, part : IsStored(m, part)' <=> IsStored(m, part) \/ HasRow(task, m, part)
  <2>1. DOMAIN messages' = DOMAIN messages \cup {row}
    BY <1>1 DEF Put
  <2> QED
    BY <1>1, <1>5, <2>1 DEF IsStored, HasRow
<1>7. task.m \notin Excused => task.m \in Msgs /\ ~IsStored(task.m, task.part)
  BY <1>2, <1>4 DEF StoredInv, FreshRows, Excused
<1>8. StoredOnce'
  <2> SUFFICES ASSUME NEW r \in DOMAIN messages', messages'[r] > 1, r.m \notin Excused
               PROVE  FALSE
    BY <1>1 DEF StoredOnce, Excused
  <2>1. CASE r = row
    <3>1. row \notin DOMAIN messages
      BY <1>5, <1>7, <2>1 DEF IsStored
    <3>2. messages'[r] = 1
      BY <1>1, <2>1, <3>1 DEF Put
    <3> QED
      BY <3>2
  <2>2. CASE r # row
    <3>1. r \in DOMAIN messages /\ messages'[r] = messages[r]
      BY <1>1, <2>2 DEF Put
    <3> QED
      BY <3>1 DEF StoredInv, StoredOnce, Excused
  <2> QED
    BY <2>1, <2>2
<1>9. FreshRows'
  <2> SUFFICES ASSUME NEW i \in DOMAIN todo', NEW m \in Msgs \ Excused, NEW part \in Parts,
                      HasRow(todo'[i], m, part)
               PROVE  ~IsStored(m, part)' /\ \A j \in DOMAIN todo' : HasRow(todo'[j], m, part) => i = j
    BY <1>3 DEF FreshRows, HasRow
  <2>1. \A j \in DOMAIN todo' : HasRow(todo'[j], m, part) => i + 1 = j + 1
    BY <1>2 DEF StoredInv, FreshRows
  <2>2. ~IsStored(m, part) /\ (HasRow(todo[1], m, part) => i + 1 = 1)
    BY <1>2 DEF StoredInv, FreshRows
  <2>3. i + 1 # 1
    BY <1>2
  <2> QED
    BY <1>2, <1>6, <2>1, <2>2, <2>3
<1>10. KnownOf'
  <2>1. Elements(todo) = {task} \cup Elements(todo')
    BY <1>1, TaskAtHand
  <2> SUFFICES ASSUME NEW m \in Msgs \ (Excused \cup wa_msgids),
                      Kept(m)' \/ (\E i \in DOMAIN todo', part \in Parts : HasRow(todo'[i], m, part)),
                      ~\E d \in Jobs : d.m = m
               PROVE  Id(m) \in Elements(todo')
    BY <1>1, <1>3 DEF KnownOf, HasRow, Id
  <2>2. Kept(m) \/ \E i \in DOMAIN todo, part \in Parts : HasRow(todo[i], m, part)
    <3>1. CASE Kept(m)'
      <4>1. PICK part \in Parts : IsStored(m, part)'
        BY <3>1 DEF Kept
      <4> QED
        BY <1>2, <1>6, <4>1 DEF Kept
    <3>2. CASE \E i \in DOMAIN todo', part \in Parts : HasRow(todo'[i], m, part)
      BY <1>2, <3>2
    <3> QED
      BY <3>1, <3>2
  <2>3. Id(m) \in Elements(todo)
    BY <2>2 DEF StoredInv, KnownOf
  <2>4. Id(m) # task
    BY <1>1 DEF Id
  <2> QED
    BY <2>1, <2>3, <2>4
<1>11. FreshJobs'
  <2> SUFFICES ASSUME NEW d \in Jobs, d.m \notin Excused
               PROVE  /\ ~IsStored(d.m, "file")'
                      /\ \A i \in DOMAIN todo' : ~HasRow(todo'[i], d.m, "file")
    BY <1>1, <1>3 DEF StoredInv, FreshJobs, HasRow
  <2>1. ~IsStored(d.m, "file") /\ \A i \in DOMAIN todo : ~HasRow(todo[i], d.m, "file")
    BY DEF StoredInv, FreshJobs
  <2> QED
    BY <1>2, <1>6, <2>1
<1>12. FreshQueue'
  BY <1>1, <1>3, QueueStays DEF StoredInv
<1> QED
  BY <1>8, <1>9, <1>10, <1>11, <1>12 DEF StoredInv

\* The end of a download is processed: its file is stored now, and it is the
\* only one of its message.
LEMMA StoredMedia ==
  ASSUME TypeOK, Next, StoredInv, TakeMediaFinished
  PROVE  StoredInv'
<1> DEFINE d == Head(rx).job
<1>1. /\ todo = <<>> /\ DOMAIN todo = {} /\ Elements(todo) = {}
      /\ rx # <<>> /\ rx' = Tail(rx) /\ Head(rx).c = "media" /\ todo' = FileTasks(d)
      /\ UNCHANGED <<downloads, messages, wa_msgids, cut>>
  BY DEF TakeMediaFinished, Elements, database, history
<1>2. Jobs' \subseteq Jobs /\ d \in Jobs /\ d \in Job /\ d \in Media /\ Media = Media' \cup {d}
  BY TakeMediaJobs DEF Jobs
<1>3. /\ StoredOnce' /\ \A m, part : IsStored(m, part)' <=> IsStored(m, part)
      /\ \A m : Kept(m)' <=> Kept(m)
  BY <1>1, StoredOnceStays DEF StoredInv
<1>4. Excused' = Excused
  BY <1>1 DEF Excused
<1>5. d.m \notin Excused => d \notin Media'
  <2> SUFFICES ASSUME d.m \notin Excused, d \in Media'
               PROVE  FALSE
    OBVIOUS
  <2>1. rx \in Seq(Command) /\ Head(rx) = rx[1] /\ 1 \in DOMAIN rx
    BY <1>1 DEF TypeOK
  <2>2. PICK i \in DOMAIN rx' : rx'[i].c = "media" /\ rx'[i].job = d
    BY DEF Media, Elements
  <2>3. i \in Nat \ {0} /\ i + 1 \in DOMAIN rx /\ rx'[i] = rx[i + 1]
    BY <1>1, <2>1
  <2>4. rx[i + 1] = rx[1]
    <3>1. \A c \in Command : c.c = "media" => c = MediaFinished(c.job)
      BY DEF Command, Orders, MediaFinished
    <3>2. rx[1] \in Command /\ rx[i + 1] \in Command
      BY <2>1, <2>3
    <3> QED
      BY <1>1, <2>1, <2>2, <2>3, <3>1, <3>2
  <2>5. 1 = i + 1
    BY <1>1, <2>1, <2>3, <2>4 DEF StoredInv, FreshQueue
  <2> QED
    BY <2>3, <2>5
<1> HIDE DEF d
<1>6. /\ \A i \in DOMAIN todo', m \in Msgs, part \in Parts :
           HasRow(todo'[i], m, part) => i = 1 /\ m = d.m /\ part = "file"
      /\ Id(d.m) \in Elements(todo')
  <2>1. /\ Row(d.m, "file", d.gid).m = d.m /\ Row(d.m, "file", d.gid).part = "file"
        /\ Id(d.m).op = "id" /\ Push(MessageRead(d.m)).op = "push"
    BY DEF Row, Id, Push
  <2> QED
    BY <1>1, <1>2, <2>1, FileTasksShape DEF HasRow
<1>7. FreshRows'
  <2>1. d.m \notin Excused => ~IsStored(d.m, "file")
    BY <1>2 DEF StoredInv, FreshJobs
  <2> QED
    BY <1>3, <1>4, <1>6, <2>1 DEF FreshRows, HasRow
<1>8. KnownOf'
  <2> SUFFICES ASSUME NEW m \in Msgs \ (Excused \cup wa_msgids),
                      Kept(m) \/ (\E i \in DOMAIN todo', part \in Parts : HasRow(todo'[i], m, part)),
                      Id(m) \notin Elements(todo')
               PROVE  \E e \in Jobs' : e.m = m
    BY <1>1, <1>3, <1>4 DEF KnownOf, HasRow, Id
  <2>1. m # d.m
    BY <1>6
  <2>2. PICK e \in Jobs : e.m = m
    BY <1>1, <1>6, <2>1 DEF StoredInv, KnownOf
  <2>3. e \in Jobs'
    BY <1>1, <1>2, <2>1, <2>2 DEF Jobs
  <2> QED
    BY <2>2, <2>3
<1>9. FreshJobs'
  <2> SUFFICES ASSUME NEW e \in Jobs', e.m \notin Excused
               PROVE  /\ ~IsStored(e.m, "file")
                      /\ \A i \in DOMAIN todo' : ~HasRow(todo'[i], e.m, "file")
                      /\ \A f \in Jobs' : f.m = e.m => f = e
                      /\ e \in downloads => e \notin Media'
    BY <1>1, <1>3, <1>4 DEF FreshJobs, HasRow
  <2>1. /\ e \in Jobs /\ ~IsStored(e.m, "file")
        /\ \A f \in Jobs : f.m = e.m => f = e
        /\ e \in downloads => e \notin Media
    BY <1>2 DEF StoredInv, FreshJobs
  <2>2. e # d
    <3>1. d.m \notin Excused => d \notin downloads
      BY <1>2 DEF StoredInv, FreshJobs
    <3> QED
      BY <1>1, <1>5, <3>1 DEF Jobs
  <2>3. e.m # d.m /\ e.m \in Msgs
    <3>1. Jobs \subseteq Job
      BY MediaType DEF Jobs, TypeOK
    <3> QED
      BY <1>2, <2>1, <2>2, <3>1 DEF Job
  <2>4. \A i \in DOMAIN todo' : ~HasRow(todo'[i], e.m, "file")
    BY <1>6, <2>3 DEF Parts
  <2> QED
    BY <1>2, <2>1, <2>4
<1>10. FreshQueue'
  BY <1>1, <1>4, QueueStays DEF StoredInv
<1> QED
  BY <1>3, <1>7, <1>8, <1>9, <1>10 DEF StoredInv

\* A message that is stored at once was not stored before, unless it was told
\* untimely.
LEMMA StoredMessage ==
  ASSUME TypeOK, Next, StoredInv, NEW m \in Msgs, NEW is_new \in BOOLEAN,
         OnMessage(m, is_new) \/ OnMessageAutocreates(m, is_new)
  PROVE  StoredInv'
<1>1. /\ Told(m, is_new) /\ ~Rejected(m, is_new) /\ todo = <<>> /\ DOMAIN todo = {} /\ Elements(todo) = {}
      /\ UNCHANGED <<rx, messages, wa_msgids>>
  <2>1. /\ Told(m, is_new) /\ ~Rejected(m, is_new) /\ todo = <<>>
        /\ UNCHANGED <<rx, messages, wa_msgids>>
    BY MessageStep
  <2> QED
    BY <2>1 DEF Elements
<1>2. PICK gid \in Nat :
        /\ StartDownload(m, gid)
        /\ todo' = Tasks(m, gid) \/ todo' = <<Push(GetMetadata(m.chat))>> \o Tasks(m, gid)
        /\ todo' = Tasks(m, gid) \/ m.chat \in Groups
  BY MessageStep
<1>3. PICK k \in {0, 1} : TasksOf(todo', m, gid, k)
  BY <1>2, MessageTasks
<1>4. /\ Media' = Media /\ Jobs \subseteq Jobs'
      /\ \A d \in Jobs' : d \in Jobs \/ (m.file /\ d.m = m)
      /\ m.file => \E d \in Jobs' : d.m = m
      /\ \A d, e \in Jobs' : d \notin Jobs /\ e \notin Jobs => d = e
  BY <1>1, <1>2, StartDownloadJobs
<1>5. /\ StoredOnce' /\ \A n, part : IsStored(n, part)' <=> IsStored(n, part)
      /\ \A n : Kept(n)' <=> Kept(n)
  BY <1>1, StoredOnceStays DEF StoredInv
<1>6. Excused \subseteq Excused'
  BY CutGrows
<1>7. m \notin Excused' => ~Kept(m) /\ \A d \in Jobs : d.m # m
  BY <1>1, NotStoredBefore
<1>8. ASSUME NEW i \in DOMAIN todo', NEW n, NEW part, HasRow(todo'[i], n, part)
      PROVE  n = m /\ \E j \in DOMAIN Texts(m) : i = k + j /\ part = Texts(m)[j]
  <2>1. /\ Id(m).op = "id" /\ Push(MessageRead(m)).op = "push"
        /\ \A g \in Groups : Push(GetMetadata(g)).op = "push"
        /\ \A p : Row(m, p, gid).m = m /\ Row(m, p, gid).part = p
    BY DEF Id, Push, Row
  <2>2. PICK j \in 1 .. Len(Texts(m)) : i = k + j
    BY <1>3, <1>8, <2>1 DEF TasksOf, HasRow
  <2>3. todo'[i] = Row(m, Texts(m)[j], gid) /\ j \in DOMAIN Texts(m)
    BY <1>3, <2>2, TextsShape DEF TasksOf
  <2> QED
    BY <1>8, <2>1, <2>2, <2>3 DEF HasRow
<1>9. FreshRows'
  <2> SUFFICES ASSUME NEW i \in DOMAIN todo', NEW n \in Msgs \ Excused', NEW part \in Parts,
                      HasRow(todo'[i], n, part)
               PROVE  ~IsStored(n, part) /\ \A j \in DOMAIN todo' : HasRow(todo'[j], n, part) => i = j
    BY <1>5 DEF FreshRows, HasRow
  <2>1. n = m
    BY <1>8
  <2>2. ~IsStored(n, part)
    BY <1>7, <2>1 DEF Kept
  <2>3. ASSUME NEW j \in DOMAIN todo', HasRow(todo'[j], n, part)
        PROVE  i = j
    <3>1. PICK a \in DOMAIN Texts(m) : i = k + a /\ part = Texts(m)[a]
      BY <1>8
    <3>2. PICK b \in DOMAIN Texts(m) : j = k + b /\ part = Texts(m)[b]
      BY <1>8, <2>3
    <3> QED
      BY <3>1, <3>2, TextsShape
  <2> QED
    BY <2>2, <2>3
<1>10. KnownOf'
  <2> SUFFICES ASSUME NEW n \in Msgs \ (Excused' \cup wa_msgids),
                      Kept(n) \/ (\E i \in DOMAIN todo', part \in Parts : HasRow(todo'[i], n, part)),
                      Id(n) \notin Elements(todo')
               PROVE  \E e \in Jobs' : e.m = n
    BY <1>1, <1>5 DEF KnownOf, HasRow, Id
  <2>1. CASE Kept(n)
    <3>1. PICK e \in Jobs : e.m = n
      BY <1>1, <1>6, <2>1 DEF StoredInv, KnownOf
    <3> QED
      BY <1>4, <3>1
  <2>2. CASE \E i \in DOMAIN todo', part \in Parts : HasRow(todo'[i], n, part)
    <3>1. n = m /\ DOMAIN Texts(m) # {}
      BY <1>8, <2>2
    <3>2. m.text
      BY <3>1, TextsShape
    <3>3. m.file
      BY <1>3, <3>1, <3>2 DEF TasksOf
    <3> QED
      BY <1>4, <3>1, <3>3
  <2> QED
    BY <2>1, <2>2
<1>11. FreshJobs'
  <2> SUFFICES ASSUME NEW d \in Jobs', d.m \notin Excused'
               PROVE  /\ ~IsStored(d.m, "file")
                      /\ \A i \in DOMAIN todo' : ~HasRow(todo'[i], d.m, "file")
                      /\ \A e \in Jobs' : e.m = d.m => e = d
                      /\ d \in downloads' => d \notin Media
    BY <1>4, <1>5 DEF FreshJobs, HasRow
  <2>1. \A i \in DOMAIN todo' : ~HasRow(todo'[i], d.m, "file")
    BY <1>8, TextsShape
  <2>2. CASE d.m = m
    <3>1. \A e \in Jobs' : e.m = m => e \notin Jobs
      BY <1>7, <2>2
    <3>2. ~IsStored(m, "file")
      BY <1>7, <2>2 DEF Kept, Parts
    <3>3. d \notin Media
      BY <2>2, <3>1 DEF Jobs
    <3> QED
      BY <1>4, <2>1, <2>2, <3>1, <3>2, <3>3
  <2>3. CASE d.m # m
    <3>1. d \in Jobs /\ d.m \notin Excused /\ \A e \in Jobs' : e.m = d.m => e \in Jobs
      BY <1>4, <1>6, <2>3
    <3>2. d \in downloads' => d \in downloads
      BY <1>2, <2>3 DEF StartDownload
    <3> QED
      BY <2>1, <3>1, <3>2 DEF StoredInv, FreshJobs
  <2> QED
    BY <2>2, <2>3
<1>12. FreshQueue'
  BY <1>1, <1>6, QueueStays DEF StoredInv
<1> QED
  BY <1>5, <1>9, <1>10, <1>11, <1>12 DEF StoredInv

\* Every step keeps StoredInv.
LEMMA StoredInvNext ==
  ASSUME TypeOK, StoredInv, Next
  PROVE  StoredInv'
<1>1. Excused \subseteq Excused'
  BY CutGrows
<1>2. ASSUME messages' = messages
      PROVE  /\ StoredOnce' /\ \A m, part : IsStored(m, part)' <=> IsStored(m, part)
             /\ \A m : Kept(m)' <=> Kept(m)
  BY <1>2, StoredOnceStays DEF StoredInv
<1>3. CASE Restarted
  <2>1. /\ todo' = <<>> /\ rx' = <<>> /\ downloads' = {} /\ UNCHANGED <<messages, wa_msgids>>
        /\ cut' = cut \cup {m \in Msgs \ wa_msgids : Kept(m)}
    BY <1>3 DEF Restarted, database
  <2>2. DOMAIN todo' = {} /\ DOMAIN rx' = {} /\ Jobs' = {}
    BY <2>1 DEF Jobs, Media, Elements
  <2>3. KnownOf'
    BY <1>2, <2>1, <2>2 DEF KnownOf, Excused
  <2> QED
    BY <1>2, <2>1, <2>2, <2>3 DEF StoredInv, FreshRows, FreshJobs, FreshQueue
<1>4. ASSUME UNCHANGED <<todo, messages, wa_msgids>>, Jobs' = Jobs
      PROVE  StoredOnce' /\ FreshRows' /\ KnownOf'
  BY <1>1, <1>2, <1>4 DEF StoredInv, FreshRows, KnownOf
<1>5. ASSUME messages' = messages, Jobs' = Jobs, Media' = Media, downloads' = downloads,
             \A i \in DOMAIN todo', m \in Msgs \ Excused, part \in Parts : HasRow(todo'[i], m, part) =>
                i \in DOMAIN todo /\ todo'[i] = todo[i]
      PROVE  FreshJobs'
  <2> SUFFICES ASSUME NEW d \in Jobs, d.m \notin Excused'
               PROVE  \A i \in DOMAIN todo' : ~HasRow(todo'[i], d.m, "file")
    BY <1>1, <1>2, <1>5 DEF StoredInv, FreshJobs, HasRow
  <2>1. d.m \in Msgs /\ d.m \notin Excused
    BY <1>1, MediaType DEF Jobs, TypeOK, Job
  <2> QED
    BY <1>5, <2>1 DEF StoredInv, FreshJobs, Parts
<1>6. CASE Quiet
  <2>1. UNCHANGED <<todo, messages, wa_msgids>> /\ Jobs' = Jobs
    BY <1>6, QuietStep
  <2>2. CASE \E d \in downloads : DownloadEnds(d)
    BY <1>4, <2>1, <2>2, DownloadEndsQueue DEF StoredInv
  <2>3. CASE ~\E d \in downloads : DownloadEnds(d)
    <3>1. /\ downloads' = downloads
          /\ \/ rx' = rx
             \/ rx # <<>> /\ Head(rx).c # "media" /\ rx' = Tail(rx)
             \/ \E c \in Orders : rx' = Append(rx, c)
      BY <1>6, <2>3, QuietQueue
    <3>2. Media' = Media
      BY <3>1, JobsStay
    <3>3. FreshQueue'
      BY <1>1, <3>1, QueueStays DEF StoredInv
    <3>4. FreshJobs'
      BY <1>5, <2>1, <3>1, <3>2
    <3> QED
      BY <1>4, <2>1, <3>3, <3>4 DEF StoredInv
  <2> QED
    BY <2>2, <2>3
<1>7. CASE HandOver
  <2>1. UNCHANGED <<todo, rx, downloads, messages, wa_msgids>>
    BY <1>7 DEF HandOver, OutboxOnly, database
  <2>2. Media' = Media /\ Jobs' = Jobs
    BY <2>1, JobsStay
  <2>3. FreshQueue'
    BY <1>1, <2>1, QueueStays DEF StoredInv
  <2> QED
    BY <1>4, <1>5, <2>1, <2>2, <2>3 DEF StoredInv
<1>8. ASSUME todo = <<>>, UNCHANGED <<rx, downloads, messages, wa_msgids>>,
             \A i \in DOMAIN todo', m \in Msgs \ Excused, part \in Parts : ~HasRow(todo'[i], m, part)
      PROVE  StoredInv'
  <2>1. Media' = Media /\ Jobs' = Jobs
    BY <1>8, JobsStay
  <2>2. FreshQueue'
    BY <1>1, <1>8, QueueStays DEF StoredInv
  <2>3. FreshRows'
    BY <1>1, <1>8 DEF FreshRows
  <2>4. KnownOf'
    <3>1. DOMAIN todo = {} /\ Elements(todo) = {}
      BY <1>8 DEF Elements
    <3> SUFFICES ASSUME NEW m \in Msgs \ (Excused' \cup wa_msgids),
                        Kept(m) \/ (\E i \in DOMAIN todo', part \in Parts : HasRow(todo'[i], m, part))
                 PROVE  \E d \in Jobs : d.m = m
      BY <1>2, <1>8, <2>1 DEF KnownOf, HasRow
    <3>2. m \in Msgs \ (Excused \cup wa_msgids) /\ Kept(m)
      BY <1>1, <1>8
    <3> QED
      BY <3>1, <3>2 DEF StoredInv, KnownOf
  <2>5. FreshJobs'
    BY <1>5, <1>8, <2>1
  <2> QED
    BY <1>2, <1>8, <2>2, <2>3, <2>4, <2>5 DEF StoredInv
<1>9. CASE Aside
  <2>1. todo = <<>> /\ UNCHANGED <<rx, downloads, messages, wa_msgids>>
    BY <1>9, AsideStep
  <2>2. \A i \in DOMAIN todo', m \in Msgs \ Excused, part \in Parts : ~HasRow(todo'[i], m, part)
    BY <1>9, AsideTasks DEF Elements, HasRow, Excused
  <2> QED
    BY <1>8, <2>1, <2>2
<1>10. ASSUME NEW m \in Msgs, NEW is_new \in BOOLEAN, OnMessageOfOurs(m, is_new)
       PROVE  StoredInv'
  <2>1. todo = <<>> /\ UNCHANGED <<rx, downloads, messages, wa_msgids>> /\ todo' = <<Id(m)>>
    BY <1>10 DEF OnMessageOfOurs, Told, Tells
  <2>2. \A i \in DOMAIN todo' : todo'[i].op = "id"
    BY <2>1 DEF Id
  <2>3. \A i \in DOMAIN todo', n \in Msgs \ Excused, part \in Parts : ~HasRow(todo'[i], n, part)
    BY <2>2 DEF HasRow
  <2> QED
    BY <1>8, <2>1, <2>3
<1> QED
  BY <1>3, <1>6, <1>7, <1>9, <1>10, StoredTask, StoredRow, StoredMedia, StoredMessage, NextSplit

\* A message is stored once however often WhatsApp tells of it, but for what a
\* crash between two queries, or its repetition while its file is on its way,
\* may repeat.
THEOREM MessagesAreStoredOnce == Spec => []StoredOnce
<1> DEFINE Inv == TypeOK /\ StoredInv
<1>1. Init => Inv
  <2> SUFFICES ASSUME Init PROVE StoredInv
    BY InitType
  <2>1. DOMAIN messages = {} /\ DOMAIN todo = {} /\ DOMAIN rx = {} /\ Jobs = {}
    BY DEF Init, Empty, Elements, Jobs, Media
  <2>2. \A m : ~Kept(m)
    BY <2>1 DEF Kept, IsStored
  <2> QED
    BY <2>1, <2>2 DEF StoredInv, StoredOnce, FreshRows, KnownOf, FreshJobs, FreshQueue
<1>2. Inv /\ [Next]_vars => Inv'
  <2>1. ASSUME Inv, Next PROVE Inv'
    BY <2>1, NextType, StoredInvNext
  <2>2. ASSUME Inv, UNCHANGED vars PROVE Inv'
    <3>1. UNCHANGED <<todo, rx, downloads, messages, wa_msgids, cut>>
      BY <2>2 DEF vars, database, history
    <3>2. Jobs' = Jobs /\ Media' = Media /\ Excused' = Excused
      BY <3>1 DEF Jobs, Media, Excused
    <3>3. (\A m, part : IsStored(m, part)' <=> IsStored(m, part)) /\ (\A m : Kept(m)' <=> Kept(m))
      BY <3>1 DEF IsStored, Kept
    <3>4. StoredOnce' /\ FreshQueue'
      BY <2>2, <3>1, <3>2 DEF StoredInv, StoredOnce, FreshQueue, Excused
    <3>5. FreshRows' /\ KnownOf' /\ FreshJobs'
      BY <2>2, <3>1, <3>2, <3>3 DEF StoredInv, FreshRows, KnownOf, FreshJobs
    <3> QED
      BY <2>2, <3>4, <3>5, StutterType DEF StoredInv
  <2> QED
    BY <2>1, <2>2
<1>3. Inv => StoredOnce
  BY DEF StoredInv
<1> QED
  BY <1>1, <1>2, <1>3, PTL DEF Spec
=============================================================================
