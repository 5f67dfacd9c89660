-------------------------- MODULE InspShownProofs --------------------------
(***************************************************************************)
(* Proofs about the messages of InspNetwork: each is shown at most once    *)
(* (it implements AtMostOnce), in order, and none is forgotten.            *)
(***************************************************************************)
EXTENDS InspProofs

-----------------------------------------------------------------------------
(* Shown at most once *)

\* Where a message may wait: in the table, and as a line in the outbox
Rows     == {m.id : m \in messages}
Lines(s) == {l.msg.id : l \in {k \in Elements(s) : k.l = "MSG"}}

\* No message is in two lines.
LinesOnce(s) ==
  \A i, j \in DOMAIN s : s[i].l = "MSG" /\ s[j].l = "MSG" /\ s[i].msg.id = s[j].msg.id => i = j

\* The inductive invariant: a message waits at one place, and its id is one
\* that was given out.
OneRow ==
  /\ \A m, n \in messages : m.id = n.id => m = n
  /\ LinesOnce(outbox)
  /\ Rows \cap Lines(outbox) = {}
  /\ Rows \cup Lines(outbox) \subseteq 0 .. inputs - 1

\* What the abstract queue holds.
LEMMA QueuedIs ==
  Queued = Rows \cup Lines(outbox) /\ Queued' = Rows' \cup Lines(outbox')
BY DEF Queued, Rows, Lines

\* A line that is not a message is put behind the others.
LEMMA OtherLine ==
  ASSUME NEW S, NEW s \in Seq(S), NEW x \in S, x.l # "MSG"
  PROVE  Lines(Append(s, x)) = Lines(s) /\ (LinesOnce(s) => LinesOnce(Append(s, x)))
<1>1. Elements(Append(s, x)) = Elements(s) \cup {x}
  BY ElementsOf
<1>2. Lines(Append(s, x)) = Lines(s)
  BY <1>1 DEF Lines
<1> DEFINE t == Append(s, x)
<1>3. \A i \in DOMAIN t : t[i].l = "MSG" => i \in DOMAIN s /\ t[i] = s[i]
  OBVIOUS
<1> HIDE DEF t
<1>4. LinesOnce(s) => LinesOnce(t)
  BY <1>3 DEF LinesOnce
<1> QED
  BY <1>2, <1>4 DEF t

\* A message is put behind the others.
LEMMA MessageLine ==
  ASSUME NEW S, NEW s \in Seq(S), NEW x \in S, x.l = "MSG", LinesOnce(s), x.msg.id \notin Lines(s)
  PROVE  Lines(Append(s, x)) = Lines(s) \cup {x.msg.id} /\ LinesOnce(Append(s, x))
<1>1. Elements(Append(s, x)) = Elements(s) \cup {x}
  BY ElementsOf
<1>2. Lines(Append(s, x)) = Lines(s) \cup {x.msg.id}
  BY <1>1 DEF Lines
<1> DEFINE t == Append(s, x)
<1>a. /\ DOMAIN s = 1 .. Len(s) /\ DOMAIN t = 1 .. Len(s) + 1 /\ Len(s) \in Nat
      /\ \A i \in 1 .. Len(s) : t[i] = s[i]
      /\ t[Len(s) + 1] = x
  OBVIOUS
<1>3. \A i \in DOMAIN t : (i \in DOMAIN s /\ t[i] = s[i]) \/ (i = Len(s) + 1 /\ t[i] = x)
  <2> HIDE DEF t
  <2> QED
    BY <1>a
<1>4. \A i \in DOMAIN s : s[i].l = "MSG" => s[i].msg.id # x.msg.id
  BY DEF Lines, Elements
<1> HIDE DEF t
<1>5. LinesOnce(t)
  BY <1>3, <1>4 DEF LinesOnce
<1> QED
  BY <1>2, <1>5 DEF t

\* The server handles the first line.
LEMMA FirstLine ==
  ASSUME NEW s \in Seq(LineOut), s # <<>>, LinesOnce(s)
  PROVE  /\ LinesOnce(Tail(s))
         /\ Head(s).l # "MSG" => Lines(Tail(s)) = Lines(s)
         /\ Head(s).l = "MSG" =>
              Head(s).msg.id \in Lines(s) /\ Lines(Tail(s)) = Lines(s) \ {Head(s).msg.id}
<1>1. Elements(s) = {Head(s)} \cup Elements(Tail(s))
  BY ElementsOf
<1> DEFINE t == Tail(s)
<1>2. /\ 1 \in DOMAIN s /\ s[1] = Head(s)
      /\ \A i \in DOMAIN t : i \in Nat \ {0} /\ i + 1 \in DOMAIN s /\ t[i] = s[i + 1]
  OBVIOUS
<1> HIDE DEF t
<1>3. LinesOnce(t)
  <2> SUFFICES ASSUME NEW i \in DOMAIN t, NEW j \in DOMAIN t,
                      t[i].l = "MSG", t[j].l = "MSG", t[i].msg.id = t[j].msg.id
               PROVE  i = j
    BY DEF LinesOnce
  <2>1. i + 1 = j + 1
    BY <1>2 DEF LinesOnce
  <2> QED
    BY <1>2, <2>1
<1>4. \A i \in DOMAIN t : t[i].l = "MSG" /\ Head(s).l = "MSG" => t[i].msg.id # Head(s).msg.id
  <2> SUFFICES ASSUME NEW i \in DOMAIN t, t[i].l = "MSG", Head(s).l = "MSG", t[i].msg.id = Head(s).msg.id
               PROVE  FALSE
    OBVIOUS
  <2>1. 1 = i + 1
    BY <1>2 DEF LinesOnce
  <2> QED
    BY <1>2, <2>1
<1>5. Head(s).l = "MSG" => Head(s).msg.id \notin Lines(t)
  BY <1>4 DEF Lines, Elements
<1>6. Head(s).l # "MSG" => Lines(t) = Lines(s)
  BY <1>1 DEF Lines, t
<1>7. Head(s).l = "MSG" => Lines(s) = Lines(t) \cup {Head(s).msg.id}
  BY <1>1 DEF Lines, t
<1> QED
  BY <1>3, <1>5, <1>6, <1>7 DEF t

\* A step that shows and stores nothing.
LEMMA OtherStep ==
  ASSUME TypeOK, OneRow, messages' \subseteq messages, got' = got, inputs' \in {inputs, inputs + 1},
         Lines(outbox') \subseteq Lines(outbox), LinesOnce(outbox')
  PROVE  OneRow' /\ Shown!Next
<1>1. inputs \in Nat
  BY DEF TypeOK
<1>2. 0 .. inputs - 1 \subseteq 0 .. inputs' - 1
  <2>1. CASE inputs' = inputs
    BY <2>1
  <2>2. CASE inputs' = inputs + 1
    BY <1>1, <2>2
  <2> QED
    BY <2>1, <2>2
<1>3. Rows' \subseteq Rows
  BY DEF Rows
<1>4. OneRow'
  BY <1>2, <1>3 DEF OneRow
<1>5. Shown!Lose
  BY <1>2, <1>3, QueuedIs DEF Shown!Lose
<1> QED
  BY <1>4, <1>5 DEF Shown!Next

\* A step that leaves the messages where they are.
LEMMA SameMessages ==
  ASSUME TypeOK, OneRow, UNCHANGED <<messages, got, outbox>>, inputs' \in {inputs, inputs + 1}
  PROVE  OneRow' /\ Shown!Next
<1>1. Lines(outbox') \subseteq Lines(outbox) /\ LinesOnce(outbox')
  BY DEF OneRow
<1> QED
  BY <1>1, OtherStep

\* A step that sends a line that is not a message.
LEMMA SendsOther ==
  ASSUME TypeOK, OneRow, UNCHANGED <<messages, got, inputs>>,
         NEW x, x.l # "MSG", Send(x)
  PROVE  OneRow' /\ Shown!Next
<1>1. outbox \in Seq(LineOut \cup {x}) /\ outbox' = Append(outbox, x)
  BY DEF TypeOK, Send
<1>2. Lines(outbox') = Lines(outbox) /\ LinesOnce(outbox')
  BY <1>1, OtherLine DEF OneRow
<1> QED
  BY <1>2, OtherStep

\* A restart loses the lines; the messages in the table stay.
LEMMA RestartLoses ==
  ASSUME TypeOK, OneRow, Restarted, messages' = messages, inputs' \in {inputs, inputs + 1}
  PROVE  OneRow' /\ Shown!Next
<1>1. outbox' = <<>> /\ got' = got
  BY DEF Restarted
<1>2. Lines(outbox') = {} /\ LinesOnce(outbox')
  BY <1>1 DEF Lines, LinesOnce, Elements
<1> QED
  BY <1>1, <1>2, OtherStep

\* process_msg_plain and process_msg_pdu: the message that is deleted is the
\* one that is sent.
LEMMA MessageShownQueued ==
  ASSUME TypeOK, OneRow, NEW m \in messages, MessageShown(m)
  PROVE  OneRow' /\ Shown!Next
<1>0. ProcessMsg(m) /\ UNCHANGED <<got, inputs>>
  BY DEF MessageShown, network
<1>1. CASE m.kind = "partial"
  <2>1. UNCHANGED <<messages, got, outbox, inputs>>
    BY <1>0, <1>1 DEF ProcessMsg
  <2> QED
    BY <2>1, SameMessages
<1>2. CASE m.kind # "partial"
  <2>1. PICK adm \in Admins :
          Send([l |-> "MSG", uuid |-> contacts[m.addr].uuid, to |-> adm, msg |-> m])
    BY <1>0, <1>2 DEF ProcessMsg
  <2> DEFINE x == [l |-> "MSG", uuid |-> contacts[m.addr].uuid, to |-> adm, msg |-> m]
  <2>2. x.l = "MSG" /\ x.msg = m /\ outbox' = Append(outbox, x) /\ messages' = messages \ {m}
    BY <1>0, <1>2, <2>1 DEF ProcessMsg, Send
  <2> HIDE DEF x
  <2>3. outbox \in Seq(LineOut \cup {x})
    BY DEF TypeOK
  <2>4. /\ m.id \in Rows /\ m.id \notin Lines(outbox) /\ Rows' = Rows \ {m.id}
    BY <2>2 DEF OneRow, Rows
  <2>5. Lines(outbox') = Lines(outbox) \cup {m.id} /\ LinesOnce(outbox')
    BY <2>2, <2>3, <2>4, MessageLine DEF OneRow
  <2>6. OneRow'
    BY <1>0, <2>2, <2>4, <2>5 DEF OneRow
  <2>7. Shown!Lose
    BY <1>0, <2>4, <2>5, QueuedIs DEF Shown!Lose
  <2> QED
    BY <2>6, <2>7 DEF Shown!Next
<1> QED
  BY <1>1, <1>2

\* One step of a handler.
LEMMA HandlerQueue ==
  ASSUME TypeOK, OneRow, Handler
  PROVE  OneRow' /\ Shown!Next
<1>1. CASE SetupGhost
  <2> DEFINE x == [l |-> "UID", uuid |-> GetUuid, addr |-> Head(todo).addr]
  <2>1. Send(x) /\ UNCHANGED <<messages, got, inputs>>
    BY <1>1 DEF SetupGhost, network
  <2>2. x.l # "MSG"
    OBVIOUS
  <2> HIDE DEF x
  <2> QED
    BY <2>1, <2>2, SendsOther
<1>2. CASE UuidsExhausted
  BY <1>2, RestartLoses DEF UuidsExhausted
<1>3. CASE \/ SetupNothing \/ QuasiburstStep \/ QuasiburstEnd \/ BecomeLinked \/ StartMessages \/ MessagesEnd
           \/ \E m \in messages : MessageOfStranger(m) \/ MessageNeedsGhost(m)
  <2>1. UNCHANGED <<messages, got, outbox, inputs>>
    BY <1>3 DEF SetupNothing, QuasiburstStep, QuasiburstEnd, BecomeLinked, StartMessages, MessagesEnd,
       MessageOfStranger, MessageNeedsGhost, store, network
  <2> QED
    BY <2>1, SameMessages
<1> QED
  BY <1>1, <1>2, <1>3, MessageShownQueued DEF Handler

\* Neither lines of the server nor commands make the bridge send a message.
LEMMA InputSendsNoMessage ==
  ASSUME ReadLine \/ TakeCommand \/ SendServer
  PROVE  outbox' = outbox \/ \E x : x.l # "MSG" /\ Send(x)
<1>1. CASE ReadLine
  BY <1>1 DEF ReadLine, ReadServer, ReadEndburst, ReadUid, ReadNick, ReadQuitOrKill, ReadSquit,
     ReadDirectMessage, ReadCommand
<1>2. CASE TakeDropContactByNick
  BY <1>2 DEF TakeDropContactByNick, RemoveContact
<1>3. CASE TakeCommand /\ ~TakeDropContactByNick
  BY <1>3 DEF TakeCommand, TakeProcessMessages, TakeSetupContact,
     TakeQueryContact, TakeChangeNickByNick, TakeChangeNick, TakeSetWhatsappByNick
<1>4. CASE SendServer
  BY <1>4 DEF SendServer
<1> QED
  BY <1>1, <1>2, <1>3, <1>4

\* A line of the server, or a ContactFactoryCommand.
LEMMA InputQueue ==
  ASSUME TypeOK, OneRow, ReadLine \/ TakeCommand \/ SendServer
  PROVE  OneRow' /\ Shown!Next
<1>1. UNCHANGED <<messages, got, inputs>>
  BY DEF ReadLine, ReadServer, ReadEndburst, ReadUid, ReadNick, ReadQuitOrKill, ReadSquit,
     ReadDirectMessage, ReadCommand, TakeCommand, TakeProcessMessages, TakeSetupContact,
     TakeQueryContact, TakeDropContactByNick, TakeChangeNickByNick, TakeChangeNick,
     TakeSetWhatsappByNick, SendServer, store, network
<1>2. outbox' = outbox \/ \E x : x.l # "MSG" /\ Send(x)
  BY InputSendsNoMessage
<1>3. CASE outbox' = outbox
  BY <1>1, <1>3, SameMessages
<1>4. ASSUME NEW x, x.l # "MSG", Send(x)
      PROVE  OneRow' /\ Shown!Next
  BY <1>1, <1>4, SendsOther
<1> QED
  BY <1>2, <1>3, <1>4

\* The server shows a message to the administrator, or drops it.
LEMMA ServerReadsQueue ==
  ASSUME TypeOK, OneRow, ServerReads
  PROVE  OneRow' /\ Shown!Next
<1> DEFINE x == Head(outbox)
<1>1. /\ outbox \in Seq(LineOut) /\ outbox # <<>> /\ outbox' = Tail(outbox) /\ x \in LineOut
      /\ UNCHANGED <<messages, inputs>>
  BY SeqType DEF ServerReads, TypeOK, local, store
<1>2. /\ LinesOnce(outbox')
      /\ x.l # "MSG" => Lines(outbox') = Lines(outbox)
      /\ x.l = "MSG" => x.msg.id \in Lines(outbox) /\ Lines(outbox') = Lines(outbox) \ {x.msg.id}
  BY <1>1, FirstLine DEF OneRow
<1>3. CASE got' = got
  BY <1>1, <1>2, <1>3, OtherStep
<1>4. CASE got' # got
  <2>1. x.l = "MSG" /\ got' = Append(got, [msg |-> x.msg, as |-> seen[x.uuid]])
    BY <1>1, <1>4 DEF ServerReads, LineOut
  <2> DEFINE y == [msg |-> x.msg, as |-> seen[x.uuid]]
             d == [i \in DOMAIN got |-> got[i].msg.id]
             e == [i \in DOMAIN got' |-> got'[i].msg.id]
  <2>2. got \in Seq([msg : Message, as : Addrs]) /\ y.msg = x.msg /\ got' = Append(got, y)
    BY <2>1 DEF TypeOK
  <2> HIDE DEF y
  <2>3. e = Append(d, x.msg.id)
    <3>1. /\ DOMAIN got = 1 .. Len(got) /\ Len(got) \in Nat /\ DOMAIN got' = 1 .. Len(got) + 1
          /\ \A i \in 1 .. Len(got) : got'[i] = got[i]
          /\ got'[Len(got) + 1] = y
      BY <2>2
    <3>2. d \in Seq(Nat) /\ Len(d) = Len(got)
      <4>1. \A i \in 1 .. Len(got) : got[i] \in [msg : Message, as : Addrs]
        BY <2>2, ElementOfSeq
      <4>2. \A m \in Message : m.id \in Nat
        BY DEF Message
      <4>3. \A i \in 1 .. Len(got) : got[i].msg.id \in Nat
        BY <4>1, <4>2
      <4> QED
        BY <3>1, <4>3
    <3> QED
      BY <2>2, <3>1, <3>2
  <2>4. OneRow'
    BY <1>1, <1>2 DEF OneRow, Rows
  <2>5. /\ x.msg.id \in Queued /\ Queued' = Queued \ {x.msg.id}
    BY <1>1, <1>2, <2>1, QueuedIs DEF OneRow, Rows
  <2>6. Shown!Deliver
    BY <1>1, <2>3, <2>5 DEF Shown!Deliver
  <2> QED
    BY <2>4, <2>6 DEF Shown!Next
<1> QED
  BY <1>3, <1>4

\* cmgl_complete and store_message: a message gets an id that was not given out.
LEMMA ArrivesQueue ==
  ASSUME TypeOK, OneRow, NEW a \in Addrs, NEW k \in Kinds, NEW ts \in Nat, NewMessage(a, k, ts),
         inputs' = inputs + 1, UNCHANGED <<outbox, got>>
  PROVE  OneRow' /\ Shown!Next
<1> DEFINE new == [id |-> inputs, ts |-> ts, addr |-> a, kind |-> k]
<1>0. messages' = messages \cup {new} /\ new.id = inputs
  BY DEF NewMessage
<1> HIDE DEF new
<1>1. inputs \in Nat /\ Rows' = Rows \cup {inputs}
  BY <1>0 DEF TypeOK, Rows
<1>2. inputs \notin Rows \cup Lines(outbox)
  BY <1>1 DEF OneRow
<1>3. 0 .. inputs' - 1 = (0 .. inputs - 1) \cup {inputs}
  BY <1>1
<1>4. \A m, n \in messages' : m.id = n.id => m = n
  BY <1>0, <1>2 DEF OneRow, Rows
<1>5. OneRow'
  BY <1>1, <1>2, <1>3, <1>4 DEF OneRow
<1>6. Queued' = Queued \cup {inputs} /\ inputs \notin Queued /\ inputs \notin 0 .. inputs - 1
  BY <1>1, <1>2, QueuedIs
<1>7. Shown!Accept
  BY <1>3, <1>6 DEF Shown!Accept
<1> QED
  BY <1>5, <1>7 DEF Shown!Next

\* Outside events.
LEMMA OutsideQueue ==
  ASSUME TypeOK, OneRow, Outside
  PROVE  OneRow' /\ Shown!Next
<1>1. CASE Crash
  BY <1>1, RestartLoses DEF Crash, Input, store
<1>2. ASSUME NEW a \in Addrs, SmsArrives(a)
      PROVE  OneRow' /\ Shown!Next
  <2>1. /\ \E k \in Kinds : NewMessage(a, k, inputs)
        /\ inputs' = inputs + 1 /\ inputs \in Nat /\ UNCHANGED <<outbox, got>>
    BY <1>2 DEF SmsArrives, Input, Kinds, TypeOK, network
  <2> QED
    BY <2>1, ArrivesQueue
<1>3. ASSUME NEW a \in Addrs, WaArrives(a)
      PROVE  OneRow' /\ Shown!Next
  <2>1. /\ \E ts \in Nat : NewMessage(a, "wa", ts)
        /\ inputs' = inputs + 1 /\ "wa" \in Kinds /\ UNCHANGED <<outbox, got>>
    BY <1>3 DEF WaArrives, Input, Kinds, TypeOK, network
  <2> QED
    BY <2>1, ArrivesQueue
<1>4. CASE \/ Split
           \/ \E a \in Addrs : WaContactSeen(a)
           \/ \E a \in Addrs, n \in Nicks : WaContactRenamed(a, n)
           \/ \E u \in Remotes, n \in Nicks \cup {AdminNick} : Connect(u, n) \/ Rename(u, n)
           \/ \E u \in Remotes : Quit(u)
           \/ \E u \in DOMAIN seen : Kill(u)
           \/ \E u \in Remotes, g \in DOMAIN seen : WriteToGhost(u, g)
           \/ \E u \in Remotes, cmd \in AdminCommands : WriteToControl(u, cmd)
  <2>1. UNCHANGED <<messages, got, outbox>> /\ inputs' = inputs + 1
    BY <1>4 DEF Split, WaContactSeen, WaContactRenamed, Connect, Rename, Quit, Kill, WriteToGhost,
       WriteToControl, Input, local, store, network
  <2> QED
    BY <2>1, SameMessages
<1> QED
  BY <1>1, <1>2, <1>3, <1>4 DEF Outside

\* Every step of the link and of what is around it is one of the abstract
\* queue, or none.
LEMMA StepIsOfShown ==
  ASSUME LinkInv, OneRow, [Next]_vars
  PROVE  OneRow' /\ [Shown!Next]_(Shown!vars)
<1>0. TypeOK
  BY DEF LinkInv
<1>1. ASSUME NEW src \in Sources, ManagerStep(src)
      PROVE  OneRow' /\ Shown!Next
  <2>1. UNCHANGED <<messages, got, outbox, inputs>>
    BY <1>1 DEF ManagerStep, network
  <2> QED
    BY <1>0, <2>1, SameMessages
<1>2. CASE UNCHANGED vars
  <2>1. UNCHANGED <<messages, got, outbox, inputs>>
    BY <1>2 DEF vars
  <2> QED
    BY <1>0, <2>1, SameMessages
<1>3. CASE Handler
  BY <1>0, <1>3, HandlerQueue
<1>4. CASE SendServer \/ ReadLine \/ TakeCommand
  BY <1>0, <1>4, InputQueue
<1>5. CASE ServerReads
  BY <1>0, <1>5, ServerReadsQueue
<1>6. CASE Outside
  BY <1>0, <1>6, OutsideQueue
<1>7. CASE \E src \in Sources : ManagerStep(src)
  BY <1>1, <1>7
<1>8. \/ Handler \/ (SendServer \/ ReadLine \/ TakeCommand) \/ ServerReads \/ Outside
      \/ (\E src \in Sources : ManagerStep(src)) \/ UNCHANGED vars
  BY DEF Next, Bridge
<1> QED
  BY <1>2, <1>3, <1>4, <1>5, <1>6, <1>7, <1>8

\* Initially nothing waits.
LEMMA InitOneRow ==
  ASSUME Init
  PROVE  OneRow /\ Shown!Init
<1>1. messages = {} /\ outbox = <<>> /\ got = <<>> /\ inputs = 0
  BY DEF Init
<1>2. Rows = {} /\ Lines(outbox) = {} /\ LinesOnce(outbox)
  BY <1>1 DEF Rows, Lines, LinesOnce, Elements
<1>3. OneRow
  BY <1>1, <1>2 DEF OneRow
<1>4. Queued = {} /\ 0 .. inputs - 1 = {}
  BY <1>1, <1>2, QueuedIs
<1>5. [i \in DOMAIN got |-> got[i].msg.id] = <<>>
  BY <1>1
<1> QED
  BY <1>3, <1>4, <1>5 DEF Shown!Init

\* A message waits at one place.
LEMMA OneRowInvariant == Spec => []OneRow
<1>1. LinkInv /\ OneRow /\ [Next]_vars => OneRow'
  BY StepIsOfShown
<1> QED
  BY <1>1, InitOneRow, LinkInvariant, PTL DEF Spec

\* Whatever is killed, split off or restarted: showing messages implements a
\* queue that conveys each of them to the administrator at most once.
THEOREM ShowsAtMostOnce == Spec => ShownAtMostOnce
<1>1. LinkInv /\ OneRow /\ [Next]_vars => [Shown!Next]_(Shown!vars)
  BY StepIsOfShown
<1> QED
  BY <1>1, InitOneRow, OneRowInvariant, LinkInvariant, PTL DEF Spec, ShownAtMostOnce, Shown!Spec

\* The theorem about the abstract specification, for what it is here
ShownProofs == INSTANCE AtMostOnceProofs
                 WITH used <- 0 .. inputs - 1, waiting <- Queued,
                      delivered <- [i \in DOMAIN got |-> got[i].msg.id]

\* So the administrator never sees a message twice, and none that he has seen
\* is still in the table.
THEOREM ShownOnce ==
  Spec => [](/\ \A i, j \in DOMAIN got : got[i].msg.id = got[j].msg.id => i = j
             /\ \A i \in DOMAIN got : \A m \in messages : got[i].msg.id # m.id)
<1>1. Spec => ShownProofs!Spec
  <2>1. Shown!Init => ShownProofs!Init
    BY DEF Shown!Init, ShownProofs!Init
  <2>2. [Shown!Next]_(Shown!vars) => [ShownProofs!Next]_(ShownProofs!vars)
    BY DEF Shown!Next, Shown!Lose, Shown!Accept, Shown!Deliver, Shown!vars,
           ShownProofs!Next, ShownProofs!Lose, ShownProofs!Accept, ShownProofs!Deliver, ShownProofs!vars
  <2> QED
    BY ShowsAtMostOnce, <2>1, <2>2, PTL DEF ShownAtMostOnce, Shown!Spec, ShownProofs!Spec
<1>2. ShownProofs!Spec => []ShownProofs!OnceInv
  BY ShownProofs!ConveyedOnce
<1>3. ShownProofs!OnceInv =>
        /\ \A i, j \in DOMAIN got : got[i].msg.id = got[j].msg.id => i = j
        /\ \A i \in DOMAIN got : \A m \in messages : got[i].msg.id # m.id
  <2> SUFFICES ASSUME ShownProofs!OnceInv
               PROVE  /\ \A i, j \in DOMAIN got : got[i].msg.id = got[j].msg.id => i = j
                      /\ \A i \in DOMAIN got : \A m \in messages : got[i].msg.id # m.id
    OBVIOUS
  <2> DEFINE d == [i \in DOMAIN got |-> got[i].msg.id]
  <2>1. (\A i, j \in DOMAIN d : d[i] = d[j] => i = j) /\ Queued \cap Elements(d) = {}
    BY DEF ShownProofs!OnceInv, ShownProofs!Once, ShownProofs!Elements, Elements
  <2>2. \A m \in messages : m.id \in Queued
    BY DEF Queued
  <2>3. \A i \in DOMAIN got : got[i].msg.id \in Elements(d)
    BY DEF Elements
  <2> QED
    BY <2>1, <2>2, <2>3
<1> QED
  BY <1>1, <1>2, <1>3, PTL

-----------------------------------------------------------------------------
(* The order in which messages are shown *)

\* The messages in lines to the server, those that were shown, and those that
\* can be
Sent(s)  == {x.msg : x \in {y \in Elements(s) : y.l = "MSG"}}
Showed   == {got[i].msg : i \in DOMAIN got}
Showable == {m \in messages : m.kind # "partial"}

\* No message of X had to be shown before one of Y.
NotBefore(X, Y) == \A x \in X, y \in Y : ~Overtaken(x, y)

\* The lines of an outbox, and what was shown, are in order.
LinesInOrder(s) ==
  \A i, j \in DOMAIN s : i < j /\ s[i].l = "MSG" /\ s[j].l = "MSG" => ~Overtaken(s[j].msg, s[i].msg)
ShowedInOrder(s) == \A i, j \in DOMAIN s : i < j => ~Overtaken(s[j].msg, s[i].msg)

\* The loops over the messages that are left in a sequence of tasks
Loops(s) == {t \in Elements(s) : t.t = "show"}

\* A message that the loop is not going to show is of somebody whom the bridge
\* has asked for, or cannot be shown at all.  Nobody interrupts the loop.
LoopHasAll ==
  \A t \in Loops(todo) : \A m \in messages \ t.left : m.kind = "partial" \/ m.addr \notin DOMAIN recipients

\* The inductive invariant: LoopHasAll, and the order of all that was shown, is
\* on its way and waits.
OrderOf(showed, sent, showable) == NotBefore(sent, showed) /\ NotBefore(showable, showed \cup sent)
OrderInv ==
  /\ LoopHasAll
  /\ \A m \in Showed \cup Sent(outbox) : m.id \in 0 .. inputs - 1
  /\ ShowedInOrder(got)
  /\ LinesInOrder(outbox)
  /\ OrderOf(Showed, Sent(outbox), Showable)

\* A step after which the loops are old ones, and no message or recipient is new.
LEMMA LoopsLess ==
  ASSUME LoopHasAll, Loops(todo') \subseteq Loops(todo), messages' \subseteq messages,
         DOMAIN recipients' \subseteq DOMAIN recipients
  PROVE  LoopHasAll'
BY DEF LoopHasAll

\* A step after which no loop is going on.
LEMMA NoLoop ==
  ASSUME Loops(todo') = {}
  PROVE  LoopHasAll'
BY DEF LoopHasAll

\* The loops in the tasks that a handler puts in place of the first one.
LEMMA LoopsJoined ==
  ASSUME NEW r \in Seq(Task), NEW s \in Seq(Task)
  PROVE  Loops(r \o s) = Loops(r) \cup Loops(s)
<1>1. Elements(r \o s) = Elements(r) \cup Elements(s)
  BY ElementsOf
<1> QED
  BY <1>1 DEF Loops

\* The loops in a task that is alone.
LEMMA LoopsOfOne ==
  ASSUME NEW t \in Task
  PROVE  /\ <<t>> \in Seq(Task)
         /\ t.t = "show" => Loops(<<t>>) = {t}
         /\ t.t # "show" => Loops(<<t>>) = {}
<1>1. <<t>> \in Seq(Task) /\ <<t>>[1] = t /\ DOMAIN <<t>> = {1}
  OBVIOUS
<1>2. Elements(<<t>>) = {t}
  BY <1>1 DEF Elements
<1> QED
  BY <1>1, <1>2 DEF Loops

\* The loops that are left when the first task is done.
LEMMA LoopsOfTail ==
  ASSUME NEW s \in Seq(Task), s # <<>>
  PROVE  Head(s) \in Elements(s) /\ Loops(Tail(s)) \subseteq Loops(s) /\ Tail(s) \in Seq(Task)
<1>1. Elements(s) = {Head(s)} \cup Elements(Tail(s))
  BY ElementsOf
<1> QED
  BY <1>1 DEF Loops

\* A line that is not a message says nothing of the order.
LEMMA OtherLineOrder ==
  ASSUME NEW S, NEW s \in Seq(S), NEW x \in S, x.l # "MSG"
  PROVE  Sent(Append(s, x)) = Sent(s) /\ (LinesInOrder(s) => LinesInOrder(Append(s, x)))
<1>1. Elements(Append(s, x)) = Elements(s) \cup {x}
  BY ElementsOf
<1>2. Sent(Append(s, x)) = Sent(s)
  BY <1>1 DEF Sent
<1> DEFINE t == Append(s, x)
<1>3. \A i \in DOMAIN t : t[i].l = "MSG" => i \in DOMAIN s /\ t[i] = s[i]
  OBVIOUS
<1> HIDE DEF t
<1>4. LinesInOrder(s) => LinesInOrder(t)
  BY <1>3 DEF LinesInOrder
<1> QED
  BY <1>2, <1>4 DEF t

\* A message goes behind those that it did not have to be shown before.
LEMMA MessageLineOrder ==
  ASSUME NEW S, NEW s \in Seq(S), NEW x \in S, x.l = "MSG", LinesInOrder(s), NotBefore({x.msg}, Sent(s))
  PROVE  Sent(Append(s, x)) = Sent(s) \cup {x.msg} /\ LinesInOrder(Append(s, x))
<1>1. Elements(Append(s, x)) = Elements(s) \cup {x}
  BY ElementsOf
<1>2. Sent(Append(s, x)) = Sent(s) \cup {x.msg}
  BY <1>1 DEF Sent
<1> DEFINE t == Append(s, x)
<1>a. /\ DOMAIN s = 1 .. Len(s) /\ DOMAIN t = 1 .. Len(s) + 1 /\ Len(s) \in Nat
      /\ \A i \in 1 .. Len(s) : t[i] = s[i]
      /\ t[Len(s) + 1] = x
  OBVIOUS
<1> HIDE DEF t
<1>3. \A i \in 1 .. Len(s) + 1 : i \in 1 .. Len(s) \/ i = Len(s) + 1
  BY <1>a
<1>4. \A i \in DOMAIN s : s[i].l = "MSG" => ~Overtaken(x.msg, s[i].msg)
  BY DEF Sent, Elements, NotBefore
<1>5. LinesInOrder(t)
  <2> SUFFICES ASSUME NEW i \in DOMAIN t, NEW j \in DOMAIN t, i < j, t[i].l = "MSG", t[j].l = "MSG"
               PROVE  ~Overtaken(t[j].msg, t[i].msg)
    BY DEF LinesInOrder
  <2>1. i \in 1 .. Len(s)
    BY <1>a
  <2>2. CASE j \in 1 .. Len(s)
    BY <1>a, <2>1, <2>2 DEF LinesInOrder
  <2>3. CASE j = Len(s) + 1
    BY <1>a, <1>4, <2>1, <2>3
  <2> QED
    BY <1>a, <1>3, <2>2, <2>3
<1> QED
  BY <1>2, <1>5 DEF t

\* The first line is taken off.
LEMMA FirstLineOrder ==
  ASSUME NEW S, NEW s \in Seq(S), s # <<>>, LinesInOrder(s)
  PROVE  /\ LinesInOrder(Tail(s))
         /\ Sent(Tail(s)) \subseteq Sent(s)
         /\ Head(s).l = "MSG" => Head(s).msg \in Sent(s) /\ NotBefore(Sent(Tail(s)), {Head(s).msg})
<1>1. Elements(s) = {Head(s)} \cup Elements(Tail(s))
  BY ElementsOf
<1> DEFINE t == Tail(s)
<1>2. /\ 1 \in DOMAIN s /\ s[1] = Head(s)
      /\ \A i \in DOMAIN t : i \in Nat \ {0} /\ i + 1 \in DOMAIN s /\ t[i] = s[i + 1]
  OBVIOUS
<1> HIDE DEF t
<1>3. LinesInOrder(t)
  <2> SUFFICES ASSUME NEW i \in DOMAIN t, NEW j \in DOMAIN t, i < j, t[i].l = "MSG", t[j].l = "MSG"
               PROVE  ~Overtaken(t[j].msg, t[i].msg)
    BY DEF LinesInOrder
  <2>1. i + 1 < j + 1
    BY <1>2
  <2> QED
    BY <1>2, <2>1 DEF LinesInOrder
<1>4. ASSUME Head(s).l = "MSG", NEW j \in DOMAIN t, t[j].l = "MSG"
      PROVE  ~Overtaken(t[j].msg, Head(s).msg)
  <2>1. 1 < j + 1
    BY <1>2
  <2> QED
    BY <1>2, <1>4, <2>1 DEF LinesInOrder
<1>5. Head(s).l = "MSG" => NotBefore(Sent(t), {Head(s).msg})
  BY <1>4 DEF NotBefore, Sent, Elements
<1>6. Sent(t) \subseteq Sent(s) /\ (Head(s).l = "MSG" => Head(s).msg \in Sent(s))
  BY <1>1 DEF Sent, t
<1> QED
  BY <1>3, <1>5, <1>6 DEF t

\* A step that shows nothing, and after which no message is new.
LEMMA OrderSame ==
  ASSUME OrderInv, LoopHasAll', got' = got, messages' \subseteq messages, Sent(outbox') \subseteq Sent(outbox),
         LinesInOrder(outbox'), inputs \in Nat, inputs' \in {inputs, inputs + 1}
  PROVE  OrderInv'
<1>1. Showed' = Showed /\ Showable' \subseteq Showable
  BY DEF Showed, Showable
<1>2. 0 .. inputs - 1 \subseteq 0 .. inputs' - 1
  <2>1. CASE inputs' = inputs
    BY <2>1
  <2>2. CASE inputs' = inputs + 1
    BY <2>2
  <2> QED
    BY <2>1, <2>2
<1>3. \A m \in Showed' \cup Sent(outbox') : m.id \in 0 .. inputs' - 1
  BY <1>1, <1>2 DEF OrderInv
<1> QED
  BY <1>1, <1>3 DEF OrderInv, OrderOf, NotBefore

\* A step without lines, and without messages.
LEMMA OrderQuiet ==
  ASSUME TypeOK, OrderInv, LoopHasAll', UNCHANGED <<got, messages, outbox>>, inputs' \in {inputs, inputs + 1}
  PROVE  OrderInv'
<1>1. inputs \in Nat /\ LinesInOrder(outbox')
  BY DEF TypeOK, OrderInv
<1> QED
  BY <1>1, OrderSame

\* A step that sends a line that is not a message.
LEMMA OrderOther ==
  ASSUME TypeOK, OrderInv, LoopHasAll', UNCHANGED <<got, messages, inputs>>, NEW x, x.l # "MSG", Send(x)
  PROVE  OrderInv'
<1>1. outbox \in Seq(LineOut \cup {x}) /\ outbox' = Append(outbox, x) /\ inputs \in Nat
  BY DEF TypeOK, Send
<1>2. Sent(outbox') = Sent(outbox) /\ LinesInOrder(outbox')
  BY <1>1, OtherLineOrder DEF OrderInv
<1> QED
  BY <1>1, <1>2, OrderSame

\* A restart: lines are lost, and the messages in the table stay.
LEMMA OrderRestarted ==
  ASSUME TypeOK, OrderInv, Restarted, messages' = messages, inputs' \in {inputs, inputs + 1}
  PROVE  OrderInv'
<1>1. outbox' = <<>> /\ got' = got /\ todo' = <<>> /\ inputs \in Nat
  BY DEF Restarted, TypeOK
<1>2. Sent(outbox') = {} /\ LinesInOrder(outbox') /\ LoopHasAll'
  BY <1>1 DEF Sent, LinesInOrder, LoopHasAll, Loops, Elements
<1> QED
  BY <1>1, <1>2, OrderSame

\* One iteration of the loop: the message that is shown has the lowest
\* timestamp of those in the loop; those not in the loop are of others.
LEMMA MessageShownOrder ==
  ASSUME LinkInv, OneRow, OrderInv, NEW m \in messages, MessageShown(m)
  PROVE  OrderInv'
<1> DEFINE loop == Head(todo)
           next == [t |-> "show", left |-> loop.left \ {m}]
<1>1. /\ TypeOK /\ todo \in Seq(Task) /\ todo # <<>> /\ loop.t = "show" /\ m \in loop.left
      /\ \A x \in loop.left : m.ts < x.ts \/ (m.ts = x.ts /\ m.id <= x.id)
      /\ todo' = <<next>> \o Tail(todo) /\ ProcessMsg(m) /\ UNCHANGED <<got, inputs>>
  BY DEF LinkInv, MessageShown, NextToShow, Busy, DoneWith, network, TypeOK
<1>a. m.addr \in DOMAIN recipients /\ DOMAIN recipients' = DOMAIN recipients
  BY DEF LinkInv, MessageShown, SetMode, GhostsMatchDatabase
<1>2. loop \in Loops(todo) /\ Tail(todo) \in Seq(Task)
  <2>1. loop \in Elements(todo) /\ Tail(todo) \in Seq(Task)
    BY <1>1, LoopsOfTail
  <2> QED
    BY <1>1, <2>1 DEF Loops
<1>3. \A x \in messages \ loop.left : x.kind = "partial" \/ x.addr \notin DOMAIN recipients
  BY <1>2 DEF OrderInv, LoopHasAll
<1>4. Loops(todo') \subseteq {next} \cup Loops(todo)
  <2>1. next \in Task /\ next.t = "show"
    BY <1>1, TaskAtHand DEF Task
  <2> HIDE DEF next
  <2>2. Loops(todo') = {next} \cup Loops(Tail(todo))
    <3>1. <<next>> \in Seq(Task) /\ Loops(<<next>>) = {next}
      BY <2>1, LoopsOfOne
    <3> QED
      BY <1>1, <1>2, <3>1, LoopsJoined
  <2> QED
    BY <1>1, <2>2, LoopsOfTail
<1>5. CASE m.kind = "partial"
  <2>1. UNCHANGED <<messages, outbox>>
    BY <1>1, <1>5 DEF ProcessMsg
  <2>2. LoopHasAll'
    <3> SUFFICES ASSUME NEW t \in Loops(todo)', NEW y \in messages' \ t.left
                 PROVE  y.kind = "partial" \/ y.addr \notin DOMAIN recipients'
      BY DEF LoopHasAll
    <3>1. CASE t = next
      BY <1>1, <1>a, <1>3, <1>5, <2>1, <3>1
    <3>2. CASE t \in Loops(todo)
      BY <1>1, <1>a, <2>1, <3>2 DEF LoopHasAll, OrderInv
    <3> QED
      BY <1>4, <3>1, <3>2
  <2> QED
    BY <1>1, <2>1, <2>2, OrderQuiet
<1>6. CASE m.kind # "partial"
  <2>1. PICK adm \in Admins :
          Send([l |-> "MSG", uuid |-> contacts[m.addr].uuid, to |-> adm, msg |-> m])
    BY <1>1, <1>6 DEF ProcessMsg
  <2> DEFINE x == [l |-> "MSG", uuid |-> contacts[m.addr].uuid, to |-> adm, msg |-> m]
  <2>2. x.l = "MSG" /\ x.msg = m /\ outbox' = Append(outbox, x) /\ messages' = messages \ {m}
    BY <1>1, <1>6, <2>1 DEF ProcessMsg, Send
  <2> HIDE DEF x
  <2>3. outbox \in Seq(LineOut \cup {x})
    BY <1>1 DEF TypeOK
  <2>4. m \in Showable
    BY <1>6 DEF Showable
  <2>5. NotBefore({m}, Showed) /\ NotBefore({m}, Sent(outbox))
    BY <2>4 DEF OrderInv, OrderOf, NotBefore
  <2>6. Sent(outbox') = Sent(outbox) \cup {m} /\ LinesInOrder(outbox')
    BY <2>2, <2>3, <2>5, MessageLineOrder DEF OrderInv
  <2>7. LoopHasAll'
    <3> SUFFICES ASSUME NEW t \in Loops(todo)', NEW y \in messages' \ t.left
                 PROVE  y.kind = "partial" \/ y.addr \notin DOMAIN recipients'
      BY DEF LoopHasAll
    <3>1. CASE t = next
      BY <1>1, <1>a, <1>3, <2>2, <3>1
    <3>2. CASE t \in Loops(todo)
      BY <1>1, <1>a, <2>2, <3>2 DEF LoopHasAll, OrderInv
    <3> QED
      BY <1>4, <3>1, <3>2
  <2>8. NotBefore(Showable', {m})
    <3> SUFFICES ASSUME NEW y \in messages, y # m, y.kind # "partial", Overtaken(y, m)
                 PROVE  FALSE
      BY <2>2 DEF NotBefore, Showable
    <3>1. y \in Message /\ m \in Message /\ y.id # m.id
      BY <1>1 DEF TypeOK, OneRow
    <3>2. y.ts \in Nat /\ m.ts \in Nat /\ y.id \in Nat /\ m.id \in Nat
      BY <3>1 DEF Message
    <3>3. y.addr = m.addr /\ y.id <= m.id /\ y.ts <= m.ts
      BY DEF Overtaken
    <3>4. y \in loop.left
      BY <1>1, <1>a, <1>3, <3>3
    <3> QED
      BY <1>1, <3>1, <3>2, <3>3, <3>4
  <2>9. Showed' = Showed /\ Showable' \subseteq Showable
    BY <1>1, <2>2 DEF Showed, Showable
  <2>10. m.id \in 0 .. inputs - 1
    BY DEF OneRow, Rows
  <2>11. OrderOf(Showed', Sent(outbox'), Showable')
    BY <2>5, <2>6, <2>8, <2>9 DEF OrderInv, OrderOf, NotBefore
  <2>12. \A y \in Showed' \cup Sent(outbox') : y.id \in 0 .. inputs' - 1
    BY <1>1, <2>6, <2>9, <2>10 DEF OrderInv
  <2> QED
    BY <1>1, <2>6, <2>7, <2>11, <2>12 DEF OrderInv
<1> QED
  BY <1>5, <1>6

\* The handler that runs.
LEMMA HandlerOrder ==
  ASSUME LinkInv, OneRow, OrderInv, Handler
  PROVE  OrderInv'
<1> USE DEF registry, store, network
<1>0. TypeOK /\ todo \in Seq(Task) /\ LoopHasAll
  BY DEF LinkInv, TypeOK, OrderInv
<1>1. CASE SetupNothing \/ QuasiburstEnd \/ MessagesEnd \/ SetupGhost
  <2>1. todo # <<>> /\ todo' = Tail(todo) /\ DOMAIN recipients' = DOMAIN recipients /\ UNCHANGED <<messages, got, inputs>>
    BY <1>1 DEF SetupNothing, QuasiburstEnd, MessagesEnd, SetupGhost, Busy, Done
  <2>2. LoopHasAll'
    BY <1>0, <2>1, LoopsOfTail, LoopsLess
  <2>3. CASE outbox' = outbox
    BY <1>0, <2>1, <2>2, <2>3, OrderQuiet
  <2>4. CASE SetupGhost
    <3> DEFINE x == [l |-> "UID", uuid |-> GetUuid, addr |-> Head(todo).addr]
    <3>1. Send(x) /\ x.l # "MSG"
      BY <2>4 DEF SetupGhost
    <3> HIDE DEF x
    <3> QED
      BY <1>0, <2>1, <2>2, <3>1, OrderOther
  <2>5. SetupGhost \/ outbox' = outbox
    BY <1>1 DEF SetupNothing, QuasiburstEnd, MessagesEnd
  <2> QED
    BY <2>3, <2>4, <2>5
<1>2. CASE QuasiburstStep
  <2>1. PICK a \in Head(todo).left :
          todo' = <<[t |-> "setup", addr |-> a], [t |-> "quasiburst", left |-> Head(todo).left \ {a}]>> \o Tail(todo)
    BY <1>2 DEF QuasiburstStep
  <2> DEFINE x == [t |-> "setup", addr |-> a]
             y == [t |-> "quasiburst", left |-> Head(todo).left \ {a}]
  <2>2. todo # <<>> /\ Head(todo).left \in SUBSET Addrs /\ UNCHANGED <<messages, recipients, got, outbox, inputs>>
    BY <1>0, <1>2, TaskAtHand DEF QuasiburstStep, Busy
  <2>3. x \in Task /\ y \in Task /\ x.t = "setup" /\ y.t = "quasiburst" /\ todo' = <<x, y>> \o Tail(todo)
    BY <2>1, <2>2 DEF Task
  <2> HIDE DEF x, y
  <2>4. <<x, y>> \in Seq(Task) /\ DOMAIN <<x, y>> = {1, 2} /\ <<x, y>>[1] = x /\ <<x, y>>[2] = y
    BY <2>3
  <2>5. Loops(<<x, y>>) = {}
    BY <2>3, <2>4 DEF Loops, Elements
  <2>6. Loops(todo') \subseteq Loops(todo)
    <3> DEFINE new == <<x, y>>
    <3>1. new \in Seq(Task) /\ Loops(new) = {} /\ todo' = new \o Tail(todo)
      BY <2>3, <2>4, <2>5
    <3> HIDE DEF new
    <3>2. Tail(todo) \in Seq(Task) /\ Loops(Tail(todo)) \subseteq Loops(todo)
      BY <1>0, <2>2, LoopsOfTail
    <3>3. Loops(todo') = Loops(new) \cup Loops(Tail(todo))
      BY <3>1, <3>2, LoopsJoined
    <3> QED
      BY <3>1, <3>2, <3>3
  <2>7. LoopHasAll'
    BY <1>0, <2>2, <2>6, LoopsLess
  <2> QED
    BY <1>0, <2>2, <2>7, OrderQuiet
<1>3. CASE BecomeLinked
  <2> DEFINE x == [t |-> "messages"]
  <2>1. todo' = <<x>> /\ UNCHANGED <<messages, got, outbox, inputs>>
    BY <1>3 DEF BecomeLinked
  <2>2. x \in Task /\ x.t = "messages"
    BY DEF Task
  <2> HIDE DEF x
  <2>3. Loops(todo') = {}
    BY <2>1, <2>2, LoopsOfOne
  <2> QED
    BY <1>0, <2>1, <2>3, NoLoop, OrderQuiet
<1>4. CASE StartMessages
  <2> DEFINE x == [t |-> "show", left |-> messages]
  <2>1. /\ todo # <<>> /\ (todo' = <<>> \o Tail(todo) \/ todo' = <<x>> \o Tail(todo))
        /\ UNCHANGED <<messages, recipients, got, outbox, inputs>>
    BY <1>4 DEF StartMessages, Busy
  <2>2. x \in Task /\ x.t = "show" /\ x.left = messages
    BY <1>0 DEF Task, TypeOK
  <2> HIDE DEF x
  <2>3. Tail(todo) \in Seq(Task) /\ Loops(Tail(todo)) \subseteq Loops(todo) /\ <<>> \o Tail(todo) = Tail(todo)
    BY <1>0, <2>1, LoopsOfTail
  <2>4. Loops(<<x>> \o Tail(todo)) = {x} \cup Loops(Tail(todo))
    <3>1. <<x>> \in Seq(Task) /\ Loops(<<x>>) = {x}
      BY <2>2, LoopsOfOne
    <3> QED
      BY <2>3, <3>1, LoopsJoined
  <2>5. Loops(todo') \subseteq {x} \cup Loops(todo)
    BY <2>1, <2>3, <2>4
  <2>6. LoopHasAll'
    BY <1>0, <2>1, <2>2, <2>5 DEF LoopHasAll
  <2> QED
    BY <1>0, <2>1, <2>6, OrderQuiet
<1>5. CASE UuidsExhausted
  BY <1>0, <1>5, OrderRestarted DEF UuidsExhausted
<1>6. ASSUME NEW m \in messages, MessageOfStranger(m)
      PROVE  OrderInv'
  <2> DEFINE loop == Head(todo)
             next == [t |-> "show", left |-> loop.left \ {m}]
  <2>1. /\ todo # <<>> /\ loop.t = "show" /\ m \in loop.left /\ m.addr \notin DOMAIN recipients
        /\ todo' = <<next>> \o Tail(todo) /\ UNCHANGED <<messages, recipients, got, outbox, inputs>>
    BY <1>6 DEF MessageOfStranger, NextToShow, Busy, DoneWith
  <2>2. loop \in Loops(todo) /\ Tail(todo) \in Seq(Task) /\ Loops(Tail(todo)) \subseteq Loops(todo)
    BY <1>0, <2>1, LoopsOfTail DEF Loops
  <2>3. next \in Task /\ next.t = "show" /\ next.left = loop.left \ {m}
    BY <1>0, <2>1, TaskAtHand DEF Task
  <2> HIDE DEF next
  <2>4. <<next>> \in Seq(Task) /\ Loops(<<next>>) = {next}
    BY <2>3, LoopsOfOne
  <2>5. Loops(todo') \subseteq {next} \cup Loops(todo)
    BY <2>1, <2>2, <2>4, LoopsJoined
  <2>6. LoopHasAll'
    BY <1>0, <2>1, <2>2, <2>3, <2>5 DEF LoopHasAll
  <2> QED
    BY <1>0, <2>1, <2>6, OrderQuiet
<1>7. ASSUME NEW m \in messages, MessageNeedsGhost(m)
      PROVE  OrderInv'
  <2> DEFINE x == [t |-> "setup", addr |-> m.addr]
  <2>1. todo' = <<x>> \o todo /\ UNCHANGED <<messages, recipients, got, outbox, inputs>>
    BY <1>7 DEF MessageNeedsGhost
  <2>2. x \in Task /\ x.t = "setup"
    BY <1>0 DEF Task, TypeOK, Message
  <2> HIDE DEF x
  <2>3. <<x>> \in Seq(Task) /\ Loops(<<x>>) = {}
    BY <2>2, LoopsOfOne
  <2>4. Loops(todo') \subseteq Loops(todo)
    BY <1>0, <2>1, <2>3, LoopsJoined
  <2>5. LoopHasAll'
    BY <1>0, <2>1, <2>4, LoopsLess
  <2> QED
    BY <1>0, <2>1, <2>5, OrderQuiet
<1> QED
  BY <1>1, <1>2, <1>3, <1>4, <1>5, <1>6, <1>7, MessageShownOrder DEF Handler

\* A handler that starts is no loop, and only an idle bridge starts one.
LEMMA InputOrder ==
  ASSUME LinkInv, OrderInv, ReadLine \/ TakeCommand \/ SendServer
  PROVE  OrderInv'
<1>0. TypeOK /\ LoopHasAll
  BY DEF LinkInv, OrderInv
<1>1. UNCHANGED <<messages, got, inputs>>
  BY DEF ReadLine, ReadServer, ReadEndburst, ReadUid, ReadNick, ReadQuitOrKill, ReadSquit,
     ReadDirectMessage, ReadCommand, TakeCommand, TakeProcessMessages, TakeSetupContact,
     TakeQueryContact, TakeDropContactByNick, TakeChangeNickByNick, TakeChangeNick,
     TakeSetWhatsappByNick, SendServer, store, network
<1>2. LoopHasAll'
  <2>1. CASE SendServer
    <3>1. UNCHANGED <<todo, recipients, messages>>
      BY <2>1 DEF SendServer, store
    <3> QED
      BY <1>0, <3>1, LoopsLess
  <2>2. CASE ReadLine \/ TakeCommand
    <3>1. todo = <<>>
      BY <2>2 DEF ReadLine, ReadServer, ReadEndburst, ReadUid, ReadNick, ReadQuitOrKill, ReadSquit,
         ReadDirectMessage, ReadCommand, TakeCommand, TakeProcessMessages, TakeSetupContact,
         TakeQueryContact, TakeDropContactByNick, TakeChangeNickByNick, TakeChangeNick,
         TakeSetWhatsappByNick, Read, Take, Idle
    <3>2. \A i \in DOMAIN todo' : todo'[i].t # "show"
      <4>1. CASE ReadEndburst \/ ReadUid \/ TakeProcessMessages \/ TakeSetupContact
        BY <4>1 DEF ReadEndburst, ReadUid, TakeProcessMessages, TakeSetupContact
      <4>2. CASE ReadQuitOrKill
        BY <3>1, <4>2 DEF ReadQuitOrKill, RemoveUser
      <4>3. CASE TakeQueryContact
        BY <3>1, <4>3 DEF TakeQueryContact
      <4>4. CASE todo' = todo
        BY <3>1, <4>4
      <4>5. \/ ReadEndburst \/ ReadUid \/ TakeProcessMessages \/ TakeSetupContact
            \/ ReadQuitOrKill \/ TakeQueryContact \/ todo' = todo
        BY <2>2 DEF ReadLine, ReadServer, ReadNick, ReadSquit,
           ReadDirectMessage, ReadCommand, TakeCommand,
           TakeDropContactByNick, TakeChangeNickByNick, TakeChangeNick, TakeSetWhatsappByNick
      <4> QED
        BY <4>1, <4>2, <4>3, <4>4, <4>5
    <3>3. Loops(todo') = {}
      BY <3>2 DEF Loops, Elements
    <3> QED
      BY <3>3, NoLoop
  <2> QED
    BY <2>1, <2>2
<1>3. outbox' = outbox \/ \E x : x.l # "MSG" /\ Send(x)
  BY InputSendsNoMessage
<1>4. CASE outbox' = outbox
  BY <1>0, <1>1, <1>2, <1>4, OrderQuiet
<1>5. ASSUME NEW x, x.l # "MSG", Send(x)
      PROVE  OrderInv'
  BY <1>0, <1>1, <1>2, <1>5, OrderOther
<1> QED
  BY <1>3, <1>4, <1>5

\* The server shows the first message on the way: those behind it, and those
\* that wait, come later.
LEMMA ServerReadsOrder ==
  ASSUME LinkInv, OrderInv, ServerReads
  PROVE  OrderInv'
<1> DEFINE x == Head(outbox)
<1>1. /\ outbox \in Seq(LineOut) /\ outbox # <<>> /\ outbox' = Tail(outbox) /\ x \in LineOut
      /\ UNCHANGED <<messages, inputs, todo, recipients>> /\ inputs \in Nat
  BY SeqType DEF ServerReads, TypeOK, local, store, LinkInv
<1>2. /\ LinesInOrder(outbox')
      /\ Sent(outbox') \subseteq Sent(outbox)
      /\ x.l = "MSG" => x.msg \in Sent(outbox) /\ NotBefore(Sent(outbox'), {x.msg})
  BY <1>1, FirstLineOrder DEF OrderInv
<1>3. LoopHasAll'
  BY <1>1, LoopsLess DEF OrderInv
<1>4. CASE got' = got
  BY <1>1, <1>2, <1>3, <1>4, OrderSame
<1>5. CASE got' # got
  <2> DEFINE y == [msg |-> x.msg, as |-> seen[x.uuid]]
  <2>1. x.l = "MSG" /\ got' = Append(got, y) /\ y.msg = x.msg /\ got \in Seq([msg : Message, as : Addrs])
    BY <1>1, <1>5 DEF ServerReads, LineOut, LinkInv, TypeOK
  <2> HIDE DEF y
  <2>2. /\ DOMAIN got = 1 .. Len(got) /\ Len(got) \in Nat /\ DOMAIN got' = 1 .. Len(got) + 1
        /\ \A i \in 1 .. Len(got) : got'[i] = got[i]
        /\ got'[Len(got) + 1] = y
    BY <2>1
  <2>3. \A i \in 1 .. Len(got) + 1 : i \in 1 .. Len(got) \/ i = Len(got) + 1
    BY <2>2
  <2>4. Showed' = Showed \cup {x.msg}
    <3>1. Showed' \subseteq Showed \cup {x.msg}
      BY <2>1, <2>2, <2>3 DEF Showed
    <3>2. Showed \subseteq Showed'
      <4>1. \A i \in DOMAIN got : i \in DOMAIN got' /\ got'[i] = got[i]
        BY <2>2
      <4> QED
        BY <4>1 DEF Showed
    <3>3. x.msg \in Showed'
      <4>1. Len(got) + 1 \in DOMAIN got' /\ got'[Len(got) + 1].msg = x.msg
        BY <2>1, <2>2
      <4> QED
        BY <4>1 DEF Showed
    <3> QED
      BY <3>1, <3>2, <3>3
  <2>5. Showable' = Showable
    BY <1>1 DEF Showable
  <2>6. OrderOf(Showed', Sent(outbox'), Showable')
    BY <1>2, <2>1, <2>4, <2>5 DEF OrderInv, OrderOf, NotBefore
  <2>7. \A i \in 1 .. Len(got) : ~Overtaken(x.msg, got[i].msg)
    BY <1>2, <2>1, <2>2 DEF OrderInv, OrderOf, NotBefore, Showed
  <2>8. ShowedInOrder(got')
    <3> SUFFICES ASSUME NEW i \in DOMAIN got', NEW j \in DOMAIN got', i < j
                 PROVE  ~Overtaken(got'[j].msg, got'[i].msg)
      BY DEF ShowedInOrder
    <3>1. i \in 1 .. Len(got)
      BY <2>2
    <3>2. CASE j \in 1 .. Len(got)
      BY <2>2, <3>1, <3>2 DEF OrderInv, ShowedInOrder
    <3>3. CASE j = Len(got) + 1
      BY <2>1, <2>2, <2>7, <3>1, <3>3
    <3> QED
      BY <2>2, <2>3, <3>2, <3>3
  <2>9. \A m \in Showed' \cup Sent(outbox') : m.id \in 0 .. inputs' - 1
    BY <1>1, <1>2, <2>1, <2>4 DEF OrderInv
  <2> QED
    BY <1>2, <1>3, <2>6, <2>8, <2>9 DEF OrderInv
<1> QED
  BY <1>4, <1>5

\* cmgl_complete and store_message: whatever its timestamp, a new message has
\* the highest id.
LEMMA ArrivesOrder ==
  ASSUME LinkInv, OrderInv, NEW a \in Addrs, NEW k \in Kinds, NEW ts \in Nat, NewMessage(a, k, ts),
         inputs' = inputs + 1, UNCHANGED <<outbox, got, todo>>, Idle
  PROVE  OrderInv'
<1> DEFINE new == [id |-> inputs, ts |-> ts, addr |-> a, kind |-> k]
<1>0. messages' = messages \cup {new} /\ new.id = inputs
  BY DEF NewMessage
<1> HIDE DEF new
<1>1. inputs \in Nat /\ Showable' \subseteq Showable \cup {new} /\ Showed' = Showed
  BY <1>0 DEF LinkInv, TypeOK, Showable, Showed
<1>2. \A m \in Showed \cup Sent(outbox) : m.id \in 0 .. inputs - 1
  BY DEF OrderInv
<1>3. \A m \in Showed \cup Sent(outbox) : ~Overtaken(new, m)
  BY <1>0, <1>1, <1>2 DEF Overtaken
<1>4. OrderOf(Showed', Sent(outbox'), Showable')
  BY <1>1, <1>3 DEF OrderInv, OrderOf, NotBefore
<1>5. \A m \in Showed' \cup Sent(outbox') : m.id \in 0 .. inputs' - 1
  BY <1>1, <1>2
<1>6. LoopHasAll'
  BY NoLoop DEF Idle, Loops, Elements
<1> QED
  BY <1>1, <1>4, <1>5, <1>6 DEF OrderInv

\* Outside events.
LEMMA OutsideOrder ==
  ASSUME LinkInv, OrderInv, Outside
  PROVE  OrderInv'
<1>0. TypeOK /\ LoopHasAll
  BY DEF LinkInv, OrderInv
<1>1. CASE Crash
  BY <1>0, <1>1, OrderRestarted DEF Crash, Input, store
<1>2. ASSUME NEW a \in Addrs, SmsArrives(a)
      PROVE  OrderInv'
  <2>1. /\ \E k \in Kinds : NewMessage(a, k, inputs)
        /\ inputs' = inputs + 1 /\ inputs \in Nat /\ UNCHANGED <<outbox, got, todo>> /\ Idle
    BY <1>0, <1>2 DEF SmsArrives, Input, Kinds, TypeOK, network
  <2> QED
    BY <2>1, ArrivesOrder
<1>3. ASSUME NEW a \in Addrs, WaArrives(a)
      PROVE  OrderInv'
  <2>1. /\ \E ts \in Nat : NewMessage(a, "wa", ts)
        /\ inputs' = inputs + 1 /\ "wa" \in Kinds /\ UNCHANGED <<outbox, got, todo>> /\ Idle
    BY <1>0, <1>3 DEF WaArrives, Input, Kinds, TypeOK, network
  <2> QED
    BY <2>1, ArrivesOrder
<1>4. CASE \E a \in Addrs : WaContactSeen(a)
  <2>1. UNCHANGED <<messages, got, outbox, todo>> /\ inputs' = inputs + 1 /\ Idle
    BY <1>4 DEF WaContactSeen, Input, network
  <2>2. LoopHasAll'
    BY <2>1, NoLoop DEF Idle, Loops, Elements
  <2> QED
    BY <1>0, <2>1, <2>2, OrderQuiet
<1>5. CASE \/ Split
           \/ \E a \in Addrs, n \in Nicks : WaContactRenamed(a, n)
           \/ \E u \in Remotes, n \in Nicks \cup {AdminNick} : Connect(u, n) \/ Rename(u, n)
           \/ \E u \in Remotes : Quit(u)
           \/ \E u \in DOMAIN seen : Kill(u)
           \/ \E u \in Remotes, g \in DOMAIN seen : WriteToGhost(u, g)
           \/ \E u \in Remotes, cmd \in AdminCommands : WriteToControl(u, cmd)
  <2>1. UNCHANGED <<messages, got, outbox, todo, recipients>> /\ inputs' = inputs + 1
    BY <1>5 DEF Split, WaContactRenamed, Connect, Rename, Quit, Kill, WriteToGhost,
       WriteToControl, Input, local, store, network
  <2>2. LoopHasAll'
    BY <1>0, <2>1, LoopsLess
  <2> QED
    BY <1>0, <2>1, <2>2, OrderQuiet
<1> QED
  BY <1>1, <1>2, <1>3, <1>4, <1>5 DEF Outside

\* Every step keeps the order.
LEMMA NextOrder ==
  ASSUME LinkInv, OneRow, OrderInv, [Next]_vars
  PROVE  OrderInv'
<1>0. TypeOK /\ LoopHasAll
  BY DEF LinkInv, OrderInv
<1>1. ASSUME NEW src \in Sources, ManagerStep(src)
      PROVE  OrderInv'
  <2>1. UNCHANGED <<messages, got, outbox, inputs, todo>> /\ Idle
    BY <1>1 DEF ManagerStep, network
  <2>2. LoopHasAll'
    BY <2>1, NoLoop DEF Idle, Loops, Elements
  <2> QED
    BY <1>0, <2>1, <2>2, OrderQuiet
<1>2. CASE UNCHANGED vars
  <2>1. UNCHANGED <<messages, got, outbox, inputs, todo, recipients>>
    BY <1>2 DEF vars
  <2>2. LoopHasAll'
    BY <1>0, <2>1, LoopsLess
  <2> QED
    BY <1>0, <2>1, <2>2, OrderQuiet
<1>3. \/ Handler \/ (SendServer \/ ReadLine \/ TakeCommand) \/ ServerReads \/ Outside
      \/ (\E src \in Sources : ManagerStep(src)) \/ UNCHANGED vars
  BY DEF Next, Bridge
<1> QED
  BY <1>1, <1>2, <1>3, HandlerOrder, InputOrder, ServerReadsOrder, OutsideOrder

\* What the invariant says of got and outbox one after the other.
LEMMA OrderShows ==
  ASSUME LinkInv, OrderInv
  PROVE  OnceInOrder
<1> DEFINE line     == got \o outbox
           Shows(i) == i \in DOMAIN got \/ line[i].l = "MSG"
<1>1. got \in Seq([msg : Message, as : Addrs]) /\ outbox \in Seq(LineOut)
  BY DEF LinkInv, TypeOK
<1> DEFINE n == Len(got)
           k == Len(outbox)
<1>2. /\ n \in Nat /\ k \in Nat /\ DOMAIN got = 1 .. n /\ DOMAIN outbox = 1 .. k
      /\ Len(line) = n + k /\ DOMAIN line = 1 .. n + k
      /\ \A i \in 1 .. n : line[i] = got[i]
      /\ \A i \in 1 .. k : line[n + i] = outbox[i]
  BY <1>1
<1>3. \A i \in 1 .. n + k : i \in 1 .. n \/ i - n \in 1 .. k
  BY <1>2
<1>4. \A i \in 1 .. n + k : i - n \in 1 .. k => line[i] = outbox[i - n] /\ i \notin 1 .. n
  <2> SUFFICES ASSUME NEW i \in 1 .. n + k, i - n \in 1 .. k
               PROVE  line[i] = outbox[i - n] /\ i \notin 1 .. n
    OBVIOUS
  <2>1. i = n + (i - n)
    BY <1>2
  <2> QED
    BY <1>2, <2>1
<1> HIDE DEF line, n, k
<1> SUFFICES ASSUME NEW i \in 1 .. n + k, Shows(i)
             PROVE  /\ \A j \in i + 1 .. n + k : Shows(j) => ~Overtaken(line[j].msg, line[i].msg)
                    /\ \A m \in messages : m.kind # "partial" => ~Overtaken(m, line[i].msg)
  BY <1>2 DEF OnceInOrder, line
<1>5. ASSUME NEW h \in 1 .. n + k, Shows(h), h - n \in 1 .. k
      PROVE  line[h].msg \in Sent(outbox) /\ outbox[h - n].l = "MSG" /\ line[h] = outbox[h - n] /\ h - n \in DOMAIN outbox
  <2>1. line[h] = outbox[h - n] /\ outbox[h - n].l = "MSG"
    BY <1>2, <1>4, <1>5
  <2> QED
    BY <1>2, <1>5, <2>1 DEF Sent, Elements
<1>6. \A h \in 1 .. n : line[h].msg \in Showed /\ line[h] = got[h] /\ h \in DOMAIN got
  BY <1>2 DEF Showed
<1>7. ASSUME NEW j \in i + 1 .. n + k, Shows(j)
      PROVE  ~Overtaken(line[j].msg, line[i].msg)
  <2>1. j \in 1 .. n + k /\ i < j
    BY <1>2, <1>7
  <2>2. CASE i \in 1 .. n /\ j \in 1 .. n
    BY <1>6, <2>1, <2>2 DEF OrderInv, ShowedInOrder
  <2>3. CASE i \in 1 .. n /\ j - n \in 1 .. k
    BY <1>5, <1>6, <1>7, <2>1, <2>3 DEF OrderInv, OrderOf, NotBefore
  <2>4. CASE i - n \in 1 .. k /\ j - n \in 1 .. k
    <3>1. i - n < j - n
      BY <1>2, <2>1
    <3> QED
      BY <1>5, <1>7, <2>1, <2>4, <3>1 DEF OrderInv, LinesInOrder
  <2>5. ~(i - n \in 1 .. k /\ j \in 1 .. n)
    BY <1>2, <2>1
  <2> QED
    BY <1>3, <2>1, <2>2, <2>3, <2>4, <2>5
<1>8. ASSUME NEW m \in messages, m.kind # "partial"
      PROVE  ~Overtaken(m, line[i].msg)
  <2>1. line[i].msg \in Showed \cup Sent(outbox)
    BY <1>3, <1>5, <1>6
  <2> QED
    BY <1>8, <2>1 DEF OrderInv, OrderOf, NotBefore, Showable
<1> QED
  BY <1>7, <1>8

\* A message is shown once, and not before an older one of its sender that is
\* in the table, whatever is restarted, split off or asked for in between.
THEOREM OrderTheorem == Spec => []OnceInOrder
<1>1. Init => OrderInv
  <2> SUFFICES ASSUME Init
               PROVE  OrderInv
    OBVIOUS
  <2>1. messages = {} /\ outbox = <<>> /\ got = <<>> /\ todo = <<>>
    BY DEF Init
  <2>2. Sent(outbox) = {} /\ Showed = {} /\ Showable = {} /\ Loops(todo) = {}
    BY <2>1 DEF Sent, Showed, Showable, Loops, Elements
  <2>3. LinesInOrder(outbox) /\ ShowedInOrder(got)
    BY <2>1 DEF LinesInOrder, ShowedInOrder
  <2> QED
    BY <2>2, <2>3 DEF OrderInv, LoopHasAll, OrderOf, NotBefore
<1>2. LinkInv /\ OneRow /\ OrderInv /\ [Next]_vars => OrderInv'
  BY NextOrder
<1>3. LinkInv /\ OrderInv => OnceInOrder
  BY OrderShows
<1> QED
  BY <1>1, <1>2, <1>3, OneRowInvariant, LinkInvariant, PTL DEF Spec

-----------------------------------------------------------------------------
(* No message is forgotten *)

\* The commands make the link look at the messages; a manager was asked for
\* somebody without a recipient; the handler that runs will come to a message.
Make(a)     == [r |-> "make", addr |-> a]
Notice(s)   == ProcessMessages \in Elements(s)
AskedFor(m) == Make(m.addr) \in Elements(mgr_rx[m.kind]) /\ m.addr \notin DOMAIN recipients
InTurn(m)   == \E t \in Elements(todo) : t.t = "messages" \/ (t.t = "show" /\ m \in t.left)

LookedAt(m) == Notice(cf_rx) \/ AskedFor(m) \/ InTurn(m)

\* The inductive invariant.
Awaited == state = "Linked" /\ Admins # {} => \A m \in Showable : LookedAt(m)

\* What the theorem assumes of the outside: nobody becomes the administrator by
\* a nick change, which ReadNick does not notice, and no recipient appears that
\* no message was received from, while a request for it is queued.
Unnoticed == {"nickback", "waseen"}
NoNickBack == \A l \in Elements(inbound) : l.l = "NICK" => l.nick # AdminNick

\* A step after which fewer messages wait, and all that made the link look at
\* them is still there.
LEMMA StillAwaited ==
  ASSUME Awaited, state' = "Linked" => state = "Linked", Admins' # {} => Admins # {},
         Showable' \subseteq Showable,
         Notice(cf_rx) => Notice(cf_rx'),
         \A m \in Showable' : AskedFor(m) => AskedFor(m)',
         \A m \in Showable' : InTurn(m) => InTurn(m)' \/ AskedFor(m)'
  PROVE  Awaited'
<1> SUFFICES ASSUME state' = "Linked", Admins' # {}, NEW m \in Showable'
             PROVE  LookedAt(m)'
  BY DEF Awaited
<1>1. LookedAt(m)
  BY DEF Awaited
<1> QED
  BY <1>1 DEF LookedAt

\* A step after which the commands say so themselves.
LEMMA NoticeAwaits ==
  ASSUME Notice(cf_rx')
  PROVE  Awaited'
BY DEF Awaited, LookedAt

\* What the managers send when a recipient or a message is new.
LEMMA NoticeSent ==
  ASSUME cf_rx \in Seq(Command), NEW a \in Addrs,
         \/ CfSend(<<ProcessMessages>>)
         \/ CfSend(<<SetupContact(a), ProcessMessages>>)
         \/ CfSend(<<SetupContact(a)>> \o <<ProcessMessages>>)
  PROVE  Notice(cf_rx')
<1>1. ProcessMessages \in Command /\ SetupContact(a) \in Command
  BY DEF ProcessMessages, SetupContact, Command
<1> DEFINE one == <<ProcessMessages>>
           two == <<SetupContact(a), ProcessMessages>>
           first == <<SetupContact(a)>>
<1>2. one \in Seq(Command) /\ two \in Seq(Command) /\ first \in Seq(Command)
  BY <1>1
<1>3. ProcessMessages \in Elements(one) /\ ProcessMessages \in Elements(two)
  <2>1. 1 \in DOMAIN one /\ one[1] = ProcessMessages /\ 2 \in DOMAIN two /\ two[2] = ProcessMessages
    OBVIOUS
  <2> QED
    BY <2>1 DEF Elements
<1>4. \/ cf_rx' = cf_rx \o one
      \/ cf_rx' = cf_rx \o two
      \/ cf_rx' = cf_rx \o (first \o one)
  BY DEF CfSend
<1> HIDE DEF one, two, first
<1>5. /\ first \o one \in Seq(Command)
      /\ Elements(first \o one) = Elements(first) \cup Elements(one)
  BY <1>2, ElementsJoined
<1>6. /\ Elements(cf_rx \o one) = Elements(cf_rx) \cup Elements(one)
      /\ Elements(cf_rx \o two) = Elements(cf_rx) \cup Elements(two)
  BY <1>2, ElementsJoined
<1>7. Elements(cf_rx \o (first \o one)) = Elements(cf_rx) \cup Elements(first \o one)
  <2> DEFINE r == first \o one
  <2>1. r \in Seq(Command)
    BY <1>5
  <2> HIDE DEF r
  <2>2. Elements(cf_rx \o r) = Elements(cf_rx) \cup Elements(r)
    BY <2>1, ElementsJoined
  <2> QED
    BY <2>2 DEF r
<1>8. Elements(one) \subseteq Elements(cf_rx') \/ Elements(two) \subseteq Elements(cf_rx')
  <2>1. CASE cf_rx' = cf_rx \o one
    BY <1>6, <2>1
  <2>2. CASE cf_rx' = cf_rx \o two
    BY <1>6, <2>2
  <2>3. CASE cf_rx' = cf_rx \o (first \o one)
    BY <1>5, <1>7, <2>3
  <2> QED
    BY <1>4, <2>1, <2>2, <2>3
<1> QED
  BY <1>3, <1>8 DEF Notice

\* A request that is put behind the others takes none away.
LEMMA AskKeeps ==
  ASSUME TypeOK, NEW s \in Sources, NEW q, Ask(s, q), DOMAIN recipients' = DOMAIN recipients
  PROVE  /\ \A m \in Showable : AskedFor(m) => AskedFor(m)'
         /\ q \in Elements(mgr_rx'[s])
<1>1. mgr_rx \in [Sources -> Seq(Request)] /\ mgr_rx' = [mgr_rx EXCEPT ![s] = Append(@, q)]
  BY DEF TypeOK, Ask
<1>2. mgr_rx[s] \in Seq(Request \cup {q}) /\ q \in Request \cup {q} /\ mgr_rx'[s] = Append(mgr_rx[s], q)
  BY <1>1
<1>3. Elements(mgr_rx'[s]) = Elements(mgr_rx[s]) \cup {q}
  BY <1>2, ElementsOf
<1>4. \A src \in Sources : src # s => mgr_rx'[src] = mgr_rx[src]
  BY <1>1
<1>5. \A src \in Sources : Elements(mgr_rx[src]) \subseteq Elements(mgr_rx'[src])
  BY <1>3, <1>4
<1>6. \A m \in Showable : m.kind \in Sources
  BY DEF Showable, TypeOK, Message, Kinds, Sources
<1> QED
  BY <1>3, <1>5, <1>6 DEF AskedFor, Make

\* A step that asks nobody.
LEMMA NobodyAsked ==
  ASSUME UNCHANGED mgr_rx, DOMAIN recipients' \subseteq DOMAIN recipients
  PROVE  \A m : AskedFor(m) => AskedFor(m)'
BY DEF AskedFor, Make

\* The step of an idle bridge that ends no handler.
LEMMA IdleNoTurn ==
  ASSUME Idle
  PROVE  \A m : ~InTurn(m)
BY DEF Idle, InTurn, Elements

\* Users of ours do not bear the administrator's nick, and a user that goes
\* does not, either.
LEMMA AdminsOf ==
  /\ UNCHANGED users => Admins' = Admins
  /\ \A X : users' = Without(users, X) => Admins' \subseteq Admins
  /\ \A u, n : n # AdminNick /\ (users' = Put(users, u, n) \/ users' = [users EXCEPT ![u] = n]) => Admins' \subseteq Admins
<1>1. UNCHANGED users => Admins' = Admins
  BY DEF Admins
<1>2. ASSUME NEW X, users' = Without(users, X)
      PROVE  Admins' \subseteq Admins
  BY <1>2 DEF Admins, Without
<1>3. ASSUME NEW u, NEW n, n # AdminNick, users' = Put(users, u, n)
      PROVE  Admins' \subseteq Admins
  BY <1>3 DEF Admins, Put
<1>4. ASSUME NEW u, NEW n, n # AdminNick, users' = [users EXCEPT ![u] = n]
      PROVE  Admins' \subseteq Admins
  BY <1>4 DEF Admins
<1> QED
  BY <1>1, <1>2, <1>3, <1>4

\* A settled nick is not the administrator's.
LEMMA SettledNotAdmin ==
  ASSUME NEW n \in Nick, NEW m \in Settled(n)
  PROVE  m # AdminNick
BY SettledFree DEF Taken

\* The first task is done: it was no search, and its loop, if it was one, had
\* come to its end.
LEMMA TurnTail ==
  ASSUME TypeOK, todo # <<>>, todo' = Tail(todo), Head(todo).t # "messages",
         Head(todo).t = "show" => Head(todo).left = {}
  PROVE  \A m : InTurn(m) => InTurn(m)'
<1>1. Elements(todo) = {Head(todo)} \cup Elements(Tail(todo))
  BY ElementsOf DEF TypeOK
<1> QED
  BY <1>1 DEF InTurn

\* Tasks are put in place of the first one.
LEMMA TurnReplaced ==
  ASSUME TypeOK, todo # <<>>, NEW r \in Seq(Task), todo' = r \o Tail(todo)
  PROVE  Elements(todo') = Elements(r) \cup Elements(Tail(todo)) /\ Elements(todo) = {Head(todo)} \cup Elements(Tail(todo))
<1>0. todo \in Seq(Task)
  BY DEF TypeOK
<1>1. Elements(todo) = {Head(todo)} \cup Elements(Tail(todo))
  BY <1>0, ElementsOf
<1>2. Tail(todo) \in Seq(Task)
  BY <1>0
<1>3. \A q \in Seq(Task) : Elements(r \o q) = Elements(r) \cup Elements(q)
  BY ElementsJoined
<1>4. Elements(r \o Tail(todo)) = Elements(r) \cup Elements(Tail(todo))
  BY <1>2, <1>3, Zenon
<1> QED
  BY <1>1, <1>4

\* setup_contact and the ends of loops.
LEMMA TaskEndsAwaited ==
  ASSUME LinkInv, Awaited, SetupNothing \/ QuasiburstEnd \/ MessagesEnd \/ SetupGhost
  PROVE  Awaited'
<1>0. TypeOK
  BY DEF LinkInv
<1>1. /\ todo # <<>> /\ todo' = Tail(todo) /\ Head(todo).t # "messages"
      /\ Head(todo).t = "show" => Head(todo).left = {}
      /\ DOMAIN recipients' = DOMAIN recipients /\ UNCHANGED <<state, messages, cf_rx, mgr_rx>>
  BY DEF SetupNothing, QuasiburstEnd, MessagesEnd, SetupGhost, Busy, Done, store
<1>2. Admins' \subseteq Admins
  <2>1. CASE SetupGhost
    <3>1. Head(todo).addr \in DOMAIN recipients /\ recipients[Head(todo).addr].nick \in Nick
      BY <1>0, <2>1 DEF SetupGhost, TypeOK, IsPartial
    <3>2. \E u : \E n \in Settled(recipients[Head(todo).addr].nick) : users' = Put(users, u, n)
      BY <2>1 DEF SetupGhost
    <3> QED
      BY <3>1, <3>2, SettledNotAdmin, AdminsOf
  <2>2. CASE ~SetupGhost
    BY <2>2, AdminsOf DEF SetupNothing, QuasiburstEnd, MessagesEnd, registry
  <2> QED
    BY <2>1, <2>2
<1>3. \A m : (InTurn(m) => InTurn(m)') /\ (AskedFor(m) => AskedFor(m)')
  BY <1>0, <1>1, TurnTail, NobodyAsked
<1>4. Showable' = Showable
  BY <1>1 DEF Showable
<1> QED
  BY <1>1, <1>2, <1>3, <1>4, StillAwaited

\* The loop comes to a message: a manager is asked for its sender, or it is
\* shown and deleted.
LEMMA LoopAwaited ==
  ASSUME LinkInv, Awaited, NEW m \in messages, MessageOfStranger(m) \/ MessageShown(m)
  PROVE  Awaited'
<1> DEFINE loop == Head(todo)
           next == [t |-> "show", left |-> loop.left \ {m}]
<1>0. TypeOK
  BY DEF LinkInv
<1>1. /\ todo # <<>> /\ loop.t = "show" /\ todo' = <<next>> \o Tail(todo)
      /\ UNCHANGED <<state, users, cf_rx>>
  BY DEF MessageOfStranger, MessageShown, NextToShow, Busy, DoneWith, registry
<1>2. next \in Task /\ next.t = "show" /\ next.left = loop.left \ {m}
  BY <1>0, <1>1, TaskAtHand DEF Task
<1> HIDE DEF next
<1>3. <<next>> \in Seq(Task) /\ Elements(<<next>>) = {next}
  BY <1>2 DEF Elements
<1>4. Elements(todo') = {next} \cup Elements(Tail(todo)) /\ Elements(todo) = {loop} \cup Elements(Tail(todo))
  BY <1>0, <1>1, <1>3, TurnReplaced
<1>5. \A n : n # m /\ InTurn(n) => InTurn(n)'
  BY <1>1, <1>2, <1>4 DEF InTurn
<1>6. Admins' = Admins
  BY <1>1, AdminsOf
<1>7. CASE MessageOfStranger(m)
  <2>1. messages' = messages /\ recipients' = recipients /\ m.addr \notin DOMAIN recipients
    BY <1>7 DEF MessageOfStranger, store
  <2>2. \E s \in Sources : Ask(s, Make(m.addr)) /\ (m.kind \in Sources => s = m.kind)
    BY <1>7 DEF MessageOfStranger, Make, Sources
  <2>3. /\ \A n \in Showable : AskedFor(n) => AskedFor(n)'
        /\ m.kind \in Sources => Make(m.addr) \in Elements(mgr_rx'[m.kind])
    BY <1>0, <2>1, <2>2, AskKeeps
  <2>4. m \in Showable => m.kind \in Sources
    BY <1>0 DEF Showable, TypeOK, Message, Kinds, Sources
  <2>5. m \in Showable => AskedFor(m)'
    BY <2>1, <2>3, <2>4 DEF AskedFor, Make
  <2>6. Showable' = Showable
    BY <2>1 DEF Showable
  <2> QED
    BY <1>1, <1>5, <1>6, <2>3, <2>5, <2>6, StillAwaited
<1>8. CASE MessageShown(m)
  <2>1. DOMAIN recipients' = DOMAIN recipients /\ mgr_rx' = mgr_rx
    BY <1>8 DEF MessageShown, SetMode
  <2>2. Showable' \subseteq Showable /\ m \notin Showable'
    BY <1>8 DEF MessageShown, ProcessMsg, Showable
  <2>3. \A n : AskedFor(n) => AskedFor(n)'
    BY <2>1, NobodyAsked
  <2> QED
    BY <1>1, <1>5, <1>6, <2>2, <2>3, StillAwaited
<1> QED
  BY <1>7, <1>8

\* The handler that runs.
LEMMA HandlerAwaited ==
  ASSUME LinkInv, Awaited, Handler
  PROVE  Awaited'
<1> USE DEF registry, store, network
<1>0. TypeOK
  BY DEF LinkInv
<1>1. CASE QuasiburstStep
  <2>1. PICK a \in Head(todo).left :
          todo' = <<[t |-> "setup", addr |-> a], [t |-> "quasiburst", left |-> Head(todo).left \ {a}]>> \o Tail(todo)
    BY <1>1 DEF QuasiburstStep
  <2> DEFINE x == [t |-> "setup", addr |-> a]
             y == [t |-> "quasiburst", left |-> Head(todo).left \ {a}]
             new == <<x, y>>
  <2>2. /\ todo # <<>> /\ Head(todo).t = "quasiburst" /\ Head(todo).left \in SUBSET Addrs
        /\ UNCHANGED <<state, users, messages, recipients, cf_rx, mgr_rx>>
    BY <1>0, <1>1, TaskAtHand DEF QuasiburstStep, Busy
  <2>3. new \in Seq(Task) /\ todo' = new \o Tail(todo)
    BY <2>1, <2>2 DEF Task
  <2> HIDE DEF new
  <2>4. Elements(todo') = Elements(new) \cup Elements(Tail(todo)) /\ Elements(todo) = {Head(todo)} \cup Elements(Tail(todo))
    BY <1>0, <2>2, <2>3, TurnReplaced
  <2>5. \A m : (InTurn(m) => InTurn(m)') /\ (AskedFor(m) => AskedFor(m)')
    BY <2>2, <2>4, NobodyAsked DEF InTurn
  <2> QED
    BY <2>2, <2>5, AdminsOf, StillAwaited DEF Showable
<1>2. ASSUME NEW m \in messages, MessageNeedsGhost(m)
      PROVE  Awaited'
  <2> DEFINE x == [t |-> "setup", addr |-> m.addr]
             new == <<x>>
  <2>1. UNCHANGED <<state, users, messages, recipients, cf_rx, mgr_rx>> /\ new \in Seq(Task) /\ todo' = new \o todo
    BY <1>0, <1>2 DEF MessageNeedsGhost, Task, TypeOK, Message
  <2> HIDE DEF new
  <2>2. Elements(todo') = Elements(new) \cup Elements(todo)
    BY <1>0, <2>1, ElementsOf DEF TypeOK
  <2>3. \A n : (InTurn(n) => InTurn(n)') /\ (AskedFor(n) => AskedFor(n)')
    BY <2>1, <2>2, NobodyAsked DEF InTurn
  <2> QED
    BY <2>1, <2>3, AdminsOf, StillAwaited DEF Showable
<1>3. CASE BecomeLinked
  <2>1. 1 \in DOMAIN todo' /\ todo'[1].t = "messages"
    BY <1>3 DEF BecomeLinked
  <2>2. \A m : InTurn(m)'
    BY <2>1 DEF InTurn, Elements
  <2> QED
    BY <2>2 DEF Awaited, LookedAt
<1>4. CASE StartMessages
  <2> DEFINE x == [t |-> "show", left |-> messages]
             new == <<x>>
  <2>1. /\ todo # <<>> /\ (Admins # {} => todo' = new \o Tail(todo))
        /\ UNCHANGED <<state, users, messages, recipients, cf_rx, mgr_rx>>
    BY <1>4 DEF StartMessages, Busy
  <2>2. new \in Seq(Task) /\ x \in Elements(new)
    BY <1>0 DEF Task, TypeOK, Elements
  <2>3. x.t = "show" /\ x.left = messages
    OBVIOUS
  <2> HIDE DEF new, x
  <2>4. Admins # {} => x \in Elements(todo')
    BY <1>0, <2>1, <2>2, TurnReplaced
  <2>5. Admins' = Admins
    BY <2>1, AdminsOf
  <2>6. Admins' # {} => \A m \in Showable' : InTurn(m)'
    BY <2>1, <2>3, <2>4, <2>5 DEF InTurn, Showable
  <2> QED
    BY <2>6 DEF Awaited, LookedAt
<1>5. CASE UuidsExhausted
  BY <1>5 DEF UuidsExhausted, Restarted, Awaited
<1> QED
  BY <1>1, <1>2, <1>3, <1>4, <1>5, TaskEndsAwaited, LoopAwaited DEF Handler

\* A line of the server: the administrator comes back by a UID line, which
\* starts process_messages.
LEMMA ReadLineAwaited ==
  ASSUME LinkInv, NoNickBack, Awaited, ReadLine
  PROVE  Awaited'
<1> USE DEF registry, store, network
<1> DEFINE line == Head(inbound)
<1>0. TypeOK /\ Idle /\ inbound # <<>> /\ UNCHANGED <<messages, recipients>>
  BY DEF LinkInv, ReadLine, ReadServer, ReadEndburst, ReadUid, ReadNick, ReadQuitOrKill, ReadSquit,
     ReadDirectMessage, ReadCommand, Read
<1>1. Showable' = Showable /\ \A m : ~InTurn(m)
  BY <1>0, IdleNoTurn DEF Showable
<1>2. CASE ReadServer
  BY <1>2 DEF ReadServer, Awaited
<1>3. CASE ReadUid /\ line.nick = AdminNick
  <2>1. 1 \in DOMAIN todo' /\ todo'[1].t = "messages"
    BY <1>3 DEF ReadUid
  <2>2. \A m : InTurn(m)'
    BY <2>1 DEF InTurn, Elements
  <2> QED
    BY <2>2 DEF Awaited, LookedAt
<1>4. CASE ReadDirectMessage
  <2>1. UNCHANGED <<state, users, cf_rx>> /\ (mgr_rx' = mgr_rx \/ \E s \in Sources : \E q : Ask(s, q))
    BY <1>4 DEF ReadDirectMessage, Sources
  <2>2. \A m \in Showable : AskedFor(m) => AskedFor(m)'
    BY <1>0, <2>1, AskKeeps, NobodyAsked
  <2> QED
    BY <1>1, <2>1, <2>2, AdminsOf, StillAwaited
<1>5. CASE ReadCommand
  <2>1. UNCHANGED <<state, users, mgr_rx>> /\ (cf_rx' = cf_rx \/ (cf_rx' = Append(cf_rx, line.cmd) /\ line.cmd \in Command))
    BY <1>0, <1>5, LineAtHand DEF ReadCommand, Read
  <2>2. Elements(cf_rx) \subseteq Elements(cf_rx')
    <3>1. cf_rx \in Seq(Command)
      BY <1>0 DEF TypeOK
    <3>2. line.cmd \in Command => Elements(Append(cf_rx, line.cmd)) = Elements(cf_rx) \cup {line.cmd}
      BY <3>1, ElementsAppended
    <3> QED
      BY <2>1, <3>2
  <2>3. Notice(cf_rx) => Notice(cf_rx')
    BY <2>2 DEF Notice
  <2>4. \A m : AskedFor(m) => AskedFor(m)'
    BY <1>0, <2>1, NobodyAsked
  <2> QED
    BY <1>1, <2>1, <2>3, <2>4, AdminsOf, StillAwaited
<1>6. CASE ReadEndburst \/ (ReadUid /\ line.nick # AdminNick) \/ ReadNick \/ ReadQuitOrKill \/ ReadSquit
  <2>1. UNCHANGED <<state, cf_rx, mgr_rx>>
    BY <1>6 DEF ReadEndburst, ReadUid, ReadNick, ReadQuitOrKill, ReadSquit
  <2>2. \A m : AskedFor(m) => AskedFor(m)'
    BY <1>0, <2>1, NobodyAsked
  <2>3. Admins' \subseteq Admins
    <3>1. CASE ReadEndburst
      BY <3>1, AdminsOf DEF ReadEndburst
    <3>2. CASE ReadUid /\ line.nick # AdminNick
      BY <3>2, AdminsOf DEF ReadUid
    <3>3. CASE ReadNick
      <4>1. line \in Elements(inbound)
        BY <1>0, ElementsOf DEF TypeOK
      <4>2. line.nick # AdminNick
        BY <3>3, <4>1 DEF ReadNick, Read, NoNickBack
      <4> QED
        BY <3>3, <4>2, AdminsOf DEF ReadNick
    <3>4. CASE ReadQuitOrKill
      <4>1. \E X : users' = Without(users, X)
        BY <3>4 DEF ReadQuitOrKill, RemoveUser
      <4> QED
        BY <4>1, AdminsOf
    <3>5. CASE ReadSquit
      BY <3>5, AdminsOf DEF ReadSquit
    <3> QED
      BY <1>6, <3>1, <3>2, <3>3, <3>4, <3>5
  <2> QED
    BY <1>1, <2>1, <2>2, <2>3, StillAwaited
<1> QED
  BY <1>2, <1>3, <1>4, <1>5, <1>6 DEF ReadLine

\* A command: nobody takes the administrator's nick, and no recipient is new.
LEMMA TakeCommandAwaited ==
  ASSUME LinkInv, Awaited, TakeCommand
  PROVE  Awaited'
<1> USE DEF registry, store, network
<1>0. TypeOK /\ Idle /\ cf_rx # <<>> /\ cf_rx' = Tail(cf_rx) /\ UNCHANGED <<state, messages>>
  BY DEF LinkInv, TakeCommand, TakeProcessMessages, TakeSetupContact, TakeQueryContact, TakeDropContactByNick,
     TakeChangeNickByNick, TakeChangeNick, TakeSetWhatsappByNick, Take
<1>1. Showable' = Showable /\ \A m : ~InTurn(m)
  BY <1>0, IdleNoTurn DEF Showable
<1>2. CASE TakeProcessMessages
  <2>1. 1 \in DOMAIN todo' /\ todo'[1].t = "messages"
    BY <1>2 DEF TakeProcessMessages
  <2>2. \A m : InTurn(m)'
    BY <2>1 DEF InTurn, Elements
  <2> QED
    BY <2>2 DEF Awaited, LookedAt
<1>3. CASE ~TakeProcessMessages
  <2>1. Head(cf_rx) # ProcessMessages
    BY <1>3 DEF TakeCommand, TakeSetupContact, TakeQueryContact, TakeDropContactByNick,
       TakeChangeNickByNick, TakeChangeNick, TakeSetWhatsappByNick, Take, ProcessMessages
  <2>2. Notice(cf_rx) => Notice(cf_rx')
    <3>1. Elements(cf_rx) = {Head(cf_rx)} \cup Elements(Tail(cf_rx))
      BY <1>0, ElementsOf DEF TypeOK
    <3> QED
      BY <1>0, <2>1, <3>1 DEF Notice
  <2>3. \A a, n : n \in Nick /\ ChangeNick(a, n) => Admins' \subseteq Admins /\ DOMAIN recipients' = DOMAIN recipients
    <3> TAKE a, n
    <3> HAVE n \in Nick /\ ChangeNick(a, n)
    <3> DEFINE u == contacts[a].uuid
    <3>1. CASE UNCHANGED <<users, recipients>>
      BY <3>1, AdminsOf
    <3>2. CASE \E k \in Settled(n) : users' = [users EXCEPT ![u] = k] /\ recipients' = [recipients EXCEPT ![a].nick = k]
      <4>1. PICK k \in Settled(n) : users' = [users EXCEPT ![u] = k] /\ DOMAIN recipients' = DOMAIN recipients
        BY <3>2
      <4> QED
        BY <4>1, SettledNotAdmin, AdminsOf
    <3> QED
      BY <3>1, <3>2 DEF ChangeNick
  <2>4. Admins' \subseteq Admins /\ DOMAIN recipients' \subseteq DOMAIN recipients
    <3>1. CASE TakeSetupContact \/ TakeQueryContact
      BY <3>1, AdminsOf DEF TakeSetupContact, TakeQueryContact
    <3>2. CASE TakeDropContactByNick
      <4>1. CASE UNCHANGED <<users, recipients>>
        BY <4>1, AdminsOf
      <4>2. CASE ~UNCHANGED <<users, recipients>>
        <5>1. \E X : users' = Without(users, X) /\ DOMAIN recipients' \subseteq DOMAIN recipients
          BY <3>2, <4>2 DEF TakeDropContactByNick, RemoveContact, Without
        <5> QED
          BY <5>1, AdminsOf
      <4> QED
        BY <4>1, <4>2
    <3>3. CASE TakeSetWhatsappByNick
      BY <3>3, AdminsOf DEF TakeSetWhatsappByNick, SetMode
    <3>4. CASE TakeChangeNickByNick \/ TakeChangeNick
      <4>1. Head(cf_rx).new \in Nick
        BY <1>0, <3>4, CommandAtHand DEF TakeChangeNickByNick, TakeChangeNick, Take
      <4>2. UNCHANGED <<users, recipients>> \/ \E a : ChangeNick(a, Head(cf_rx).new)
        BY <3>4 DEF TakeChangeNickByNick, TakeChangeNick
      <4> QED
        BY <2>3, <4>1, <4>2, AdminsOf
    <3> QED
      BY <1>3, <3>1, <3>2, <3>3, <3>4 DEF TakeCommand
  <2>5. \A m \in Showable : AskedFor(m) => AskedFor(m)'
    <3>1. CASE mgr_rx' = mgr_rx
      BY <2>4, <3>1, NobodyAsked
    <3>2. CASE TakeQueryContact
      <4>1. recipients' = recipients /\ (mgr_rx' = mgr_rx \/ \E q : Ask(Head(cf_rx).src, q))
        BY <3>2 DEF TakeQueryContact
      <4>2. Head(cf_rx).src \in Sources
        BY <1>0, <3>2, CommandAtHand DEF TakeQueryContact, Take
      <4> QED
        BY <1>0, <3>1, <4>1, <4>2, AskKeeps
    <3> QED
      BY <1>3, <3>1, <3>2 DEF TakeCommand, TakeSetupContact, TakeDropContactByNick,
         TakeChangeNickByNick, TakeChangeNick, TakeSetWhatsappByNick
  <2> QED
    BY <1>0, <1>1, <2>2, <2>4, <2>5, StillAwaited
<1> QED
  BY <1>2, <1>3

\* A manager that stores a recipient queues ProcessMessages; one that does not
\* was asked for a recipient that exists.
LEMMA ManagerStepAwaited ==
  ASSUME LinkInv, Awaited, NEW s \in Sources, ManagerStep(s)
  PROVE  Awaited'
<1> DEFINE q == Head(mgr_rx[s])
<1>1. /\ TypeOK /\ Idle /\ mgr_rx \in [Sources -> Seq(Request)] /\ mgr_rx[s] # <<>>
      /\ mgr_rx' = [mgr_rx EXCEPT ![s] = Tail(@)] /\ UNCHANGED <<state, users, messages>>
  BY DEF ManagerStep, registry, LinkInv, TypeOK
<1>2. cf_rx \in Seq(Command)
  BY <1>1 DEF TypeOK
<1>3. Showable' = Showable /\ Admins' = Admins /\ \A m : ~InTurn(m)
  BY <1>1, IdleNoTurn, AdminsOf DEF Showable
<1>4. q \in Request
  BY <1>1
<1>5. CASE UNCHANGED <<recipients, cf_rx>> /\ (q.r = "make" => q.addr \in DOMAIN recipients)
  <2>1. \A src \in Sources : src # s => mgr_rx'[src] = mgr_rx[src]
    BY <1>1
  <2>2. Elements(mgr_rx[s]) = {q} \cup Elements(mgr_rx'[s])
    BY <1>1, ElementsOf
  <2>3. \A m \in Showable : m.kind \in Sources
    BY <1>1 DEF Showable, TypeOK, Message, Kinds, Sources
  <2>4. \A a : q = Make(a) => a \in DOMAIN recipients
    BY <1>5 DEF Make
  <2>5. \A m \in Showable : AskedFor(m) => AskedFor(m)'
    BY <1>5, <2>1, <2>2, <2>3, <2>4 DEF AskedFor, Make
  <2> QED
    BY <1>1, <1>3, <1>5, <2>5, StillAwaited
<1>6. ASSUME NEW a \in Addrs, CfSend(<<ProcessMessages>>) \/ CfSend(<<SetupContact(a), ProcessMessages>>)
                              \/ CfSend(<<SetupContact(a)>> \o <<ProcessMessages>>)
      PROVE  Awaited'
  BY <1>2, <1>6, NoticeSent, NoticeAwaits
<1>7. CASE q.r = "send"
  BY <1>5, <1>7 DEF ManagerStep
<1>8. CASE q.r = "make"
  <2>1. q.addr \in Addrs
    BY <1>4, <1>8 DEF Request
  <2>2. CASE s = "sms"
    <3>1. SmsMakeContact(q.addr)
      BY <1>8, <2>2 DEF ManagerStep
    <3> QED
      BY <1>5, <1>6, <2>1, <3>1 DEF SmsMakeContact
  <2>3. CASE s = "wa"
    <3>1. GetWaRecipient(q.addr, <<ProcessMessages>>)
      BY <1>8, <2>3 DEF ManagerStep
    <3> QED
      BY <1>6, <2>1, <3>1 DEF GetWaRecipient
  <2> QED
    BY <2>2, <2>3 DEF Sources
<1> QED
  BY <1>4, <1>7, <1>8 DEF Request

\* A step of the network only.
LEMMA QuietAwaited ==
  ASSUME Awaited, UNCHANGED local
  PROVE  Awaited'
<1>1. UNCHANGED <<state, users, messages, recipients, cf_rx, todo, mgr_rx>>
  BY DEF local, registry, store
<1>2. \A m : (InTurn(m) => InTurn(m)') /\ (AskedFor(m) => AskedFor(m)')
  BY <1>1, NobodyAsked DEF InTurn
<1> QED
  BY <1>1, <1>2, AdminsOf, StillAwaited DEF Showable

\* Outside events: what arrives is announced, and only the administrator's
\* return is an event of the network that the link waits for.
LEMMA OutsideAwaited ==
  ASSUME LinkInv, Awaited, Outside, Events \cap Unnoticed = {}
  PROVE  Awaited'
<1>0. TypeOK /\ cf_rx \in Seq(Command)
  BY DEF LinkInv, TypeOK
<1>1. CASE Crash
  BY <1>1 DEF Crash, Restarted, Awaited
<1>2. ASSUME NEW a \in Addrs, SmsArrives(a)
      PROVE  Awaited'
  BY <1>0, <1>2, NoticeSent, NoticeAwaits DEF SmsArrives
<1>3. ASSUME NEW a \in Addrs, WaArrives(a)
      PROVE  Awaited'
  <2>1. CfSend(<<ProcessMessages>>) \/ CfSend(<<SetupContact(a)>> \o <<ProcessMessages>>)
    BY <1>3 DEF WaArrives, GetWaRecipient
  <2> QED
    BY <1>0, <2>1, NoticeSent, NoticeAwaits
<1>4. \A a \in Addrs : ~WaContactSeen(a)
  BY DEF WaContactSeen, Input, Unnoticed
<1>5. ASSUME NEW a \in Addrs, NEW n \in Nicks, WaContactRenamed(a, n)
      PROVE  Awaited'
  <2> DEFINE x == [c |-> "autonick", addr |-> a, new |-> n]
             one == <<x>>
  <2>1. UNCHANGED <<state, users, messages, recipients, todo, mgr_rx>> /\ cf_rx' = cf_rx \o one
    BY <1>5 DEF WaContactRenamed, CfSend, registry, store
  <2>2. x \in Command
    BY LinkAssumption DEF Command
  <2> HIDE DEF x
  <2>3. one \in Seq(Command)
    BY <2>2
  <2> HIDE DEF one
  <2>4. Elements(cf_rx \o one) = Elements(cf_rx) \cup Elements(one)
    BY <1>0, <2>3, ElementsJoined
  <2>5. Notice(cf_rx) => Notice(cf_rx')
    BY <2>1, <2>4 DEF Notice
  <2>6. \A m : (InTurn(m) => InTurn(m)') /\ (AskedFor(m) => AskedFor(m)')
    BY <2>1, NobodyAsked DEF InTurn
  <2> QED
    BY <2>1, <2>5, <2>6, AdminsOf, StillAwaited DEF Showable
<1>6. CASE \/ Split
           \/ \E u \in Remotes, n \in Nicks \cup {AdminNick} : Connect(u, n) \/ Rename(u, n)
           \/ \E u \in Remotes : Quit(u)
           \/ \E u \in DOMAIN seen : Kill(u)
           \/ \E u \in Remotes, g \in DOMAIN seen : WriteToGhost(u, g)
           \/ \E u \in Remotes, cmd \in AdminCommands : WriteToControl(u, cmd)
  <2>1. UNCHANGED local
    BY <1>6 DEF Split, Connect, Rename, Quit, Kill, WriteToGhost, WriteToControl
  <2> QED
    BY <2>1, QuietAwaited
<1> QED
  BY <1>1, <1>2, <1>3, <1>4, <1>5, <1>6 DEF Outside

\* The lines of the server: while "nickback" does not happen, nobody becomes
\* the administrator by a NICK line.
LEMMA NicksReported ==
  ASSUME TypeOK, NoNickBack, [Next]_vars, Events \cap Unnoticed = {}
  PROVE  NoNickBack'
<1>0. inbound \in Seq(LineIn)
  BY DEF TypeOK
<1>1. CASE Elements(inbound') \subseteq Elements(inbound)
  BY <1>1 DEF NoNickBack
<1>2. CASE inbound' = <<>>
  BY <1>2 DEF NoNickBack, Elements
<1>3. CASE inbound' = inbound
  BY <1>3 DEF NoNickBack
<1>4. CASE inbound # <<>> /\ inbound' = Tail(inbound)
  <2>1. Elements(inbound) = {Head(inbound)} \cup Elements(Tail(inbound))
    BY <1>0, <1>4, ElementsOf
  <2> QED
    BY <1>1, <1>4, <2>1
<1>5. ASSUME NEW x, x.l = "NICK" => x.nick # AdminNick, Tell(x)
      PROVE  NoNickBack'
  <2> DEFINE S == LineIn \cup {x}
  <2>1. inbound \in Seq(S) /\ x \in S
    BY <1>0
  <2> HIDE DEF S
  <2>2. Elements(Append(inbound, x)) = Elements(inbound) \cup {x}
    BY <2>1, ElementsAppended
  <2>3. inbound' = inbound \/ inbound' = Append(inbound, x)
    BY <1>5 DEF Tell
  <2> QED
    BY <1>3, <1>5, <2>2, <2>3 DEF NoNickBack
<1>6. CASE inbound' \in Netbursts
  BY <1>6, NetburstsSay DEF NoNickBack
<1>7. CASE Outside
  <2>1. CASE Crash
    BY <1>2, <2>1 DEF Crash, Restarted
  <2>2. CASE \/ \E a \in Addrs : SmsArrives(a) \/ WaArrives(a) \/ WaContactSeen(a)
             \/ \E a \in Addrs, n \in Nicks : WaContactRenamed(a, n)
    BY <1>3, <2>2 DEF SmsArrives, WaArrives, WaContactSeen, WaContactRenamed
  <2>3. CASE Split
    <3> DEFINE x == [l |-> "SQUIT"]
    <3>1. x.l = "SQUIT" /\ Tell(x)
      BY <2>3 DEF Split
    <3> HIDE DEF x
    <3> QED
      BY <1>5, <3>1
  <2>4. ASSUME NEW u \in Remotes, NEW n \in Nicks \cup {AdminNick}, Connect(u, n)
        PROVE  NoNickBack'
    <3> DEFINE x == [l |-> "UID", uuid |-> u, nick |-> n]
    <3>1. x.l = "UID" /\ Tell(x)
      BY <2>4 DEF Connect
    <3> HIDE DEF x
    <3> QED
      BY <1>5, <3>1
  <2>5. ASSUME NEW u \in Remotes, NEW n \in Nicks \cup {AdminNick}, Rename(u, n)
        PROVE  NoNickBack'
    <3> DEFINE x == [l |-> "NICK", uuid |-> u, nick |-> n]
    <3>1. n # AdminNick
      BY <2>5 DEF Rename, Input, Unnoticed
    <3>2. x.nick = n /\ Tell(x)
      BY <2>5 DEF Rename
    <3> HIDE DEF x
    <3> QED
      BY <1>5, <3>1, <3>2
  <2>6. ASSUME NEW u, Quit(u) \/ Kill(u)
        PROVE  NoNickBack'
    <3>1. \E l \in {"QUIT", "KILL"} : Tell([l |-> l, uuid |-> u])
      BY <2>6 DEF Quit, Kill
    <3>2. PICK l \in {"QUIT", "KILL"} : Tell([l |-> l, uuid |-> u])
      BY <3>1
    <3> DEFINE x == [l |-> l, uuid |-> u]
    <3>3. x.l = l /\ Tell(x)
      BY <3>2
    <3> HIDE DEF x
    <3> QED
      BY <1>5, <3>3
  <2>7. ASSUME NEW u, NEW g, WriteToGhost(u, g)
        PROVE  NoNickBack'
    <3> DEFINE x == [l |-> "DM", from |-> u, uuid |-> g, meant |-> seen[g]]
    <3>1. x.l = "DM" /\ Tell(x)
      BY <2>7 DEF WriteToGhost
    <3> HIDE DEF x
    <3> QED
      BY <1>5, <3>1
  <2>8. ASSUME NEW u, NEW cmd, WriteToControl(u, cmd)
        PROVE  NoNickBack'
    <3> DEFINE x == [l |-> "CMD", from |-> u, cmd |-> cmd]
    <3>1. x.l = "CMD" /\ Tell(x)
      BY <2>8 DEF WriteToControl
    <3> HIDE DEF x
    <3> QED
      BY <1>5, <3>1
  <2> QED
    BY <1>7, <2>1, <2>2, <2>3, <2>4, <2>5, <2>6, <2>7, <2>8 DEF Outside
<1>8. CASE ServerReads
  <2>1. outbox # <<>> /\ Head(outbox) \in LineOut
    BY <1>8, SeqType DEF ServerReads, TypeOK
  <2>2. inbound' = inbound \/ inbound' \in Netbursts
    BY <1>8, <2>1 DEF ServerReads, LineOut
  <2> QED
    BY <1>3, <1>6, <2>2
<1>9. CASE ReadLine
  BY <1>4, <1>9 DEF ReadLine, ReadServer, ReadEndburst, ReadUid, ReadNick, ReadQuitOrKill, ReadSquit,
     ReadDirectMessage, ReadCommand, Read
<1>10. CASE SendServer \/ TakeCommand \/ (\E src \in Sources : ManagerStep(src)) \/ UNCHANGED vars
  BY <1>3, <1>10 DEF SendServer, TakeCommand, TakeProcessMessages, TakeSetupContact,
     TakeQueryContact, TakeDropContactByNick, TakeChangeNickByNick, TakeChangeNick,
     TakeSetWhatsappByNick, ManagerStep, vars
<1>11. CASE Handler
  BY <1>2, <1>3, <1>11 DEF Handler, SetupNothing, SetupGhost, UuidsExhausted, Restarted, QuasiburstStep,
     QuasiburstEnd, BecomeLinked, StartMessages, MessagesEnd, MessageOfStranger, MessageNeedsGhost, MessageShown
<1> QED
  BY <1>7, <1>8, <1>9, <1>10, <1>11 DEF Next, Bridge

\* While the administrator is there, a message that can be shown only waits
\* when something is queued that makes the link look at it, provided that
\* nobody becomes the administrator by a nick change and no recipient appears
\* otherwise than by a message or a request (both are forgotten by the code:
\* insp_nick_return shows it of the nick change).
THEOREM NoneForgotten ==
  ASSUME Events \cap Unnoticed = {}
  PROVE  Spec => []NotForgotten
<1>1. Init => NoNickBack /\ Awaited
  <2> SUFFICES ASSUME Init
               PROVE  NoNickBack /\ Awaited
    OBVIOUS
  <2>1. inbound = <<>> /\ state = "TcpConnected"
    BY DEF Init
  <2> QED
    BY <2>1 DEF NoNickBack, Awaited, Elements
<1>2. LinkInv /\ NoNickBack /\ Awaited /\ [Next]_vars => NoNickBack' /\ Awaited'
  <2> SUFFICES ASSUME LinkInv, NoNickBack, Awaited, [Next]_vars
               PROVE  NoNickBack' /\ Awaited'
    OBVIOUS
  <2>1. NoNickBack'
    BY NicksReported DEF LinkInv
  <2>2. ASSUME SendServer
        PROVE  Awaited'
    BY <2>2 DEF SendServer, Awaited
  <2>3. ASSUME ServerReads \/ UNCHANGED vars
        PROVE  Awaited'
    <3>1. UNCHANGED local
      BY <2>3 DEF ServerReads, vars, local, registry, store
    <3> QED
      BY <3>1, QuietAwaited
  <2>4. Awaited'
    BY <2>2, <2>3, HandlerAwaited, ReadLineAwaited, TakeCommandAwaited, ManagerStepAwaited, OutsideAwaited
    DEF Next, Bridge
  <2> QED
    BY <2>1, <2>4
<1>3. LinkInv /\ Awaited => NotForgotten
  <2> SUFFICES ASSUME Awaited, state = "Linked", Idle, Admins # {}, NEW m \in Showable
               PROVE  LookedAt(m) /\ ~InTurn(m)
    BY DEF NotForgotten, LookedAt, Notice, AskedFor, Make, Showable
  <2> QED
    BY IdleNoTurn DEF Awaited
<1> QED
  BY <1>1, <1>2, <1>3, LinkInvariant, PTL DEF Spec
=============================================================================
