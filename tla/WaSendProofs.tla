---------------------------- MODULE WaSendProofs -----------------------------
(***************************************************************************)
(* Proofs about WaSend: types, and what a session, a poll and the tracker  *)
(* promise to each other.                                                  *)
(***************************************************************************)
EXTENDS WaSend, MapsProofs, FiniteSetTheorems

-----------------------------------------------------------------------------
(* Types *)

\* Only what has its first id waits for a session: extract_unsent gives the
\* second and sends.
FirstIds == \A mid \in Unsent : mid[2] = 1

TypeInv == TypeOK /\ FirstIds

\* A report that is made is there, with those that were.
LEMMA ReportsGrow ==
  ASSUME NEW R, ReportFailures(R)
  PROVE  BagToSet(reports') = BagToSet(reports) \cup R
BY DEF ReportFailures, BagToSet, SetToBag, (+)

\* backoff and on_wa_error leave a wrapper without a session.
LEMMA OnWaErrorTypes ==
  ASSUME TypeOK, NEW e \in Failures, OnWaError(e)
  PROVE  /\ inner' \in {"Disabled", "Waiting"} /\ persist' = persist
         /\ polled' = FALSE /\ session' = FALSE /\ connected' = FALSE
         /\ BagToSet(reports') \subseteq Report
         /\ BagToSet(reports) \subseteq BagToSet(reports')
         /\ inner' = "Disabled" => [what |-> "removed", about |-> <<>>] \in BagToSet(reports')
<1> DEFINE R == IF e \in {"removed", "unauthorized"} THEN {[what |-> "removed", about |-> <<>>]} ELSE {}
<1>1. ReportFailures(R) /\ R \subseteq Report
  BY DEF OnWaError, Report
<1>2. BagToSet(reports') = BagToSet(reports) \cup R
  BY <1>1, ReportsGrow
<1> QED
  BY <1>1, <1>2 DEF OnWaError, TypeOK

\* A command that is taken is a proper one, and those behind it stay.
LEMMA CommandAtHand ==
  ASSUME TypeOK, rx # <<>>
  PROVE  /\ Tail(rx) \in Seq(Command) /\ Head(rx) \in Command
         /\ Elements(rx) = {Head(rx)} \cup Elements(Tail(rx))
         /\ Head(rx).c = "send" => Head(rx).msg \in Msgs
<1>1. Tail(rx) \in Seq(Command) /\ Head(rx) \in Command
  BY SeqType DEF TypeOK
<1>2. Elements(rx) = {Head(rx)} \cup Elements(Tail(rx))
  BY ElementsOf DEF TypeOK
<1> QED
  BY <1>1, <1>2 DEF Command

\* An id at the head of the outbox is a proper one, and those behind it stay.
LEMMA IdAtHand ==
  ASSUME TypeOK, outbox # <<>>
  PROVE  /\ Tail(outbox) \in Seq(Mids) /\ Head(outbox) \in Mids
         /\ Elements(outbox) = {Head(outbox)} \cup Elements(Tail(outbox))
BY SeqType, ElementsOf DEF TypeOK

\* The entries of the tracker are of their type, and those it registers.
LEMMA EntryTypes ==
  ASSUME TypeOK
  PROVE  /\ DOMAIN outgoing_messages \subseteq Mids
         /\ \A mid \in DOMAIN outgoing_messages : outgoing_messages[mid] \in Status
         /\ \A b \in BOOLEAN : NewStatus(b) \in Status
BY SendAssumption DEF TypeOK, IsPartial, NewStatus, Status

\* What time and check_acks change of an entry leaves it a proper one that
\* waits for a session or does not, as before.
LEMMA EntryChanges ==
  ASSUME TypeOK, NEW mid \in DOMAIN outgoing_messages
  PROVE  /\ \A by \in {-1, 1} :
              [outgoing_messages[mid] EXCEPT !.age = IF @ + by \in -1 .. MaxAge THEN @ + by ELSE @]
                \in Status
         /\ Checked(mid) \in Status /\ Checked(mid).unsent = outgoing_messages[mid].unsent
         /\ \A level \in Levels :
              [outgoing_messages[mid] EXCEPT !.ack_level = level] \in Status
<1>1. outgoing_messages[mid] \in Status
  BY EntryTypes
<1>2. Overdue(mid) \in BOOLEAN /\ StillPending(mid) \in BOOLEAN
  BY <1>1 DEF Overdue, StillPending
<1>3. Checked(mid) \in Status /\ Checked(mid).unsent = outgoing_messages[mid].unsent
  BY <1>1, <1>2 DEF Checked, Status
<1>4. ASSUME NEW by \in {-1, 1}
      PROVE  [outgoing_messages[mid] EXCEPT !.age = IF @ + by \in -1 .. MaxAge THEN @ + by ELSE @]
                \in Status
  BY <1>1, SendAssumption DEF Status
<1>5. \A level \in Levels : [outgoing_messages[mid] EXCEPT !.ack_level = level] \in Status
  BY <1>1 DEF Status
<1> QED
  BY <1>3, <1>4, <1>5

\* send_message of every entry in the order of a HashMap: the ids that are
\* handed over are the second ids of what waited.
LEMMA OrderTypes ==
  ASSUME TypeInv, NEW order \in SetToSeqs(Unsent)
  PROVE  LET new == [i \in DOMAIN order |-> NewId(order[i])] IN
         /\ new \in Seq(Mids)
         /\ Len(new) = Cardinality(Unsent) /\ Cardinality(Unsent) \in Nat
         /\ DOMAIN order = 1 .. Cardinality(Unsent)
         /\ \A i \in DOMAIN order : order[i] \in Unsent
         /\ \A i, j \in DOMAIN order : order[i] = order[j] => i = j
<1>1. Unsent \subseteq Msgs \X {1}
  BY EntryTypes DEF TypeInv, FirstIds, Unsent, Mids
<1>2. IsFiniteSet(Msgs \X {1})
  BY SendAssumption, FS_Product, FS_Singleton
<1>3. IsFiniteSet(Unsent)
  BY <1>1, <1>2, FS_Subset
<1>4. Cardinality(Unsent) \in Nat
  BY <1>3, FS_CardinalityType
<1>5. /\ order \in [1 .. Cardinality(Unsent) -> Unsent]
      /\ \A i, j \in 1 .. Cardinality(Unsent) : i # j => order[i] # order[j]
  BY DEF SetToSeqs
<1>6. \A mid \in Unsent : NewId(mid) \in Mids
  BY <1>1 DEF NewId, Mids
<1> DEFINE new == [i \in DOMAIN order |-> NewId(order[i])]
<1>7. new \in [1 .. Cardinality(Unsent) -> Mids]
  BY <1>5, <1>6
<1>8. new \in Seq(Mids) /\ Len(new) = Cardinality(Unsent)
  BY <1>4, <1>7
<1> QED
  BY <1>4, <1>5, <1>8

\* After extract_unsent nothing waits for a session, and what waited has a new
\* id.
LEMMA ExtractTypes ==
  ASSUME TypeInv, ExtractUnsent
  PROVE  /\ IsPartial(outgoing_messages', Mids, Status)
         /\ Unsent' = {}
         /\ DOMAIN outgoing_messages' =
              (DOMAIN outgoing_messages \ Unsent) \cup {NewId(mid) : mid \in Unsent}
<1> DEFINE new == {NewId(mid) : mid \in Unsent}
           dom == (DOMAIN outgoing_messages \ Unsent) \cup new
<1>1. outgoing_messages' = [mid \in dom |-> IF mid \in new THEN NewStatus(FALSE) ELSE outgoing_messages[mid]]
  BY DEF ExtractUnsent
<1>2. \A mid \in Unsent : NewId(mid) \in Mids
  BY EntryTypes DEF TypeInv, FirstIds, Unsent, Mids, NewId
<1>3. dom \subseteq Mids
  BY <1>2, EntryTypes DEF TypeInv
<1>4. \A mid \in dom : outgoing_messages'[mid] \in Status /\ ~outgoing_messages'[mid].unsent
  <2> SUFFICES ASSUME NEW mid \in dom
               PROVE  outgoing_messages'[mid] \in Status /\ ~outgoing_messages'[mid].unsent
    OBVIOUS
  <2>1. CASE mid \in new
    BY <1>1, <2>1, EntryTypes DEF TypeInv, NewStatus
  <2>2. CASE mid \notin new
    <3>1. mid \in DOMAIN outgoing_messages /\ mid \notin Unsent
      BY <2>2
    <3> QED
      BY <1>1, <2>2, <3>1, EntryTypes DEF TypeInv, Unsent
  <2> QED
    BY <2>1, <2>2
<1> QED
  BY <1>1, <1>3, <1>4 DEF IsPartial, Unsent

\* Registering a message gives it its first id, and leaves the other entries.
LEMMA RegisterTypes ==
  ASSUME TypeInv, NEW m \in Msgs, NEW unsent \in BOOLEAN, RegisterSend(<<m, 1>>, unsent)
  PROVE  /\ IsPartial(outgoing_messages', Mids, Status)
         /\ DOMAIN outgoing_messages' = DOMAIN outgoing_messages \cup {<<m, 1>>}
         /\ outgoing_messages'[<<m, 1>>] = NewStatus(unsent)
         /\ FirstIds'
         /\ ~unsent => Unsent' \subseteq Unsent
         /\ Unsent' \subseteq Unsent \cup {<<m, 1>>}
<1> DEFINE id == <<m, 1>>
           st == NewStatus(unsent)
<1>1. id \in Mids /\ st \in Status
  BY EntryTypes DEF Mids, TypeInv
<1>6. outgoing_messages' = Put(outgoing_messages, id, st) /\ IsPartial(outgoing_messages, Mids, Status)
  BY DEF RegisterSend, TypeInv, TypeOK
<1>7. /\ IsPartial(outgoing_messages', Mids, Status)
      /\ DOMAIN outgoing_messages' = DOMAIN outgoing_messages \cup {id}
      /\ outgoing_messages'[id] = st
      /\ \A mid \in DOMAIN outgoing_messages : mid # id => outgoing_messages'[mid] = outgoing_messages[mid]
  <2> HIDE DEF id, st
  <2> QED
    BY <1>1, <1>6, PutType
<1>2. /\ IsPartial(outgoing_messages', Mids, Status)
      /\ DOMAIN outgoing_messages' = DOMAIN outgoing_messages \cup {<<m, 1>>}
      /\ outgoing_messages'[<<m, 1>>] = NewStatus(unsent)
      /\ \A mid \in DOMAIN outgoing_messages :
           mid # <<m, 1>> => outgoing_messages'[mid] = outgoing_messages[mid]
  BY <1>7
<1>3. Unsent' \subseteq Unsent \cup {<<m, 1>>}
  BY <1>2 DEF Unsent
<1>4. ~unsent => Unsent' \subseteq Unsent
  BY <1>2, <1>3 DEF Unsent, NewStatus
<1>5. FirstIds'
  BY <1>3 DEF FirstIds, TypeInv
<1> QED
  BY <1>2, <1>3, <1>4, <1>5

\* Time, an acknowledgement and check_acks change entries or forget them; what
\* waited for a session still does, or is forgotten.
LEMMA ChangedTypes ==
  ASSUME TypeInv, DOMAIN outgoing_messages' \subseteq DOMAIN outgoing_messages,
         outgoing_messages' = [mid \in DOMAIN outgoing_messages' |-> outgoing_messages'[mid]],
         \A mid \in DOMAIN outgoing_messages' :
           /\ outgoing_messages'[mid] \in Status
           /\ outgoing_messages'[mid].unsent = outgoing_messages[mid].unsent
  PROVE  IsPartial(outgoing_messages', Mids, Status) /\ Unsent' \subseteq Unsent /\ FirstIds'
<1>1. IsPartial(outgoing_messages', Mids, Status)
  BY EntryTypes DEF IsPartial, TypeInv
<1>2. Unsent' \subseteq Unsent
  BY DEF Unsent
<1> QED
  BY <1>1, <1>2 DEF FirstIds, TypeInv

\* A step that leaves the tracker alone leaves its types alone.
LEMMA SameEntries ==
  ASSUME TypeInv, outgoing_messages' = outgoing_messages
  PROVE  IsPartial(outgoing_messages', Mids, Status) /\ FirstIds' /\ Unsent' = Unsent
BY DEF TypeInv, TypeOK, FirstIds, Unsent

\* The steps of the connection keep the types.
LEMMA ConnectionKeepsTypes ==
  ASSUME TypeInv, Connection
  PROVE  TypeInv'
<1>1. CASE DelayElapsed
  BY <1>1, SameEntries DEF DelayElapsed, Initialize, TypeInv, TypeOK, loop, quiet, store
<1>2. CASE ConnectDone
  BY <1>2, SameEntries DEF ConnectDone, ConnectEnds, TypeInv, TypeOK, loop, quiet, store
<1>3. CASE ConnectFails
  BY <1>3, SameEntries DEF ConnectFails, ConnectEnds, TypeInv, TypeOK, loop, quiet, store
<1>4. CASE OnEstablished
  <2>1. PICK order \in SetToSeqs(Unsent) :
          outbox' = outbox \o [i \in DOMAIN order |-> NewId(order[i])]
    BY <1>4 DEF OnEstablished
  <2>2. outbox' \in Seq(Mids)
    <3> DEFINE new == [i \in DOMAIN order |-> NewId(order[i])]
    <3>1. new \in Seq(Mids) /\ outbox \in Seq(Mids)
      BY OrderTypes DEF TypeInv, TypeOK
    <3> QED
      BY <2>1, <3>1
  <2>3. IsPartial(outgoing_messages', Mids, Status) /\ FirstIds'
    BY <1>4, ExtractTypes DEF OnEstablished, FirstIds
  <2>4. persist' \in Nat /\ saved' \in Nat
    BY <1>4 DEF OnEstablished, TypeInv, TypeOK
  <2> QED
    BY <1>4, <2>2, <2>3, <2>4 DEF OnEstablished, TypeInv, TypeOK, loop
<1>5. ASSUME NEW e \in Failures, ConnectionFails(e)
      PROVE  TypeInv'
  <2>1. OnWaError(e)
    BY <1>5 DEF ConnectionFails
  <2>2. inputs' \in 0 .. MaxInputs
    BY <1>5, SendAssumption DEF ConnectionFails, Input, TypeInv, TypeOK
  <2> QED
    BY <1>5, <2>1, <2>2, OnWaErrorTypes, SameEntries
    DEF ConnectionFails, TypeInv, TypeOK, loop, quiet, store
<1>6. ASSUME NEW mid \in Elements(server), NEW level \in Levels, OnMessageAck(mid, level)
      PROVE  TypeInv'
  <2>1. mid \in Mids
    BY ElementsOf DEF TypeInv, TypeOK
  <2>2. told' \subseteq Mids \X Levels
    BY <1>6, <2>1 DEF OnMessageAck, TypeInv, TypeOK
  <2>3. IsPartial(outgoing_messages', Mids, Status) /\ FirstIds' /\ BagToSet(reports') \subseteq Report
    <3>1. CASE mid \in DOMAIN outgoing_messages
      <4> DEFINE R == IF level = "error" THEN {[what |-> "error", about |-> mid]} ELSE {}
      <4>1. ReportFailures(R) /\ R \subseteq Report
        BY <1>6, <2>1, <3>1 DEF OnMessageAck, Report
      <4>2. BagToSet(reports') \subseteq Report
        BY <4>1, ReportsGrow DEF TypeInv, TypeOK
      <4>3. outgoing_messages' = [outgoing_messages EXCEPT ![mid].ack_level = level]
        BY <1>6, <3>1 DEF OnMessageAck
      <4>5. outgoing_messages = [m \in DOMAIN outgoing_messages |-> outgoing_messages[m]]
        BY DEF TypeInv, TypeOK, IsPartial
      <4>4. /\ DOMAIN outgoing_messages' = DOMAIN outgoing_messages
            /\ outgoing_messages' = [m \in DOMAIN outgoing_messages' |-> outgoing_messages'[m]]
            /\ \A m \in DOMAIN outgoing_messages : outgoing_messages'[m] =
                 IF m = mid THEN [outgoing_messages[mid] EXCEPT !.ack_level = level]
                 ELSE outgoing_messages[m]
        BY <4>3, <4>5
      <4>6. \A m \in DOMAIN outgoing_messages :
              outgoing_messages[m] \in Status
        BY EntryTypes DEF TypeInv
      <4>7. /\ [outgoing_messages[mid] EXCEPT !.ack_level = level] \in Status
            /\ [outgoing_messages[mid] EXCEPT !.ack_level = level].unsent = outgoing_messages[mid].unsent
        BY <3>1, <4>6 DEF Status
      <4>8. \A m \in DOMAIN outgoing_messages' :
              outgoing_messages'[m] \in Status /\ outgoing_messages'[m].unsent = outgoing_messages[m].unsent
        BY <4>4, <4>6, <4>7
      <4>9. IsPartial(outgoing_messages', Mids, Status) /\ FirstIds'
        <5>1. DOMAIN outgoing_messages' \subseteq DOMAIN outgoing_messages
          BY <4>4
        <5>2. outgoing_messages' = [m \in DOMAIN outgoing_messages' |-> outgoing_messages'[m]]
          BY <4>4
        <5> QED
          BY <4>8, <5>1, <5>2, ChangedTypes
      <4> QED
        BY <4>2, <4>9
    <3>2. CASE mid \notin DOMAIN outgoing_messages
      <4>1. UNCHANGED <<outgoing_messages, reports>>
        BY <1>6, <3>2 DEF OnMessageAck
      <4> QED
        BY <4>1, SameEntries DEF TypeInv, TypeOK
    <3> QED
      BY <3>1, <3>2
  <2>4. inputs' \in 0 .. MaxInputs
    BY <1>6, SendAssumption DEF OnMessageAck, Input, TypeInv, TypeOK
  <2> QED
    BY <1>6, <2>2, <2>3, <2>4
    DEF OnMessageAck, TypeInv, TypeOK, loop, wrapper, quiet, store
<1> QED
  BY <1>1, <1>2, <1>3, <1>4, <1>5, <1>6 DEF Connection

\* check_acks reports, marks and forgets entries, and keeps their types.
LEMMA CheckTypes ==
  ASSUME TypeInv, CheckAcks
  PROVE  /\ IsPartial(outgoing_messages', Mids, Status) /\ FirstIds' /\ Unsent' \subseteq Unsent
         /\ BagToSet(reports) \subseteq BagToSet(reports') /\ BagToSet(reports') \subseteq Report
<1> DEFINE late == {[what |-> IF outgoing_messages[mid].unsent THEN "unsent" ELSE "slow", about |-> mid] :
                       mid \in {mid \in DOMAIN outgoing_messages : Overdue(mid)}}
           pending == {[what |-> "pending", about |-> mid] :
                       mid \in {mid \in DOMAIN outgoing_messages : StillPending(mid)}}
           kept == {mid \in DOMAIN outgoing_messages : ~Expired(mid)}
<1>1. late \cup pending \subseteq Report
  BY EntryTypes DEF TypeInv, Report
<1>2. BagToSet(reports') = BagToSet(reports) \cup (late \cup pending)
  <2> DEFINE R == late \cup pending
  <2>1. ReportFailures(R)
    BY DEF CheckAcks
  <2> HIDE DEF R
  <2>2. BagToSet(reports') = BagToSet(reports) \cup R
    BY <2>1, ReportsGrow
  <2> QED
    BY <2>2 DEF R
<1>3. outgoing_messages' = [mid \in kept |-> Checked(mid)]
  BY DEF CheckAcks
<1>4. \A mid \in kept : /\ Checked(mid) \in Status
                        /\ Checked(mid).unsent = outgoing_messages[mid].unsent
  BY EntryChanges DEF TypeInv
<1> HIDE DEF kept
<1>5. DOMAIN outgoing_messages' = kept /\ \A mid \in kept : outgoing_messages'[mid] = Checked(mid)
  BY <1>3
<1>6. kept \subseteq DOMAIN outgoing_messages
  BY DEF kept
<1>7. outgoing_messages' = [mid \in DOMAIN outgoing_messages' |-> outgoing_messages'[mid]]
  BY <1>3
<1>8. IsPartial(outgoing_messages', Mids, Status) /\ FirstIds' /\ Unsent' \subseteq Unsent
  BY <1>4, <1>5, <1>6, <1>7, ChangedTypes
<1> QED
  BY <1>1, <1>2, <1>8 DEF TypeInv, TypeOK

\* The age of the entries is all that time changes.
LEMMA OlderTypes ==
  ASSUME TypeInv, NEW by \in {-1, 1}, Older(by)
  PROVE  IsPartial(outgoing_messages', Mids, Status) /\ FirstIds' /\ Unsent' \subseteq Unsent
<1>1. outgoing_messages' = [mid \in DOMAIN outgoing_messages |->
         [outgoing_messages[mid] EXCEPT !.age = IF @ + by \in -1 .. MaxAge THEN @ + by ELSE @]]
  BY DEF Older
<1>2. \A mid \in DOMAIN outgoing_messages :
        [outgoing_messages[mid] EXCEPT !.age = IF @ + by \in -1 .. MaxAge THEN @ + by ELSE @] \in Status
  BY EntryChanges DEF TypeInv
<1>3. \A mid \in DOMAIN outgoing_messages :
        [outgoing_messages[mid] EXCEPT !.age = IF @ + by \in -1 .. MaxAge THEN @ + by ELSE @].unsent
          = outgoing_messages[mid].unsent
  BY EntryTypes DEF TypeInv, Status
<1>4. /\ DOMAIN outgoing_messages' = DOMAIN outgoing_messages
      /\ outgoing_messages' = [mid \in DOMAIN outgoing_messages' |-> outgoing_messages'[mid]]
      /\ \A mid \in DOMAIN outgoing_messages' :
           /\ outgoing_messages'[mid] \in Status
           /\ outgoing_messages'[mid].unsent = outgoing_messages[mid].unsent
  BY <1>1, <1>2, <1>3
<1> QED
  BY <1>4, ChangedTypes

\* A message that is sent nowhere, queued or sent leaves a tracker, an outbox
\* and reports of their types.
LEMMA SendTypes ==
  ASSUME TypeInv, NEW m \in Msgs, SendNowhere(m) \/ QueueMessage(m) \/ SendMessage(m)
  PROVE  /\ IsPartial(outgoing_messages', Mids, Status) /\ FirstIds'
         /\ outbox' \in Seq(Mids)
         /\ BagToSet(reports) \subseteq BagToSet(reports') /\ BagToSet(reports') \subseteq Report
         /\ connected /\ inner = "Running" => Unsent' \subseteq Unsent
         /\ Unsent' \subseteq Unsent \cup {<<m, 1>>}
<1>1. CASE SendNowhere(m)
  <2>1. IsPartial(outgoing_messages', Mids, Status) /\ FirstIds' /\ Unsent' = Unsent
    BY <1>1, SameEntries DEF SendNowhere
  <2>2. CASE ReportFailures({[what |-> "bad", about |-> <<m, 0>>]})
    <3>1. [what |-> "bad", about |-> <<m, 0>>] \in Report
      BY DEF Report
    <3>2. BagToSet(reports') = BagToSet(reports) \cup {[what |-> "bad", about |-> <<m, 0>>]}
      BY <2>2, ReportsGrow
    <3> QED
      BY <1>1, <2>1, <3>1, <3>2 DEF SendNowhere, TypeInv, TypeOK
  <2>3. CASE UNCHANGED reports
    BY <1>1, <2>1, <2>3 DEF SendNowhere, TypeInv, TypeOK
  <2> QED
    BY <1>1, <2>2, <2>3 DEF SendNowhere
<1>2. CASE QueueMessage(m)
  <2> DEFINE R == IF inner = "Disabled" THEN {[what |-> "nosetup", about |-> <<m, 1>>]} ELSE {}
  <2>1. ReportFailures(R) /\ R \subseteq Report
    BY <1>2 DEF QueueMessage, Report, Mids
  <2>2. BagToSet(reports') = BagToSet(reports) \cup R
    BY <2>1, ReportsGrow
  <2>3. /\ IsPartial(outgoing_messages', Mids, Status) /\ FirstIds'
        /\ Unsent' \subseteq Unsent \cup {<<m, 1>>}
    BY <1>2, RegisterTypes DEF QueueMessage
  <2> QED
    BY <1>2, <2>1, <2>2, <2>3 DEF QueueMessage, TypeInv, TypeOK
<1>3. CASE SendMessage(m)
  <2>1. /\ IsPartial(outgoing_messages', Mids, Status) /\ FirstIds'
        /\ Unsent' \subseteq Unsent
    BY <1>3, RegisterTypes DEF SendMessage
  <2>2. <<m, 1>> \in Mids
    BY DEF Mids
  <2> QED
    BY <1>3, <2>1, <2>2 DEF SendMessage, TypeInv, TypeOK
<1> QED
  BY <1>1, <1>2, <1>3

\* The steps of poll keep the types.
LEMMA PollKeepsTypes ==
  ASSUME TypeInv, Poll
  PROVE  TypeInv'
<1> USE DEF loop, wrapper, store, outside
<1>1. CASE Wake
  BY <1>1, SameEntries DEF Wake, TypeInv, TypeOK
<1>2. CASE NoMoreEvents
  BY <1>2, SameEntries DEF NoMoreEvents, TypeInv, TypeOK, quiet
<1>3. CASE StartRegistration
  BY <1>3, SameEntries, CommandAtHand DEF StartRegistration, Take, Initialize, TypeInv, TypeOK
<1>4. CASE LogonIfSaved
  BY <1>4, SameEntries, CommandAtHand DEF LogonIfSaved, Take, Initialize, TypeInv, TypeOK
<1>5. CASE GroupRemove
  BY <1>5, SameEntries, CommandAtHand DEF GroupRemove, Take, TypeInv, TypeOK
<1>6. CASE Send
  <2>1. Head(rx).msg \in Msgs /\ rx' \in Seq(Command)
    BY <1>6, CommandAtHand DEF Send, Take, TypeInv
  <2>2. /\ IsPartial(outgoing_messages', Mids, Status) /\ FirstIds'
        /\ outbox' \in Seq(Mids) /\ BagToSet(reports') \subseteq Report
    <3> DEFINE m == Head(rx).msg
    <3>1. SendNowhere(m) \/ QueueMessage(m) \/ SendMessage(m)
      BY <1>6 DEF Send
    <3>2. m \in Msgs
      BY <2>1
    <3> HIDE DEF m
    <3> QED
      BY <3>1, <3>2, SendTypes
  <2> QED
    BY <1>6, <2>1, <2>2 DEF Send, Take, TypeInv, TypeOK
<1>7. CASE NoMoreCommands
  BY <1>7, SameEntries DEF NoMoreCommands, TypeInv, TypeOK
<1>8. CASE HandOver
  <2>1. server' \in Seq(Mids) /\ outbox' \in Seq(Mids)
    <3>1. outbox' \in Seq(Mids) /\ Head(outbox) \in Mids /\ server \in Seq(Mids)
      BY <1>8, IdAtHand DEF HandOver, Hand, TypeInv, TypeOK
    <3>2. Append(server, Head(outbox)) \in Seq(Mids)
      BY <3>1, SeqType
    <3>3. server' = server \/ server' = Append(server, Head(outbox))
      BY <1>8 DEF HandOver
    <3> QED
      BY <3>1, <3>2, <3>3
  <2> QED
    BY <1>8, <2>1, SameEntries DEF HandOver, Hand, TypeInv, TypeOK, unmoved
<1>9. CASE HandOverNotReady
  <2>1. inputs' \in 0 .. MaxInputs /\ outbox' \in Seq(Mids)
    BY <1>9, SendAssumption, IdAtHand DEF HandOverNotReady, Hand, Input, TypeInv, TypeOK
  <2> QED
    BY <1>9, <2>1, SameEntries DEF HandOverNotReady, Hand, TypeInv, TypeOK, unmoved
<1>10. CASE Discard
  <2>1. outbox' \in Seq(Mids)
    BY <1>10 DEF Discard
  <2> QED
    BY <1>10, <2>1, SameEntries DEF Discard, EndIteration, TypeInv, TypeOK, unmoved
<1>11. CASE OutboxEmpty
  BY <1>11, SameEntries DEF OutboxEmpty, EndIteration, TypeInv, TypeOK, unmoved
<1>12. ASSUME NEW e \in Failures, HandOverFails(e)
       PROVE  TypeInv'
  <2>1. inputs' \in 0 .. MaxInputs /\ outbox' \in Seq(Mids)
    BY <1>12, SendAssumption, IdAtHand DEF HandOverFails, Hand, Input, TypeInv, TypeOK
  <2>2. OnWaError(e)
    BY <1>12 DEF HandOverFails
  <2> QED
    BY <1>12, <2>1, <2>2, OnWaErrorTypes, SameEntries
    DEF HandOverFails, EndIteration, TypeInv, TypeOK, unmoved
<1>13. CASE PollAcks
  <2>1. IsPartial(outgoing_messages', Mids, Status) /\ FirstIds' /\ BagToSet(reports') \subseteq Report
    <3>1. CASE timer
      BY <1>13, <3>1, CheckTypes DEF PollAcks
    <3>2. CASE ~timer
      BY <1>13, <3>2, SameEntries DEF PollAcks, TypeInv, TypeOK
    <3> QED
      BY <3>1, <3>2
  <2> QED
    BY <1>13, <2>1 DEF PollAcks, TypeInv, TypeOK
<1> QED
  BY <1>1, <1>2, <1>3, <1>4, <1>5, <1>6, <1>7, <1>8, <1>9, <1>10, <1>11, <1>12, <1>13 DEF Poll

\* Every step keeps the types.
LEMMA StepKeepsTypes ==
  ASSUME TypeInv, [Next]_vars
  PROVE  TypeInv'
<1> USE DEF loop, wrapper, store, outside
<1>1. CASE Tick
  <2>1. IsPartial(outgoing_messages', Mids, Status) /\ FirstIds'
    BY <1>1, OlderTypes DEF Tick
  <2> QED
    BY <1>1, <2>1 DEF Tick, TypeInv, TypeOK
<1>2. CASE ClockSetBack
  <2>1. IsPartial(outgoing_messages', Mids, Status) /\ FirstIds'
    BY <1>2, OlderTypes DEF ClockSetBack
  <2>2. inputs' \in 0 .. MaxInputs
    BY <1>2, SendAssumption DEF ClockSetBack, Input, TypeInv, TypeOK
  <2> QED
    BY <1>2, <2>1, <2>2 DEF ClockSetBack, TypeInv, TypeOK
<1>3. ASSUME NEW m \in Msgs, Write(m)
      PROVE  TypeInv'
  <2>1. rx' \in Seq(Command)
    BY <1>3 DEF Write, Command, TypeInv, TypeOK
  <2> QED
    BY <1>3, <2>1, SameEntries DEF Write, untouched, TypeInv, TypeOK
<1>4. ASSUME NEW c \in {"setup", "logon", "ungroup"}, Order(c)
      PROVE  TypeInv'
  <2>1. rx' \in Seq(Command) /\ inputs' \in 0 .. MaxInputs
    BY <1>4, SendAssumption DEF Order, Input, Command, TypeInv, TypeOK
  <2> QED
    BY <1>4, <2>1, SameEntries DEF Order, untouched, TypeInv, TypeOK
<1>5. CASE Crash
  <2>1. IsPartial(outgoing_messages', Mids, Status) /\ Unsent' = {}
    BY <1>5, EmptyType DEF Crash, Unsent
  <2>2. rx' \in Seq(Command) /\ outbox' \in Seq(Mids) /\ inputs' \in 0 .. MaxInputs
    BY <1>5, SendAssumption DEF Crash, Input, Command, TypeInv, TypeOK
  <2>3. FirstIds'
    BY <2>1 DEF FirstIds
  <2> QED
    BY <1>5, <2>1, <2>2, <2>3 DEF Crash, TypeInv, TypeOK
<1>6. CASE UNCHANGED vars
  BY <1>6, SameEntries DEF vars, TypeInv, TypeOK
<1> QED
  BY <1>1, <1>2, <1>3, <1>4, <1>5, <1>6, ConnectionKeepsTypes, PollKeepsTypes DEF Next

\* The process starts with proper types: no session, and LogonIfSaved queued.
LEMMA InitTypes ==
  ASSUME Init
  PROVE  TypeInv
<1>1. IsPartial(outgoing_messages, Mids, Status) /\ Unsent = {}
  BY EmptyType DEF Init, Unsent
<1>2. rx \in Seq(Command) /\ outbox \in Seq(Mids) /\ server \in Seq(Mids)
  BY DEF Init, Command
<1>3. BagToSet(reports) = {}
  BY DEF Init, EmptyBag, SetToBag, BagToSet
<1>4. FirstIds
  BY <1>1 DEF FirstIds
<1>5. /\ BagToSet(reports) \subseteq Report /\ told \subseteq Mids \X Levels /\ written \subseteq Msgs
      /\ inputs \in 0 .. MaxInputs /\ saved \in Nat /\ persist \in Nat
  BY <1>3, SendAssumption DEF Init
<1>6. TypeOK
  BY <1>1, <1>2, <1>5 DEF Init, TypeOK
<1> QED
  BY <1>4, <1>6 DEF TypeInv

\* Whatever fails while messages are sent, every variable keeps its type, and
\* only messages that were never handed over wait for a session.
THEOREM SenderTypes == Spec => [](TypeOK /\ FirstIds)
<1>1. TypeInv /\ [Next]_vars => TypeInv'
  BY StepKeepsTypes
<1>2. Spec => []TypeInv
  BY <1>1, InitTypes, PTL DEF Spec
<1> QED
  BY <1>2, PTL DEF TypeInv

-----------------------------------------------------------------------------
(* Sessions *)

\* A session that is established sends all that waited, and one that is there
\* lets nothing wait; every failure ends it for manager and wrapper at once.
LEMMA StepKeepsSession ==
  ASSUME TypeInv, SessionFlushes, [Next]_vars
  PROVE  SessionFlushes'
<1> USE DEF loop, wrapper, store, outside
<1>1. CASE OnEstablished
  BY <1>1, ExtractTypes DEF OnEstablished, SessionFlushes
<1>2. CASE DelayElapsed \/ StartRegistration
  BY <1>2 DEF DelayElapsed, StartRegistration, Initialize, SessionFlushes
<1>3. CASE LogonIfSaved
  BY <1>3, SameEntries DEF LogonIfSaved, Initialize, SessionFlushes
<1>4. CASE ConnectDone \/ ConnectFails
  BY <1>4, SameEntries DEF ConnectDone, ConnectFails, ConnectEnds, SessionFlushes
<1>5. ASSUME NEW e \in Failures, ConnectionFails(e) \/ HandOverFails(e)
      PROVE  SessionFlushes'
  BY <1>5 DEF ConnectionFails, HandOverFails, OnWaError, SessionFlushes
<1>6. ASSUME NEW mid \in Elements(server), NEW level \in Levels, OnMessageAck(mid, level)
      PROVE  SessionFlushes'
  <2>1. outgoing_messages' = outgoing_messages
          \/ outgoing_messages' = [outgoing_messages EXCEPT ![mid].ack_level = level]
    BY <1>6 DEF OnMessageAck
  <2>2. \A m \in DOMAIN outgoing_messages : outgoing_messages[m] \in Status
    BY EntryTypes DEF TypeInv
  <2>3. DOMAIN outgoing_messages' = DOMAIN outgoing_messages
    BY <2>1
  <2>4. \A m \in DOMAIN outgoing_messages :
          outgoing_messages'[m].unsent = outgoing_messages[m].unsent
    <3>1. CASE outgoing_messages' = outgoing_messages
      BY <3>1
    <3>2. CASE outgoing_messages' = [outgoing_messages EXCEPT ![mid].ack_level = level]
      <4> SUFFICES ASSUME NEW m \in DOMAIN outgoing_messages
                   PROVE  outgoing_messages'[m].unsent = outgoing_messages[m].unsent
        OBVIOUS
      <4>1. CASE m = mid
        <5>1. outgoing_messages'[m] = [outgoing_messages[m] EXCEPT !.ack_level = level]
          BY <3>2, <4>1
        <5> QED
          BY <2>2, <5>1 DEF Status
      <4>2. CASE m # mid
        BY <3>2, <4>2
      <4> QED
        BY <4>1, <4>2
    <3> QED
      BY <2>1, <3>1, <3>2
  <2>5. Unsent' = Unsent
    BY <2>3, <2>4 DEF Unsent
  <2> QED
    BY <1>6, <2>5 DEF OnMessageAck, SessionFlushes
<1>7. CASE Send
  <2>1. Head(rx).msg \in Msgs
    BY <1>7, CommandAtHand DEF Send, Take, TypeInv
  <2>2. connected /\ inner = "Running" => Unsent' \subseteq Unsent
    <3> DEFINE m == Head(rx).msg
    <3>1. SendNowhere(m) \/ QueueMessage(m) \/ SendMessage(m)
      BY <1>7 DEF Send
    <3>2. m \in Msgs
      BY <2>1
    <3> HIDE DEF m
    <3> QED
      BY <3>1, <3>2, SendTypes
  <2> QED
    BY <1>7, <2>2 DEF Send, SessionFlushes
<1>8. CASE PollAcks
  <2>1. Unsent' \subseteq Unsent
    BY <1>8, CheckTypes, SameEntries DEF PollAcks
  <2> QED
    BY <1>8, <2>1 DEF PollAcks, SessionFlushes
<1>9. CASE Tick \/ ClockSetBack
  <2>1. Unsent' \subseteq Unsent
    BY <1>9, OlderTypes DEF Tick, ClockSetBack
  <2> QED
    BY <1>9, <2>1 DEF Tick, ClockSetBack, SessionFlushes
<1>10. CASE Crash
  BY <1>10 DEF Crash, SessionFlushes
<1>11. CASE \/ Wake \/ NoMoreEvents \/ GroupRemove \/ NoMoreCommands
            \/ HandOver \/ HandOverNotReady \/ Discard \/ OutboxEmpty
            \/ UNCHANGED vars
            \/ \E m \in Msgs : Write(m)
            \/ \E c \in {"setup", "logon", "ungroup"} : Order(c)
  <2>1. UNCHANGED <<session, connected, inner, outgoing_messages>>
    BY <1>11 DEF Wake, NoMoreEvents, quiet, GroupRemove, NoMoreCommands, HandOver, HandOverNotReady,
                 Discard, OutboxEmpty, unmoved, Write, Order, untouched, vars
  <2> QED
    BY <2>1, SameEntries DEF SessionFlushes
<1> QED
  BY <1>1, <1>2, <1>3, <1>4, <1>5, <1>6, <1>7, <1>8, <1>9, <1>10, <1>11 DEF Next, Poll, Connection

\* While there is a session the manager knows of it, the connection runs, and
\* no message waits: what was written before it was sent when it began
\* (on_established), however connections fail, are replaced and made again.
THEOREM SessionsFlush == Spec => []SessionFlushes
<1>1. Init => SessionFlushes
  BY DEF Init, SessionFlushes
<1>2. TypeInv /\ SessionFlushes /\ [Next]_vars => SessionFlushes'
  BY StepKeepsSession
<1>3. TypeInv /\ [Next]_vars => TypeInv'
  BY StepKeepsTypes
<1> QED
  BY <1>1, <1>2, <1>3, InitTypes, PTL DEF Spec

-----------------------------------------------------------------------------
(* The poll loop *)

\* A connection that was made anew, and not polled yet, is polled in this poll:
\* either its events come next, or the loop goes on.
WillBePolled ==
  ~polled /\ inner \in {"Initializing", "Running"} =>
    at = "events" \/ (at \in {"commands", "outbox"} /\ cont = TRUE)

\* No step leaves a new connection unpolled when poll returns.
LEMMA StepKeepsPolled ==
  ASSUME TypeInv, WillBePolled, [Next]_vars
  PROVE  WillBePolled'
<1> USE DEF loop, wrapper, store, outside
<1>1. CASE \/ Tick \/ ClockSetBack \/ UNCHANGED vars
           \/ \E m \in Msgs : Write(m)
           \/ \E c \in {"setup", "logon", "ungroup"} : Order(c)
  <2>1. UNCHANGED <<polled, inner, at, cont>>
    BY <1>1 DEF Tick, ClockSetBack, vars, Write, Order, untouched
  <2> QED
    BY <2>1 DEF WillBePolled
<1>2. CASE Crash
  BY <1>2 DEF Crash, WillBePolled
<1>3. CASE DelayElapsed \/ ConnectDone \/ ConnectFails \/ OnEstablished
  BY <1>3 DEF DelayElapsed, ConnectDone, ConnectFails, ConnectEnds, OnEstablished, WillBePolled
<1>4. ASSUME NEW e \in Failures, ConnectionFails(e) \/ HandOverFails(e)
      PROVE  WillBePolled'
  BY <1>4 DEF ConnectionFails, HandOverFails, OnWaError, WillBePolled
<1>5. ASSUME NEW mid \in Elements(server), NEW level \in Levels, OnMessageAck(mid, level)
      PROVE  WillBePolled'
  BY <1>5 DEF OnMessageAck, WillBePolled
<1>6. CASE Wake \/ NoMoreEvents \/ NoMoreCommands
  BY <1>6 DEF Wake, NoMoreEvents, NoMoreCommands, WillBePolled, TypeInv, TypeOK
<1>7. CASE StartRegistration \/ LogonIfSaved \/ GroupRemove \/ Send
  BY <1>7 DEF StartRegistration, LogonIfSaved, GroupRemove, Send, Take, WillBePolled
<1>8. CASE HandOver \/ HandOverNotReady
  BY <1>8 DEF HandOver, HandOverNotReady, WillBePolled
<1>9. CASE Discard \/ OutboxEmpty
  BY <1>9 DEF Discard, OutboxEmpty, EndIteration, WillBePolled, TypeInv, TypeOK
<1>10. CASE PollAcks
  BY <1>10 DEF PollAcks, WillBePolled
<1> QED
  BY <1>1, <1>2, <1>3, <1>4, <1>5, <1>6, <1>7, <1>8, <1>9, <1>10 DEF Next, Poll, Connection

\* The comment at the head of poll: a connection that a command made is polled
\* before poll returns, so that it can wake the manager when it is ready.
THEOREM PollsAgain == Spec => []PolledAgain
<1>1. Init => WillBePolled
  BY DEF Init, WillBePolled
<1>2. TypeInv /\ WillBePolled /\ [Next]_vars => WillBePolled'
  BY StepKeepsPolled
<1>3. TypeInv /\ [Next]_vars => TypeInv'
  BY StepKeepsTypes
<1>4. TypeInv /\ WillBePolled => PolledAgain
  BY DEF WillBePolled, PolledAgain, TypeInv, TypeOK
<1> QED
  BY <1>1, <1>2, <1>3, <1>4, InitTypes, PTL DEF Spec

-----------------------------------------------------------------------------
(* Giving up *)

Logon   == [c |-> "logon"]
Removed == [what |-> "removed", about |-> <<>>]

\* A step disables the connection only with a report, or by a restart, which
\* queues LogonIfSaved.
LEMMA StepKeepsTrying ==
  ASSUME TypeInv, NotGivenUp, [Next]_vars
  PROVE  NotGivenUp'
<1> USE DEF loop, wrapper, store, outside
<1> DEFINE Told == Removed \in BagToSet(reports)
<1>1. NotGivenUp <=> (inner = "Disabled" /\ saved # 0 => Logon \in Elements(rx) \/ Told)
  BY DEF NotGivenUp, Logon, Removed
<1>2. NotGivenUp' <=> (inner' = "Disabled" /\ saved' # 0 =>
                         Logon \in Elements(rx') \/ Removed \in BagToSet(reports'))
  BY DEF NotGivenUp, Logon, Removed
<1>3. ASSUME inner' = inner, saved' = saved,
             Elements(rx) \subseteq Elements(rx'), BagToSet(reports) \subseteq BagToSet(reports')
      PROVE  NotGivenUp'
  BY <1>1, <1>2, <1>3
<1>4. ASSUME rx # <<>>, rx' = Tail(rx), Head(rx).c # "logon", inner' = inner, saved' = saved,
             BagToSet(reports) \subseteq BagToSet(reports')
      PROVE  NotGivenUp'
  <2>1. Logon \in Elements(rx) => Logon \in Elements(rx')
    BY <1>4, CommandAtHand DEF TypeInv, Logon
  <2> QED
    BY <1>1, <1>2, <1>4, <2>1
<1>5. ASSUME UNCHANGED <<inner, saved, rx, reports>>
      PROVE  NotGivenUp'
  BY <1>3, <1>5
<1>6. CASE DelayElapsed \/ ConnectDone \/ ConnectFails \/ OnEstablished
  BY <1>2, <1>6 DEF DelayElapsed, Initialize, ConnectDone, ConnectFails, ConnectEnds, OnEstablished
<1>7. ASSUME NEW e \in Failures, ConnectionFails(e) \/ HandOverFails(e)
      PROVE  NotGivenUp'
  <2>1. OnWaError(e)
    BY <1>7 DEF ConnectionFails, HandOverFails
  <2> QED
    BY <1>2, <2>1, OnWaErrorTypes DEF TypeInv, Removed
<1>8. ASSUME NEW mid \in Elements(server), NEW level \in Levels, OnMessageAck(mid, level)
      PROVE  NotGivenUp'
  <2>1. BagToSet(reports) \subseteq BagToSet(reports')
    <3>1. CASE mid \in DOMAIN outgoing_messages
      <4> DEFINE R == IF level = "error" THEN {[what |-> "error", about |-> mid]} ELSE {}
      <4>1. ReportFailures(R)
        BY <1>8, <3>1 DEF OnMessageAck
      <4> HIDE DEF R
      <4> QED
        BY <4>1, ReportsGrow
    <3>2. CASE mid \notin DOMAIN outgoing_messages
      BY <1>8, <3>2 DEF OnMessageAck
    <3> QED
      BY <3>1, <3>2
  <2> QED
    BY <1>3, <1>8, <2>1 DEF OnMessageAck, quiet
<1>9. CASE StartRegistration
  BY <1>2, <1>9 DEF StartRegistration, Initialize
<1>10. CASE LogonIfSaved
  BY <1>2, <1>10 DEF LogonIfSaved, Initialize
<1>11. CASE GroupRemove
  BY <1>4, <1>11 DEF GroupRemove, Take
<1>12. CASE Send
  <2>1. Head(rx).msg \in Msgs
    BY <1>12, CommandAtHand DEF Send, Take, TypeInv
  <2>2. BagToSet(reports) \subseteq BagToSet(reports')
    <3> DEFINE m == Head(rx).msg
    <3>1. SendNowhere(m) \/ QueueMessage(m) \/ SendMessage(m)
      BY <1>12 DEF Send
    <3>2. m \in Msgs
      BY <2>1
    <3> HIDE DEF m
    <3> QED
      BY <3>1, <3>2, SendTypes
  <2> QED
    BY <1>4, <1>12, <2>2 DEF Send, Take
<1>13. CASE PollAcks
  <2>1. BagToSet(reports) \subseteq BagToSet(reports')
    BY <1>13, CheckTypes DEF PollAcks
  <2> QED
    BY <1>3, <1>13, <2>1 DEF PollAcks
<1>14. CASE \/ Wake \/ NoMoreEvents \/ NoMoreCommands \/ HandOver \/ HandOverNotReady
            \/ Discard \/ OutboxEmpty \/ Tick \/ ClockSetBack \/ UNCHANGED vars
  <2>1. UNCHANGED <<inner, saved, rx, reports>>
    BY <1>14 DEF Wake, NoMoreEvents, NoMoreCommands, HandOver, HandOverNotReady, Discard, OutboxEmpty,
                 Tick, ClockSetBack, vars, quiet, unmoved
  <2> QED
    BY <1>5, <2>1
<1>15. CASE (\E m \in Msgs : Write(m)) \/ (\E c \in {"setup", "logon", "ungroup"} : Order(c))
  <2>1. UNCHANGED <<inner, saved, reports>>
    BY <1>15 DEF Write, Order, untouched
  <2>2. PICK com \in Command : rx' = Append(rx, com)
    BY <1>15 DEF Write, Order, Command
  <2>3. Elements(rx) \subseteq Elements(rx')
    BY <2>2, ElementsOf DEF TypeInv, TypeOK
  <2> QED
    BY <1>3, <2>1, <2>3
<1>16. CASE Crash
  <2>1. Logon \in Elements(rx')
    BY <1>16 DEF Crash, Logon, Elements
  <2> QED
    BY <1>2, <2>1
<1> QED
  BY <1>6, <1>7, <1>8, <1>9, <1>10, <1>11, <1>12, <1>13, <1>14, <1>15, <1>16 DEF Next, Poll, Connection

\* The connection is given up only when the user is told that WhatsApp has
\* removed us, or when there are no credentials, or before they are tried.
THEOREM NeverGivenUp == Spec => []NotGivenUp
<1>1. Init => NotGivenUp
  BY DEF Init, NotGivenUp, Elements
<1>2. TypeInv /\ NotGivenUp /\ [Next]_vars => NotGivenUp'
  BY StepKeepsTrying
<1>3. TypeInv /\ [Next]_vars => TypeInv'
  BY StepKeepsTypes
<1> QED
  BY <1>1, <1>2, <1>3, InitTypes, PTL DEF Spec

-----------------------------------------------------------------------------
(* At most once *)

\* Where a message may wait: as a command, for a session, in the outbox
Ordered == {c.msg : c \in {d \in Elements(rx) : d.c = "send"}}
Kept    == {mid[1] : mid \in Unsent}
Leaving == {mid[1] : mid \in Elements(outbox)}

\* It waits at one of them only, and there once.
OnePlace ==
  /\ \A i, j \in DOMAIN rx : rx[i].c = "send" /\ rx[j].c = "send" /\ rx[i].msg = rx[j].msg => i = j
  /\ \A i, j \in DOMAIN outbox : outbox[i][1] = outbox[j][1] => i = j
  /\ Ordered \cap Kept = {} /\ Ordered \cap Leaving = {} /\ Kept \cap Leaving = {}
  /\ Ordered \cup Kept \cup Leaving \subseteq written

\* The set that the mapping takes for what waits is made of the three.
LEMMA WaitingPlaces ==
  Waiting = Ordered \cup Kept \cup Leaving /\ Waiting' = Ordered' \cup Kept' \cup Leaving'
BY DEF Waiting, Ordered, Kept, Leaving

\* A message that is handed over, or dropped, is nowhere else in the outbox.
LEMMA HandLeaves ==
  ASSUME TypeInv, OnePlace, outbox # <<>>, outbox' = Tail(outbox)
  PROVE  /\ \A i, j \in DOMAIN outbox' : outbox'[i][1] = outbox'[j][1] => i = j
         /\ Leaving' = Leaving \ {Head(outbox)[1]} /\ Head(outbox)[1] \in Leaving
<1>1. Elements(outbox) = {Head(outbox)} \cup Elements(outbox')
  BY IdAtHand DEF TypeInv
<1>2. /\ outbox \in Seq(Mids) /\ Len(outbox) \in Nat \ {0} /\ DOMAIN outbox = 1 .. Len(outbox)
      /\ DOMAIN outbox' = 1 .. Len(outbox) - 1 /\ Head(outbox) = outbox[1]
      /\ \A i \in 1 .. Len(outbox) - 1 : outbox'[i] = outbox[i + 1]
  BY HeadTailProperties, EmptySeq DEF TypeInv, TypeOK
<1>3. \A i, j \in DOMAIN outbox : outbox[i][1] = outbox[j][1] => i = j
  BY DEF OnePlace
<1>4. \A i \in 1 .. Len(outbox) - 1 : i + 1 \in DOMAIN outbox /\ i + 1 # 1
  BY <1>2
<1>5. \A i, j \in DOMAIN outbox' : outbox'[i][1] = outbox'[j][1] => i = j
  <2> SUFFICES ASSUME NEW i \in DOMAIN outbox', NEW j \in DOMAIN outbox', outbox'[i][1] = outbox'[j][1]
               PROVE  i = j
    OBVIOUS
  <2>1. i + 1 \in DOMAIN outbox /\ j + 1 \in DOMAIN outbox /\ outbox[i + 1][1] = outbox[j + 1][1]
    BY <1>2, <1>4
  <2>2. i + 1 = j + 1
    BY <1>3, <2>1
  <2> QED
    BY <1>2, <2>2
<1>6. \A i \in DOMAIN outbox' : outbox'[i][1] # Head(outbox)[1]
  <2> SUFFICES ASSUME NEW i \in DOMAIN outbox', outbox'[i][1] = Head(outbox)[1]
               PROVE  FALSE
    OBVIOUS
  <2>1. i + 1 \in DOMAIN outbox /\ 1 \in DOMAIN outbox /\ outbox[i + 1][1] = outbox[1][1] /\ i + 1 # 1
    BY <1>2, <1>4
  <2> QED
    BY <1>3, <2>1
<1>7. \A mid \in Elements(outbox') : mid[1] # Head(outbox)[1]
  BY <1>6 DEF Elements
<1>8. Leaving' = {mid[1] : mid \in Elements(outbox')}
  BY DEF Leaving
<1> QED
  BY <1>1, <1>5, <1>7, <1>8 DEF Leaving

\* A command that is taken leaves the others; the message of a send is in none
\* of them.
LEMMA TakeLeaves ==
  ASSUME TypeInv, OnePlace, rx # <<>>, rx' = Tail(rx)
  PROVE  /\ \A i, j \in DOMAIN rx' :
              rx'[i].c = "send" /\ rx'[j].c = "send" /\ rx'[i].msg = rx'[j].msg => i = j
         /\ Head(rx).c # "send" => Ordered' = Ordered
         /\ Head(rx).c = "send" => Ordered' = Ordered \ {Head(rx).msg} /\ Head(rx).msg \in Ordered
<1>1. Elements(rx) = {Head(rx)} \cup Elements(rx')
  BY CommandAtHand DEF TypeInv
<1>2. /\ rx \in Seq(Command) /\ Len(rx) \in Nat \ {0} /\ DOMAIN rx = 1 .. Len(rx)
      /\ DOMAIN rx' = 1 .. Len(rx) - 1 /\ Head(rx) = rx[1]
      /\ \A i \in 1 .. Len(rx) - 1 : rx'[i] = rx[i + 1]
  BY HeadTailProperties, EmptySeq DEF TypeInv, TypeOK
<1>3. \A i, j \in DOMAIN rx : rx[i].c = "send" /\ rx[j].c = "send" /\ rx[i].msg = rx[j].msg => i = j
  BY DEF OnePlace
<1>4. \A i \in 1 .. Len(rx) - 1 : i + 1 \in DOMAIN rx /\ i + 1 # 1
  BY <1>2
<1>5. ASSUME NEW i \in DOMAIN rx', NEW j \in DOMAIN rx',
             rx'[i].c = "send", rx'[j].c = "send", rx'[i].msg = rx'[j].msg
      PROVE  i = j
  <2>1. /\ i + 1 \in DOMAIN rx /\ j + 1 \in DOMAIN rx
        /\ rx[i + 1].c = "send" /\ rx[j + 1].c = "send" /\ rx[i + 1].msg = rx[j + 1].msg
    BY <1>2, <1>4, <1>5
  <2>2. i + 1 = j + 1
    BY <1>3, <2>1
  <2> QED
    BY <1>2, <2>2
<1>6. ASSUME Head(rx).c = "send", NEW i \in DOMAIN rx', rx'[i].c = "send", rx'[i].msg = Head(rx).msg
      PROVE  FALSE
  <2>1. /\ i + 1 \in DOMAIN rx /\ 1 \in DOMAIN rx /\ i + 1 # 1
        /\ rx[i + 1].c = "send" /\ rx[1].c = "send" /\ rx[i + 1].msg = rx[1].msg
    BY <1>2, <1>4, <1>6
  <2> QED
    BY <1>3, <2>1
<1>7. Head(rx).c = "send" => \A c \in Elements(rx') : c.c = "send" => c.msg # Head(rx).msg
  BY <1>6 DEF Elements
<1>8. Ordered' = {c.msg : c \in {d \in Elements(rx') : d.c = "send"}}
  BY DEF Ordered
<1> QED
  BY <1>1, <1>5, <1>7, <1>8 DEF Ordered

\* A step of the abstract queue in which messages are at most lost: what waits
\* waited before.
LEMMA LosesSome ==
  ASSUME UNCHANGED <<written, server>>, Waiting' \subseteq Waiting
  PROVE  [Queue!Next]_(Queue!vars)
BY DEF Queue!Next, Queue!Lose

\* Messages that wait at no new place are still at one place only, and the
\* abstract queue at most loses some.
LEMMA NoNewPlace ==
  ASSUME OnePlace, Ordered' \subseteq Ordered, Kept' \subseteq Kept, Leaving' \subseteq Leaving,
         UNCHANGED written,
         \A i, j \in DOMAIN rx' : rx'[i].c = "send" /\ rx'[j].c = "send" /\ rx'[i].msg = rx'[j].msg => i = j,
         \A i, j \in DOMAIN outbox' : outbox'[i][1] = outbox'[j][1] => i = j
  PROVE  OnePlace' /\ Waiting' \subseteq Waiting
BY WaitingPlaces DEF OnePlace

\* A message at the end of the outbox that was not there is there once.
LEMMA JoinsOutbox ==
  ASSUME TypeInv, OnePlace, NEW m \in Msgs, m \notin Leaving, outbox' = Append(outbox, <<m, 1>>)
  PROVE  /\ \A i, j \in DOMAIN outbox' : outbox'[i][1] = outbox'[j][1] => i = j
         /\ Leaving' = Leaving \cup {m}
<1> DEFINE id == <<m, 1>>
<1>1. id \in Mids /\ outbox \in Seq(Mids) /\ id[1] = m
  BY DEF Mids, TypeInv, TypeOK
<1>2. outbox' = Append(outbox, id)
  OBVIOUS
<1>3. \A i, j \in DOMAIN outbox : outbox[i][1] = outbox[j][1] => i = j
  BY DEF OnePlace
<1>4. \A i \in DOMAIN outbox : outbox[i][1] # m
  BY DEF Leaving, Elements
<1> HIDE DEF id
<1>5. Elements(outbox') = Elements(outbox) \cup {id}
  <2>1. Elements(Append(outbox, id)) = Elements(outbox) \cup {id}
    BY <1>1, ElementsOf
  <2> QED
    BY <1>2, <2>1
<1>6. /\ DOMAIN outbox' = DOMAIN outbox \cup {Len(outbox) + 1} /\ outbox'[Len(outbox) + 1] = id
      /\ \A i \in DOMAIN outbox : outbox'[i] = outbox[i]
  <2>1. \A i \in DOMAIN outbox : Append(outbox, id)[i] = outbox[i]
    BY <1>1
  <2>2. DOMAIN Append(outbox, id) = DOMAIN outbox \cup {Len(outbox) + 1}
    BY <1>1
  <2>3. Append(outbox, id)[Len(outbox) + 1] = id
    BY <1>1
  <2> QED
    BY <1>2, <2>1, <2>2, <2>3
<1>7. \A i, j \in DOMAIN outbox' : outbox'[i][1] = outbox'[j][1] => i = j
  BY <1>1, <1>3, <1>4, <1>6
<1>8. Leaving' = {mid[1] : mid \in Elements(outbox')}
  BY DEF Leaving
<1> QED
  BY <1>1, <1>5, <1>7, <1>8 DEF Leaving

\* A message that is taken from the commands waits for a session, or leaves, or
\* is dropped.
LEMMA SendMoves ==
  ASSUME TypeInv, OnePlace, Send
  PROVE  OnePlace' /\ Waiting' \subseteq Waiting
<1> DEFINE m == Head(rx).msg
<1>1. /\ m \in Msgs /\ rx # <<>> /\ rx' = Tail(rx) /\ Head(rx).c = "send" /\ UNCHANGED <<written, server>>
      /\ SendNowhere(m) \/ QueueMessage(m) \/ SendMessage(m)
  BY CommandAtHand DEF Send, Take, TypeInv, outside
<1>2. /\ Ordered' = Ordered \ {m} /\ m \in Ordered
      /\ \A i, j \in DOMAIN rx' :
           rx'[i].c = "send" /\ rx'[j].c = "send" /\ rx'[i].msg = rx'[j].msg => i = j
  BY <1>1, TakeLeaves
<1> HIDE DEF m
<1>3. m \notin Kept /\ m \notin Leaving
  BY <1>2 DEF OnePlace
<1>4. \A i, j \in DOMAIN outbox : outbox[i][1] = outbox[j][1] => i = j
  BY DEF OnePlace
<1>5. CASE SendNowhere(m)
  <2>1. Kept' = Kept /\ outbox' = outbox /\ Leaving' = Leaving
    BY <1>5, SameEntries DEF SendNowhere, Kept, Leaving
  <2> QED
    BY <1>1, <1>2, <1>4, <2>1, NoNewPlace
<1>6. CASE QueueMessage(m)
  <2>1. Unsent' \subseteq Unsent \cup {<<m, 1>>} /\ outbox' = outbox
    BY <1>1, <1>6, RegisterTypes DEF QueueMessage
  <2>2. Kept' \subseteq Kept \cup {m} /\ Leaving' = Leaving
    BY <2>1 DEF Kept, Leaving
  <2> QED
    BY <1>1, <1>2, <1>3, <1>4, <2>1, <2>2, WaitingPlaces DEF OnePlace
<1>7. CASE SendMessage(m)
  <2>1. Unsent' \subseteq Unsent /\ outbox' = Append(outbox, <<m, 1>>)
    BY <1>1, <1>7, RegisterTypes DEF SendMessage
  <2>2. Kept' \subseteq Kept
    BY <2>1 DEF Kept
  <2>3. /\ Leaving' = Leaving \cup {m}
        /\ \A i, j \in DOMAIN outbox' : outbox'[i][1] = outbox'[j][1] => i = j
    BY <1>1, <1>3, <2>1, JoinsOutbox
  <2> QED
    BY <1>1, <1>2, <1>3, <2>2, <2>3, WaitingPlaces DEF OnePlace
<1> QED
  BY <1>1, <1>5, <1>6, <1>7

\* A session moves what waited for it to the end of the outbox.
LEMMA EstablishedMoves ==
  ASSUME TypeInv, OnePlace, OnEstablished
  PROVE  OnePlace' /\ Waiting' \subseteq Waiting
<1>1. PICK order \in SetToSeqs(Unsent) :
        outbox' = outbox \o [i \in DOMAIN order |-> NewId(order[i])]
  BY DEF OnEstablished
<1> DEFINE new == [i \in DOMAIN order |-> NewId(order[i])]
           n == Cardinality(Unsent)
<1>2. /\ new \in Seq(Mids) /\ Len(new) = n /\ n \in Nat
      /\ DOMAIN order = 1 .. n
      /\ \A i \in 1 .. n : order[i] \in Unsent
      /\ \A i, j \in 1 .. n : order[i] = order[j] => i = j
  BY OrderTypes
<1>3. \A i \in 1 .. n : new[i][1] = order[i][1]
  BY <1>2 DEF NewId
<1>4. outbox' = outbox \o new /\ outbox \in Seq(Mids) /\ UNCHANGED <<rx, written>>
  BY <1>1 DEF OnEstablished, TypeInv, TypeOK
<1>5. \A mid, other \in Unsent : mid[1] = other[1] => mid = other
  BY EntryTypes DEF TypeInv, FirstIds, Unsent, Mids
<1>6. \A i, j \in 1 .. n : new[i][1] = new[j][1] => i = j
  BY <1>2, <1>3, <1>5
<1>7. \A i \in 1 .. n : new[i][1] \in Kept
  BY <1>2, <1>3 DEF Kept
<1>8. \A i \in DOMAIN outbox : outbox[i][1] \in Leaving
  BY DEF Leaving, Elements
<1>9. Kept' = {}
  BY ExtractTypes DEF OnEstablished, Kept
<1> HIDE DEF new, n
<1>10. Elements(outbox') = Elements(outbox) \cup Elements(new)
  BY <1>2, <1>4, ElementsOf
<1>11. Elements(new) = {new[i] : i \in 1 .. n}
  BY <1>2 DEF Elements
<1>12. Leaving' \subseteq Leaving \cup Kept
  <2>1. Leaving' = {mid[1] : mid \in Elements(outbox')}
    BY DEF Leaving
  <2> QED
    BY <1>7, <1>10, <1>11, <2>1 DEF Leaving
<1>13. \A i, j \in DOMAIN outbox' : outbox'[i][1] = outbox'[j][1] => i = j
  <2>1. /\ DOMAIN outbox' = 1 .. Len(outbox) + n /\ Len(outbox) \in Nat
        /\ \A i \in 1 .. Len(outbox) : outbox'[i] = outbox[i]
        /\ \A i \in 1 .. n : outbox'[Len(outbox) + i] = new[i]
    BY <1>2, <1>4, ConcatProperties
  <2>2. \A i \in 1 .. Len(outbox) : outbox'[i][1] \in Leaving
    BY <1>4, <1>8, <2>1
  <2>3. \A i \in 1 .. Len(outbox) + n : i \notin 1 .. Len(outbox) =>
           i - Len(outbox) \in 1 .. n /\ outbox'[i] = new[i - Len(outbox)]
    <3> SUFFICES ASSUME NEW i \in 1 .. Len(outbox) + n, i \notin 1 .. Len(outbox)
                 PROVE  i - Len(outbox) \in 1 .. n /\ outbox'[i] = new[i - Len(outbox)]
      OBVIOUS
    <3>1. i - Len(outbox) \in 1 .. n /\ Len(outbox) + (i - Len(outbox)) = i
      BY <1>2, <2>1
    <3> QED
      BY <2>1, <3>1
  <2>4. \A i, j \in DOMAIN outbox : outbox[i][1] = outbox[j][1] => i = j
    BY DEF OnePlace
  <2>5. Kept \cap Leaving = {}
    BY DEF OnePlace
  <2> SUFFICES ASSUME NEW i \in 1 .. Len(outbox) + n, NEW j \in 1 .. Len(outbox) + n,
                      outbox'[i][1] = outbox'[j][1]
               PROVE  i = j
    BY <2>1
  <2>6. CASE i \in 1 .. Len(outbox) /\ j \in 1 .. Len(outbox)
    <3>1. i \in DOMAIN outbox /\ j \in DOMAIN outbox /\ outbox[i][1] = outbox[j][1]
      BY <1>4, <2>1, <2>6
    <3> QED
      BY <2>4, <3>1
  <2>7. CASE i \notin 1 .. Len(outbox) /\ j \notin 1 .. Len(outbox)
    <3>1. i - Len(outbox) = j - Len(outbox)
      BY <1>6, <2>3, <2>7
    <3> QED
      BY <2>1, <3>1
  <2>8. CASE i \in 1 .. Len(outbox) /\ j \notin 1 .. Len(outbox)
    BY <1>7, <2>2, <2>3, <2>5, <2>8
  <2>9. CASE i \notin 1 .. Len(outbox) /\ j \in 1 .. Len(outbox)
    BY <1>7, <2>2, <2>3, <2>5, <2>9
  <2> QED
    BY <2>6, <2>7, <2>8, <2>9
<1>14. Ordered' = Ordered
  BY <1>4 DEF Ordered
<1> QED
  BY <1>4, <1>9, <1>12, <1>13, <1>14, WaitingPlaces DEF OnePlace

\* A step that leaves commands and outbox alone, and lets no more wait for a
\* session, at most loses messages.
LEMMA Untouched ==
  ASSUME OnePlace, UNCHANGED <<rx, outbox, written>>, Unsent' \subseteq Unsent
  PROVE  OnePlace' /\ Waiting' \subseteq Waiting
<1>1. Ordered' = Ordered /\ Leaving' = Leaving /\ Kept' \subseteq Kept
  BY DEF Ordered, Leaving, Kept
<1>2. /\ \A i, j \in DOMAIN rx' :
           rx'[i].c = "send" /\ rx'[j].c = "send" /\ rx'[i].msg = rx'[j].msg => i = j
      /\ \A i, j \in DOMAIN outbox' : outbox'[i][1] = outbox'[j][1] => i = j
  BY DEF OnePlace
<1> QED
  BY <1>1, <1>2, NoNewPlace

\* Taking a command that is no message loses none.
LEMMA OtherCommands ==
  ASSUME TypeInv, OnePlace, rx # <<>>, rx' = Tail(rx), Head(rx).c # "send",
         UNCHANGED <<outbox, outgoing_messages, written>>
  PROVE  OnePlace' /\ Waiting' \subseteq Waiting
<1>1. /\ Ordered' = Ordered
      /\ \A i, j \in DOMAIN rx' :
           rx'[i].c = "send" /\ rx'[j].c = "send" /\ rx'[i].msg = rx'[j].msg => i = j
  BY TakeLeaves
<1>2. Kept' = Kept /\ Leaving' = Leaving
  BY SameEntries DEF Kept, Leaving
<1>3. \A i, j \in DOMAIN outbox' : outbox'[i][1] = outbox'[j][1] => i = j
  BY DEF OnePlace
<1> QED
  BY <1>1, <1>2, <1>3, NoNewPlace

\* A message that is taken from the outbox waits nowhere else.
LEMMA HandMoves ==
  ASSUME TypeInv, OnePlace, Hand, UNCHANGED <<rx, outgoing_messages, written>>
  PROVE  /\ OnePlace' /\ Waiting' = Waiting \ {Head(outbox)[1]} /\ Head(outbox)[1] \in Waiting
<1>1. /\ \A i, j \in DOMAIN outbox' : outbox'[i][1] = outbox'[j][1] => i = j
      /\ Leaving' = Leaving \ {Head(outbox)[1]} /\ Head(outbox)[1] \in Leaving
  BY HandLeaves DEF Hand
<1>2. Kept' = Kept /\ Ordered' = Ordered
  BY SameEntries DEF Kept, Ordered
<1>3. \A i, j \in DOMAIN rx' :
        rx'[i].c = "send" /\ rx'[j].c = "send" /\ rx'[i].msg = rx'[j].msg => i = j
  BY DEF OnePlace
<1>4. OnePlace'
  BY <1>1, <1>2, <1>3, NoNewPlace
<1>5. Head(outbox)[1] \notin Kept \cup Ordered
  BY <1>1 DEF OnePlace
<1> QED
  BY <1>1, <1>2, <1>4, <1>5, WaitingPlaces

\* Each step is one of the abstract queue: a message is accepted, delivered, or
\* lost, or moves from one place where it waits to another.
LEMMA StepIsOfQueue ==
  ASSUME TypeInv, OnePlace, [Next]_vars
  PROVE  OnePlace' /\ [Queue!Next]_(Queue!vars)
<1> USE DEF loop, wrapper, store, outside
<1>1. ASSUME OnePlace', Waiting' \subseteq Waiting, UNCHANGED <<written, server>>
      PROVE  OnePlace' /\ [Queue!Next]_(Queue!vars)
  BY <1>1, LosesSome
<1>2. CASE OnEstablished
  <2>1. UNCHANGED <<written, server>>
    BY <1>2 DEF OnEstablished
  <2> QED
    BY <1>1, <1>2, <2>1, EstablishedMoves
<1>3. CASE Send
  <2>1. UNCHANGED <<written, server>>
    BY <1>3 DEF Send
  <2> QED
    BY <1>1, <1>3, <2>1, SendMoves
<1>4. CASE StartRegistration \/ LogonIfSaved \/ GroupRemove
  <2>1. /\ rx # <<>> /\ rx' = Tail(rx) /\ Head(rx).c # "send"
        /\ UNCHANGED <<outbox, outgoing_messages, written, server>>
    BY <1>4 DEF StartRegistration, LogonIfSaved, GroupRemove, Take
  <2> QED
    BY <1>1, <2>1, OtherCommands
<1>5. CASE HandOverNotReady \/ \E e \in Failures : HandOverFails(e)
  <2>1. Hand /\ UNCHANGED <<rx, outgoing_messages, written, server>>
    BY <1>5 DEF HandOverNotReady, HandOverFails, unmoved
  <2> QED
    BY <1>1, <2>1, HandMoves
<1>6. CASE HandOver
  <2> DEFINE mid == Head(outbox)
  <2>1. Hand /\ UNCHANGED <<rx, outgoing_messages, written>> /\ outbox # <<>>
    BY <1>6 DEF HandOver, Hand, unmoved
  <2>2. OnePlace' /\ Waiting' = Waiting \ {mid[1]} /\ mid[1] \in Waiting
    BY <2>1, HandMoves
  <2>3. CASE server' = server
    BY <1>1, <2>1, <2>2, <2>3
  <2>4. CASE server' = Append(server, mid)
    <3>1. mid \in Mids /\ server \in Seq(Mids)
      BY <2>1, IdAtHand DEF TypeInv, TypeOK
    <3> HIDE DEF mid
    <3>2. [i \in DOMAIN server' |-> server'[i][1]] = Append([i \in DOMAIN server |-> server[i][1]], mid[1])
      <4> DEFINE old == [i \in DOMAIN server |-> server[i][1]]
      <4>1. /\ DOMAIN server = 1 .. Len(server) /\ Len(server) \in Nat
            /\ DOMAIN Append(server, mid) = 1 .. Len(server) + 1
            /\ \A i \in 1 .. Len(server) : Append(server, mid)[i] = server[i]
        BY <3>1
      <4>2. Append(server, mid)[Len(server) + 1] = mid
        BY <3>1
      <4>3. old \in Seq({server[i][1] : i \in 1 .. Len(server)}) /\ Len(old) = Len(server)
        BY <4>1
      <4>4. \A i \in 1 .. Len(server) : old[i] = server[i][1]
        BY <4>1
      <4> HIDE DEF old
      <4>5. Append(old, mid[1]) = [i \in 1 .. Len(server) + 1 |-> IF i = Len(server) + 1 THEN mid[1] ELSE old[i]]
        BY <4>1, <4>3
      <4>6. \A i \in 1 .. Len(server) + 1 : i = Len(server) + 1 \/ i \in 1 .. Len(server)
        BY <4>1
      <4>7. \A i \in 1 .. Len(server) + 1 : Append(server, mid)[i][1] = Append(old, mid[1])[i]
        BY <4>1, <4>2, <4>4, <4>5, <4>6
      <4>8. [i \in DOMAIN server' |-> server'[i][1]] = [i \in 1 .. Len(server) + 1 |-> Append(old, mid[1])[i]]
        BY <2>4, <4>1, <4>7
      <4> QED
        BY <4>5, <4>8 DEF old
    <3> QED
      BY <2>1, <2>2, <3>2 DEF Queue!Next, Queue!Deliver
  <2> QED
    BY <1>6, <2>3, <2>4 DEF HandOver
<1>7. CASE Discard
  <2>1. outbox' = <<>> /\ UNCHANGED <<rx, outgoing_messages, written, server>>
    BY <1>7 DEF Discard, unmoved
  <2>2. Leaving' = {} /\ Kept' = Kept /\ Ordered' = Ordered
    BY <2>1, SameEntries DEF Leaving, Kept, Ordered, Elements
  <2>3. /\ \A i, j \in DOMAIN rx' :
             rx'[i].c = "send" /\ rx'[j].c = "send" /\ rx'[i].msg = rx'[j].msg => i = j
        /\ \A i, j \in DOMAIN outbox' : outbox'[i][1] = outbox'[j][1] => i = j
    BY <2>1 DEF OnePlace
  <2> QED
    BY <1>1, <2>1, <2>2, <2>3, NoNewPlace
<1>8. CASE PollAcks
  <2>1. Unsent' \subseteq Unsent
    BY <1>8, CheckTypes, SameEntries DEF PollAcks
  <2> QED
    BY <1>1, <1>8, <2>1, Untouched DEF PollAcks
<1>9. CASE Tick \/ ClockSetBack
  <2>1. Unsent' \subseteq Unsent
    BY <1>9, OlderTypes DEF Tick, ClockSetBack
  <2> QED
    BY <1>1, <1>9, <2>1, Untouched DEF Tick, ClockSetBack
<1>10. ASSUME NEW mid \in Elements(server), NEW level \in Levels, OnMessageAck(mid, level)
       PROVE  OnePlace' /\ [Queue!Next]_(Queue!vars)
  <2>1. Unsent' \subseteq Unsent
    <3>1. CASE mid \in DOMAIN outgoing_messages
      <4>1. outgoing_messages' = [outgoing_messages EXCEPT ![mid].ack_level = level]
        BY <1>10, <3>1 DEF OnMessageAck
      <4>2. \A m \in DOMAIN outgoing_messages : outgoing_messages[m] \in Status
        BY EntryTypes DEF TypeInv
      <4>3. DOMAIN outgoing_messages' = DOMAIN outgoing_messages
        BY <4>1
      <4>4. \A m \in DOMAIN outgoing_messages :
              m # mid => outgoing_messages'[m] = outgoing_messages[m]
        BY <4>1
      <4>5. outgoing_messages'[mid].unsent = outgoing_messages[mid].unsent
        BY <3>1, <4>1, <4>2 DEF Status
      <4> QED
        BY <4>3, <4>4, <4>5 DEF Unsent
    <3>2. CASE mid \notin DOMAIN outgoing_messages
      BY <1>10, <3>2, SameEntries DEF OnMessageAck
    <3> QED
      BY <3>1, <3>2
  <2> QED
    BY <1>1, <1>10, <2>1, Untouched DEF OnMessageAck, quiet
<1>11. CASE \/ Wake \/ NoMoreEvents \/ NoMoreCommands \/ OutboxEmpty \/ UNCHANGED vars
            \/ DelayElapsed \/ ConnectDone \/ ConnectFails
            \/ \E e \in Failures : ConnectionFails(e)
  <2>1. UNCHANGED <<rx, outbox, outgoing_messages, written, server>>
    BY <1>11 DEF Wake, NoMoreEvents, NoMoreCommands, OutboxEmpty, vars, DelayElapsed, ConnectDone,
                 ConnectFails, ConnectEnds, ConnectionFails, quiet, unmoved
  <2> QED
    BY <1>1, <2>1, SameEntries, Untouched
<1>12. ASSUME NEW m \in Msgs, Write(m)
       PROVE  OnePlace' /\ [Queue!Next]_(Queue!vars)
  <2> DEFINE com == [c |-> "send", msg |-> m]
  <2>1. /\ com \in Command /\ rx \in Seq(Command) /\ rx' = Append(rx, com) /\ m \notin written
        /\ written' = written \cup {m}
        /\ UNCHANGED <<outbox, outgoing_messages, server>>
    BY <1>12 DEF Write, Command, untouched, TypeInv, TypeOK
  <2>2. com.c = "send" /\ com.msg = m
    OBVIOUS
  <2> HIDE DEF com
  <2>3. Elements(rx') = Elements(rx) \cup {com}
    BY <2>1, ElementsOf
  <2>4. Ordered' = Ordered \cup {m}
    <3>1. Ordered' = {c.msg : c \in {d \in Elements(rx') : d.c = "send"}}
      BY DEF Ordered
    <3> QED
      BY <2>2, <2>3, <3>1 DEF Ordered
  <2>5. Kept' = Kept /\ Leaving' = Leaving
    BY <2>1, SameEntries DEF Kept, Leaving
  <2>6. m \notin Ordered \cup Kept \cup Leaving
    BY <2>1 DEF OnePlace
  <2>7. \A i \in DOMAIN rx : rx[i].c = "send" => rx[i].msg # m
    BY <2>6 DEF Ordered, Elements
  <2>8. \A i, j \in DOMAIN rx' :
          rx'[i].c = "send" /\ rx'[j].c = "send" /\ rx'[i].msg = rx'[j].msg => i = j
    <3>1. \A i \in DOMAIN rx : Append(rx, com)[i] = rx[i]
      BY <2>1
    <3>2. DOMAIN Append(rx, com) = DOMAIN rx \cup {Len(rx) + 1}
      BY <2>1
    <3>3. Append(rx, com)[Len(rx) + 1] = com
      BY <2>1
    <3>4. \A i, j \in DOMAIN rx : rx[i].c = "send" /\ rx[j].c = "send" /\ rx[i].msg = rx[j].msg => i = j
      BY DEF OnePlace
    <3> QED
      BY <2>1, <2>2, <2>7, <3>1, <3>2, <3>3, <3>4
  <2>9. \A i, j \in DOMAIN outbox' : outbox'[i][1] = outbox'[j][1] => i = j
    BY <2>1 DEF OnePlace
  <2>10. OnePlace'
    BY <2>1, <2>4, <2>5, <2>6, <2>8, <2>9 DEF OnePlace
  <2>11. m \in Waiting' \ Waiting /\ Waiting' = Waiting \cup {m}
    BY <2>4, <2>5, <2>6, WaitingPlaces
  <2> QED
    BY <2>1, <2>10, <2>11 DEF Queue!Next, Queue!Accept
<1>13. ASSUME NEW c \in {"setup", "logon", "ungroup"}, Order(c)
       PROVE  OnePlace' /\ [Queue!Next]_(Queue!vars)
  <2> DEFINE com == [c |-> c]
  <2>1. /\ com \in Command /\ rx \in Seq(Command) /\ rx' = Append(rx, com)
        /\ UNCHANGED <<outbox, outgoing_messages, written, server>>
    BY <1>13 DEF Order, Command, untouched, TypeInv, TypeOK
  <2>2. com.c # "send"
    OBVIOUS
  <2> HIDE DEF com
  <2>3. Elements(rx') = Elements(rx) \cup {com}
    BY <2>1, ElementsOf
  <2>4. Ordered' = Ordered
    <3>1. Ordered' = {d.msg : d \in {e \in Elements(rx') : e.c = "send"}}
      BY DEF Ordered
    <3> QED
      BY <2>2, <2>3, <3>1 DEF Ordered
  <2>5. Kept' = Kept /\ Leaving' = Leaving
    BY <2>1, SameEntries DEF Kept, Leaving
  <2>6. \A i, j \in DOMAIN rx' :
          rx'[i].c = "send" /\ rx'[j].c = "send" /\ rx'[i].msg = rx'[j].msg => i = j
    <3>1. \A i \in DOMAIN rx : Append(rx, com)[i] = rx[i]
      BY <2>1
    <3>2. DOMAIN Append(rx, com) = DOMAIN rx \cup {Len(rx) + 1}
      BY <2>1
    <3>3. Append(rx, com)[Len(rx) + 1] = com
      BY <2>1
    <3>4. \A i, j \in DOMAIN rx : rx[i].c = "send" /\ rx[j].c = "send" /\ rx[i].msg = rx[j].msg => i = j
      BY DEF OnePlace
    <3> QED
      BY <2>1, <2>2, <3>1, <3>2, <3>3, <3>4
  <2>7. \A i, j \in DOMAIN outbox' : outbox'[i][1] = outbox'[j][1] => i = j
    BY <2>1 DEF OnePlace
  <2> QED
    BY <1>1, <2>1, <2>4, <2>5, <2>6, <2>7, NoNewPlace
<1>14. CASE Crash
  <2>1. /\ rx' = <<[c |-> "logon"]>> /\ outbox' = <<>> /\ Unsent' = {}
        /\ UNCHANGED <<written, server>>
    BY <1>14, EmptyType DEF Crash, Unsent
  <2>2. Ordered' = {} /\ Kept' = {} /\ Leaving' = {}
    BY <2>1 DEF Ordered, Kept, Leaving, Elements
  <2>3. /\ \A i, j \in DOMAIN rx' :
             rx'[i].c = "send" /\ rx'[j].c = "send" /\ rx'[i].msg = rx'[j].msg => i = j
        /\ \A i, j \in DOMAIN outbox' : outbox'[i][1] = outbox'[j][1] => i = j
    BY <2>1
  <2> QED
    BY <1>1, <2>1, <2>2, <2>3, NoNewPlace
<1> QED
  BY <1>2, <1>3, <1>4, <1>5, <1>6, <1>7, <1>8, <1>9, <1>10, <1>11, <1>12, <1>13, <1>14
  DEF Next, Poll, Connection

\* At the start nothing waits and nothing was delivered.
LEMMA InitWaiting ==
  ASSUME Init
  PROVE  OnePlace /\ Queue!Init
<1>1. Ordered = {} /\ Kept = {} /\ Leaving = {}
  BY EmptyType DEF Init, Ordered, Kept, Leaving, Unsent, Elements
<1>2. OnePlace
  BY <1>1 DEF Init, OnePlace
<1>3. Waiting = {} /\ written = {}
  BY <1>1, WaitingPlaces DEF Init
<1>4. [i \in DOMAIN server |-> server[i][1]] = <<>>
  BY DEF Init
<1> QED
  BY <1>2, <1>3, <1>4 DEF Queue!Init

\* A message waits at one place at a time.
LEMMA EachInOnePlace == Spec => [](TypeInv /\ OnePlace)
<1>1. Init => TypeInv /\ OnePlace
  BY InitTypes, InitWaiting
<1>2. TypeInv /\ OnePlace /\ [Next]_vars => TypeInv' /\ OnePlace'
  BY StepKeepsTypes, StepIsOfQueue
<1> QED
  BY <1>1, <1>2, PTL DEF Spec

\* Sending implements the abstract specification, for every number of messages
\* and failures: a message reaches WhatsApp at most once, whatever connections
\* are made, broken and made again.
THEOREM SendsAtMostOnce == Spec => ConveyedAtMostOnce
<1>1. Init => Queue!Init
  BY InitWaiting
<1>2. TypeInv /\ OnePlace /\ [Next]_vars => [Queue!Next]_(Queue!vars)
  BY StepIsOfQueue
<1> QED
  BY <1>1, <1>2, EachInOnePlace, PTL DEF Spec, ConveyedAtMostOnce, Queue!Spec

\* The theorem about the abstract specification, for what it is here
QueueProofs == INSTANCE AtMostOnceProofs
               WITH used <- written, waiting <- Waiting,
                    delivered <- [i \in DOMAIN server |-> server[i][1]]

\* So no message is ever twice among those that reached WhatsApp, under
\* whatever id.
THEOREM SentOnce == Spec => [](\A i, j \in DOMAIN server : server[i][1] = server[j][1] => i = j)
<1>1. Spec => QueueProofs!Spec
  <2>1. Queue!Init => QueueProofs!Init
    BY DEF Queue!Init, QueueProofs!Init
  <2>2. [Queue!Next]_(Queue!vars) => [QueueProofs!Next]_(QueueProofs!vars)
    BY DEF Queue!Next, Queue!Lose, Queue!Accept, Queue!Deliver, Queue!vars,
           QueueProofs!Next, QueueProofs!Lose, QueueProofs!Accept, QueueProofs!Deliver, QueueProofs!vars
  <2> QED
    BY SendsAtMostOnce, <2>1, <2>2, PTL DEF ConveyedAtMostOnce, Queue!Spec, QueueProofs!Spec
<1>2. QueueProofs!Spec => []QueueProofs!OnceInv
  BY QueueProofs!ConveyedOnce
<1>3. QueueProofs!OnceInv => (\A i, j \in DOMAIN server : server[i][1] = server[j][1] => i = j)
  BY DEF QueueProofs!OnceInv, QueueProofs!Once
<1> QED
  BY <1>1, <1>2, <1>3, PTL

-----------------------------------------------------------------------------
(* Alerts *)

\* The reports of check_acks that something is late, and the ids that were
\* given out and are known to the tracker or were reported.
AlertKinds == {"unsent", "slow", "pending"}
Alerts     == {r \in BagToSet(reports) : r.what \in AlertKinds}
Given      == DOMAIN outgoing_messages \cup {r.about : r \in Alerts}

\* An id that was given out is not given out again: its message is no command
\* any more and, when the id is the second one, waits for no session.
Spent(mid) ==
  /\ mid[1] \in written /\ mid[1] \notin Ordered
  /\ mid[2] = 2 => <<mid[1], 1>> \notin Unsent

\* The entry of a late id that was reported is marked.
Marked(r) ==
  LET m == outgoing_messages[r.about] IN IF r.what = "pending" THEN m.alerted_pending ELSE m.alerted

\* The inductive invariant
AlertInv ==
  /\ AlertedOnce
  /\ \A mid \in Given : Spent(mid)
  /\ \A r \in Alerts : r.about \in DOMAIN outgoing_messages => Marked(r)

\* A report that is new is there once, and one that is made again is there
\* more often; the others are as often there as before.
LEMMA ReportsCounted ==
  ASSUME NEW R, ReportFailures(R), \A r \in Alerts : reports[r] = 1
  PROVE  /\ BagToSet(reports') = BagToSet(reports) \cup R
         /\ \A r \in Alerts \ R : reports'[r] = 1
         /\ \A r \in R \ BagToSet(reports) : reports'[r] = 1
<1>1. reports' = [e \in DOMAIN reports \cup R |->
                    (IF e \in DOMAIN reports THEN reports[e] ELSE 0) + (IF e \in R THEN 1 ELSE 0)]
  BY DEF ReportFailures, SetToBag, (+)
<1>2. BagToSet(reports') = BagToSet(reports) \cup R
  BY ReportsGrow
<1>3. ASSUME NEW r \in Alerts, r \notin R
      PROVE  reports'[r] = 1
  <2>1. r \in DOMAIN reports /\ reports[r] = 1
    BY <1>3 DEF Alerts, BagToSet
  <2>2. reports'[r] = 1 + 0
    BY <1>1, <1>3, <2>1
  <2> QED
    BY <2>2
<1>4. ASSUME NEW r \in R, r \notin BagToSet(reports)
      PROVE  reports'[r] = 1
  <2>1. reports'[r] = 0 + 1
    BY <1>1, <1>4 DEF BagToSet
  <2> QED
    BY <2>1
<1> QED
  BY <1>2, <1>3, <1>4

\* AlertedOnce, said of the alerts.
LEMMA OnceOfAlerts ==
  /\ AlertedOnce <=> \A r \in Alerts : reports[r] = 1
  /\ AlertedOnce' <=> \A r \in Alerts' : reports'[r] = 1
BY DEF AlertedOnce, Alerts, AlertKinds

\* Reports of other kinds change no alert.
LEMMA OtherReports ==
  ASSUME AlertedOnce, NEW R, ReportFailures(R), \A r \in R : r.what \notin AlertKinds
  PROVE  Alerts' = Alerts /\ AlertedOnce'
<1>1. \A r \in Alerts : reports[r] = 1
  BY OnceOfAlerts
<1>2. BagToSet(reports') = BagToSet(reports) \cup R /\ \A r \in Alerts \ R : reports'[r] = 1
  BY <1>1, ReportsCounted
<1>3. Alerts' = Alerts
  BY <1>2 DEF Alerts
<1>4. \A r \in Alerts : r \notin R
  BY DEF Alerts
<1> QED
  BY <1>2, <1>3, <1>4, OnceOfAlerts

LEMMA SameReports ==
  ASSUME AlertedOnce, reports' = reports
  PROVE  Alerts' = Alerts /\ AlertedOnce'
BY DEF AlertedOnce, Alerts

\* A step that gives out no id and leaves the marks of the entries.
LEMMA AlertsLess ==
  ASSUME AlertInv, Alerts' = Alerts, AlertedOnce',
         written \subseteq written', Ordered' \cap written \subseteq Ordered, Unsent' \subseteq Unsent,
         DOMAIN outgoing_messages' \subseteq DOMAIN outgoing_messages,
         \A mid \in DOMAIN outgoing_messages' :
           /\ outgoing_messages'[mid].alerted = outgoing_messages[mid].alerted
           /\ outgoing_messages'[mid].alerted_pending = outgoing_messages[mid].alerted_pending
  PROVE  AlertInv'
<1>1. Given' \subseteq Given
  BY DEF Given
<1>2. \A mid \in Given' : Spent(mid)'
  BY <1>1 DEF AlertInv, Spent
<1>3. \A r \in Alerts' : r.about \in DOMAIN outgoing_messages' => Marked(r)'
  BY DEF AlertInv, Marked
<1> QED
  BY <1>2, <1>3 DEF AlertInv

\* The commands: only Write queues a message, and it is a new one.
LEMMA NoNewOrder ==
  ASSUME TypeInv,
         \/ rx' = rx
         \/ rx # <<>> /\ rx' = Tail(rx)
         \/ \E c \in {"setup", "logon", "ungroup"} : rx' = Append(rx, [c |-> c]) \/ rx' = <<[c |-> c]>>
  PROVE  Ordered' \subseteq Ordered
<1>1. CASE rx' = rx
  BY <1>1 DEF Ordered
<1>2. CASE rx # <<>> /\ rx' = Tail(rx)
  <2>1. Elements(rx) = {Head(rx)} \cup Elements(rx')
    BY <1>2, CommandAtHand DEF TypeInv
  <2> QED
    BY <2>1 DEF Ordered
<1>3. ASSUME NEW c \in {"setup", "logon", "ungroup"}, rx' = Append(rx, [c |-> c]) \/ rx' = <<[c |-> c]>>
      PROVE  Ordered' \subseteq Ordered
  <2> DEFINE com == [c |-> c]
             one == <<com>>
  <2>1. com.c # "send" /\ com \in Command /\ rx \in Seq(Command) /\ (rx' = Append(rx, com) \/ rx' = one)
    BY <1>3 DEF Command, TypeInv, TypeOK
  <2> HIDE DEF com
  <2>2. Elements(Append(rx, com)) = Elements(rx) \cup {com}
    BY <2>1, ElementsAppended
  <2>3. Elements(one) = {com}
    BY <2>1 DEF Elements
  <2> HIDE DEF one
  <2>4. Elements(rx') \subseteq Elements(rx) \cup {com}
    BY <2>1, <2>2, <2>3
  <2> QED
    BY <2>1, <2>4 DEF Ordered
<1> QED
  BY <1>1, <1>2, <1>3

\* A message that is taken from the commands gets its first id: nothing was
\* reported of it.
LEMMA SendAlerts ==
  ASSUME TypeInv, OnePlace, AlertInv, Send
  PROVE  AlertInv'
<1>0. PICK m \in Msgs : m = Head(rx).msg
  BY CommandAtHand DEF Send, Take, TypeInv
<1> DEFINE id == <<m, 1>>
<1>1. /\ rx # <<>> /\ rx' = Tail(rx) /\ Head(rx).c = "send" /\ written' = written
      /\ SendNowhere(m) \/ QueueMessage(m) \/ SendMessage(m)
  BY <1>0 DEF Send, Take, outside
<1>2. Ordered' = Ordered \ {m} /\ m \in Ordered
  BY <1>0, <1>1, TakeLeaves
<1>3. m \in written
  BY <1>2 DEF OnePlace
<1>4. Alerts' = Alerts /\ AlertedOnce'
  <2>1. CASE reports' = reports
    BY <2>1, SameReports DEF AlertInv
  <2>2. CASE \/ ReportFailures({[what |-> "bad", about |-> <<m, 0>>]})
             \/ ReportFailures({[what |-> "nosetup", about |-> id]})
             \/ ReportFailures({})
    BY <2>2, OtherReports DEF AlertInv, AlertKinds
  <2> QED
    BY <1>1, <2>1, <2>2 DEF SendNowhere, QueueMessage, SendMessage
<1>5. CASE SendNowhere(m)
  <2>1. outgoing_messages' = outgoing_messages /\ Unsent' = Unsent
    BY <1>5, SameEntries DEF SendNowhere
  <2> QED
    BY <1>1, <1>2, <1>4, <2>1, AlertsLess
<1>6. CASE QueueMessage(m) \/ SendMessage(m)
  <2>1. PICK b \in BOOLEAN : RegisterSend(id, b)
    BY <1>6 DEF QueueMessage, SendMessage
  <2>2. /\ DOMAIN outgoing_messages' = DOMAIN outgoing_messages \cup {id}
        /\ Unsent' \subseteq Unsent \cup {id}
    BY <1>1, <2>1, RegisterTypes
  <2>3. id[1] = m /\ id[2] = 1
    OBVIOUS
  <2>4. \A mid \in DOMAIN outgoing_messages :
          mid # id => outgoing_messages'[mid] = outgoing_messages[mid]
    <3>1. outgoing_messages' = Put(outgoing_messages, id, NewStatus(b))
      BY <2>1 DEF RegisterSend
    <3> HIDE DEF id
    <3> QED
      BY <3>1 DEF Put
  <2>5. \A mid \in Given : mid[1] # m
    BY <1>2 DEF AlertInv, Spent
  <2>6. \A r \in Alerts : r.about[1] # m
    BY <2>5 DEF Given
  <2>7. Given' = Given \cup {id}
    BY <1>4, <2>2 DEF Given
  <2>8. \A mid \in Given : Spent(mid)'
    <3> SUFFICES ASSUME NEW mid \in Given
                 PROVE  Spent(mid)'
      OBVIOUS
    <3>1. Spent(mid) /\ mid[1] # m
      BY <2>5 DEF AlertInv
    <3>2. <<mid[1], 1>> # id
      BY <3>1
    <3> HIDE DEF id
    <3> QED
      BY <1>1, <1>2, <2>2, <3>1, <3>2 DEF Spent
  <2>9. Spent(id)'
    <3> HIDE DEF id
    <3> QED
      BY <1>1, <1>2, <1>3, <2>3 DEF Spent
  <2>10. \A r \in Alerts' : r.about \in DOMAIN outgoing_messages' => Marked(r)'
    <3> SUFFICES ASSUME NEW r \in Alerts, r.about \in DOMAIN outgoing_messages'
                 PROVE  Marked(r)'
      BY <1>4
    <3>1. r.about # id
      BY <2>3, <2>6
    <3> HIDE DEF id
    <3>2. r.about \in DOMAIN outgoing_messages /\ outgoing_messages'[r.about] = outgoing_messages[r.about]
      BY <2>2, <2>4, <3>1
    <3> QED
      BY <3>2 DEF AlertInv, Marked
  <2> HIDE DEF id
  <2> QED
    BY <1>4, <2>7, <2>8, <2>9, <2>10 DEF AlertInv
<1> QED
  BY <1>1, <1>5, <1>6

\* on_established: what waited gets its second id, of which nothing was
\* reported while the first one was there.
LEMMA EstablishedAlerts ==
  ASSUME TypeInv, OnePlace, AlertInv, OnEstablished
  PROVE  AlertInv'
<1> DEFINE new == {NewId(mid) : mid \in Unsent}
<1>1. ExtractUnsent /\ UNCHANGED <<rx, written, reports>>
  BY DEF OnEstablished
<1>2. /\ Unsent' = {}
      /\ DOMAIN outgoing_messages' = (DOMAIN outgoing_messages \ Unsent) \cup new
  BY <1>1, ExtractTypes
<1>3. \A mid \in DOMAIN outgoing_messages' \ new : outgoing_messages'[mid] = outgoing_messages[mid]
  BY <1>1 DEF ExtractUnsent
<1>4. Alerts' = Alerts /\ AlertedOnce'
  BY <1>1, SameReports DEF AlertInv
<1>5. Ordered' = Ordered
  BY <1>1 DEF Ordered
<1>6. ASSUME NEW mid \in Unsent
      PROVE  /\ mid \in DOMAIN outgoing_messages /\ mid = <<mid[1], 1>> /\ NewId(mid) = <<mid[1], 2>>
             /\ NewId(mid)[1] = mid[1] /\ NewId(mid)[2] = 2
  <2>1. mid \in Mids /\ mid[2] = 1 /\ mid \in DOMAIN outgoing_messages
    BY EntryTypes DEF TypeInv, FirstIds, Unsent
  <2> QED
    BY <2>1 DEF Mids, NewId
<1> HIDE DEF new
<1>7. \A id \in new : id \notin Given /\ id[1] \in written /\ id[1] \notin Ordered
  <2> SUFFICES ASSUME NEW mid \in Unsent
               PROVE  NewId(mid) \notin Given /\ mid[1] \in written /\ mid[1] \notin Ordered
    BY <1>6 DEF new
  <2>1. mid \in Given
    BY <1>6 DEF Given
  <2>2. NewId(mid) \notin Given
    BY <1>6 DEF AlertInv, Spent
  <2> QED
    BY <2>1, <2>2 DEF AlertInv, Spent
<1>8. Given' \subseteq Given \cup new
  BY <1>2, <1>4 DEF Given
<1>9. \A mid \in Given' : Spent(mid)'
  BY <1>1, <1>2, <1>5, <1>7, <1>8 DEF AlertInv, Spent
<1>10. \A r \in Alerts' : r.about \in DOMAIN outgoing_messages' => Marked(r)'
  <2> SUFFICES ASSUME NEW r \in Alerts, r.about \in DOMAIN outgoing_messages'
               PROVE  Marked(r)'
    BY <1>4
  <2>1. r.about \in Given
    BY DEF Given
  <2>2. r.about \notin new
    BY <1>7, <2>1
  <2>3. r.about \in DOMAIN outgoing_messages /\ outgoing_messages'[r.about] = outgoing_messages[r.about]
    BY <1>2, <1>3, <2>2
  <2> QED
    BY <2>3 DEF AlertInv, Marked
<1> QED
  BY <1>4, <1>9, <1>10 DEF AlertInv

\* check_acks reports what is not marked, and marks it.
LEMMA CheckAlerts ==
  ASSUME TypeInv, AlertInv, CheckAcks, UNCHANGED <<rx, written>>
  PROVE  AlertInv'
<1> DEFINE late == {[what |-> IF outgoing_messages[mid].unsent THEN "unsent" ELSE "slow", about |-> mid] :
                       mid \in {mid \in DOMAIN outgoing_messages : Overdue(mid)}}
           pending == {[what |-> "pending", about |-> mid] :
                       mid \in {mid \in DOMAIN outgoing_messages : StillPending(mid)}}
           R == late \cup pending
           kept == {mid \in DOMAIN outgoing_messages : ~Expired(mid)}
<1>1. ReportFailures(R) /\ outgoing_messages' = [mid \in kept |-> Checked(mid)]
  BY DEF CheckAcks
<1>2. \A r \in R : /\ r.about \in DOMAIN outgoing_messages /\ r.what \in AlertKinds
                   /\ IF r.what = "pending" THEN StillPending(r.about) ELSE Overdue(r.about)
  BY DEF AlertKinds
<1> HIDE DEF R
<1>3. \A r \in R : r \notin BagToSet(reports)
  <2> SUFFICES ASSUME NEW r \in R, r \in BagToSet(reports)
               PROVE  FALSE
    OBVIOUS
  <2>1. r \in Alerts /\ r.about \in DOMAIN outgoing_messages
    BY <1>2 DEF Alerts
  <2>2. Marked(r)
    BY <2>1 DEF AlertInv
  <2> QED
    BY <1>2, <2>2 DEF Marked, Overdue, StillPending
<1>4. \A r \in Alerts : reports[r] = 1
  BY OnceOfAlerts DEF AlertInv
<1>5. /\ BagToSet(reports') = BagToSet(reports) \cup R
      /\ \A r \in Alerts \ R : reports'[r] = 1
      /\ \A r \in R \ BagToSet(reports) : reports'[r] = 1
  BY <1>1, <1>4, ReportsCounted
<1>6. Alerts' = Alerts \cup R
  BY <1>2, <1>5 DEF Alerts
<1>7. AlertedOnce'
  BY <1>3, <1>5, <1>6, OnceOfAlerts
<1>8. Unsent' \subseteq Unsent /\ Ordered' = Ordered
  BY CheckTypes DEF Ordered
<1> HIDE DEF kept
<1>9. DOMAIN outgoing_messages' = kept /\ \A mid \in kept : outgoing_messages'[mid] = Checked(mid)
  BY <1>1
<1>10. kept \subseteq DOMAIN outgoing_messages
  BY DEF kept
<1>11. Given' \subseteq Given
  BY <1>2, <1>6, <1>9, <1>10 DEF Given
<1>12. \A mid \in Given' : Spent(mid)'
  BY <1>8, <1>11 DEF AlertInv, Spent
<1>13. \A mid \in DOMAIN outgoing_messages :
         /\ Checked(mid).alerted = (outgoing_messages[mid].alerted \/ Overdue(mid))
         /\ Checked(mid).alerted_pending = (outgoing_messages[mid].alerted_pending \/ StillPending(mid))
  <2> TAKE mid \in DOMAIN outgoing_messages
  <2>1. outgoing_messages[mid] \in Status
    BY EntryTypes DEF TypeInv
  <2> QED
    BY <2>1 DEF Checked, Status
<1>14. \A r \in Alerts' : r.about \in DOMAIN outgoing_messages' => Marked(r)'
  <2> SUFFICES ASSUME NEW r \in Alerts \cup R, r.about \in kept
               PROVE  Marked(r)'
    BY <1>6, <1>9
  <2>1. r.about \in DOMAIN outgoing_messages /\ outgoing_messages'[r.about] = Checked(r.about)
    BY <1>9, <1>10
  <2>2. CASE r \in Alerts
    <3>1. Marked(r)
      BY <2>1, <2>2 DEF AlertInv
    <3> QED
      BY <1>13, <2>1, <3>1 DEF Marked
  <2>3. CASE r \in R
    BY <1>2, <1>13, <2>1, <2>3 DEF Marked
  <2> QED
    BY <2>2, <2>3
<1> QED
  BY <1>7, <1>12, <1>14 DEF AlertInv

\* No step reports a second time what is late.
LEMMA StepKeepsAlerts ==
  ASSUME TypeInv, OnePlace, AlertInv, [Next]_vars
  PROVE  AlertInv'
<1> USE DEF loop, wrapper, store, outside
<1>0. AlertedOnce
  BY DEF AlertInv
<1>1. ASSUME Ordered' \subseteq Ordered, written' = written, UNCHANGED outgoing_messages,
             Alerts' = Alerts, AlertedOnce'
      PROVE  AlertInv'
  <2>1. Unsent' = Unsent
    BY <1>1, SameEntries
  <2> QED
    BY <1>1, <2>1, AlertsLess
<1>2. ASSUME NEW e \in Failures, OnWaError(e)
      PROVE  Alerts' = Alerts /\ AlertedOnce'
  <2>1. ReportFailures({[what |-> "removed", about |-> <<>>]}) \/ ReportFailures({})
    BY <1>2 DEF OnWaError
  <2> QED
    BY <1>0, <2>1, OtherReports DEF AlertKinds
<1>3. CASE \/ Wake \/ NoMoreEvents \/ NoMoreCommands \/ OutboxEmpty \/ Discard \/ UNCHANGED vars
           \/ HandOver \/ HandOverNotReady \/ DelayElapsed \/ ConnectDone \/ ConnectFails
  <2>1. UNCHANGED <<rx, outgoing_messages, written, reports>>
    BY <1>3 DEF Wake, NoMoreEvents, NoMoreCommands, OutboxEmpty, Discard, vars, HandOver, HandOverNotReady,
                DelayElapsed, ConnectDone, ConnectFails, ConnectEnds, quiet, unmoved
  <2> QED
    BY <1>0, <1>1, <2>1, NoNewOrder, SameReports
<1>4. CASE \E e \in Failures : ConnectionFails(e) \/ HandOverFails(e)
  <2>1. \E e \in Failures : OnWaError(e)
    BY <1>4 DEF ConnectionFails, HandOverFails
  <2>2. UNCHANGED <<rx, outgoing_messages, written>>
    BY <1>4 DEF ConnectionFails, HandOverFails, quiet, unmoved
  <2> QED
    BY <1>1, <1>2, <2>1, <2>2, NoNewOrder
<1>5. CASE StartRegistration \/ LogonIfSaved \/ GroupRemove
  <2>1. rx # <<>> /\ rx' = Tail(rx) /\ UNCHANGED <<outgoing_messages, written, reports>>
    BY <1>5 DEF StartRegistration, LogonIfSaved, GroupRemove, Take
  <2> QED
    BY <1>0, <1>1, <2>1, NoNewOrder, SameReports
<1>6. CASE \E c \in {"setup", "logon", "ungroup"} : Order(c)
  <2>1. /\ \E c \in {"setup", "logon", "ungroup"} : rx' = Append(rx, [c |-> c])
        /\ UNCHANGED <<outgoing_messages, written, reports>>
    BY <1>6 DEF Order, untouched
  <2> QED
    BY <1>0, <1>1, <2>1, NoNewOrder, SameReports
<1>7. ASSUME NEW m \in Msgs, Write(m)
      PROVE  AlertInv'
  <2> DEFINE com == [c |-> "send", msg |-> m]
  <2>1. /\ com \in Command /\ rx \in Seq(Command) /\ rx' = Append(rx, com) /\ m \notin written
        /\ written' = written \cup {m}
        /\ UNCHANGED <<outgoing_messages, reports>>
    BY <1>7 DEF Write, Command, untouched, TypeInv, TypeOK
  <2>2. com.msg = m
    OBVIOUS
  <2> HIDE DEF com
  <2>3. Elements(rx') = Elements(rx) \cup {com}
    BY <2>1, ElementsAppended
  <2>4. Ordered' \subseteq Ordered \cup {m}
    BY <2>2, <2>3 DEF Ordered
  <2>5. Unsent' = Unsent /\ Alerts' = Alerts /\ AlertedOnce'
    BY <1>0, <2>1, SameEntries, SameReports
  <2> QED
    BY <2>1, <2>4, <2>5, AlertsLess
<1>8. CASE Tick \/ ClockSetBack
  <2>1. PICK by \in {-1, 1} : Older(by)
    BY <1>8 DEF Tick, ClockSetBack
  <2>2. UNCHANGED <<rx, written, reports>>
    BY <1>8 DEF Tick, ClockSetBack
  <2>3. /\ DOMAIN outgoing_messages' = DOMAIN outgoing_messages
        /\ \A mid \in DOMAIN outgoing_messages :
             outgoing_messages'[mid] =
               [outgoing_messages[mid] EXCEPT !.age = IF @ + by \in -1 .. MaxAge THEN @ + by ELSE @]
    BY <2>1 DEF Older
  <2>4. \A mid \in DOMAIN outgoing_messages :
          /\ outgoing_messages'[mid].alerted = outgoing_messages[mid].alerted
          /\ outgoing_messages'[mid].alerted_pending = outgoing_messages[mid].alerted_pending
    BY <2>3, EntryTypes DEF TypeInv, Status
  <2>5. Unsent' \subseteq Unsent /\ Ordered' \subseteq Ordered /\ Alerts' = Alerts /\ AlertedOnce'
    BY <1>0, <2>1, <2>2, OlderTypes, NoNewOrder, SameReports
  <2> QED
    BY <2>2, <2>3, <2>4, <2>5, AlertsLess
<1>9. ASSUME NEW mid \in Elements(server), NEW level \in Levels, OnMessageAck(mid, level)
      PROVE  AlertInv'
  <2>1. UNCHANGED <<rx, written>>
    BY <1>9 DEF OnMessageAck, quiet
  <2>2. Ordered' \subseteq Ordered
    BY <2>1, NoNewOrder
  <2>3. CASE mid \notin DOMAIN outgoing_messages
    BY <1>0, <1>1, <1>9, <2>1, <2>2, <2>3, SameReports DEF OnMessageAck
  <2>4. CASE mid \in DOMAIN outgoing_messages
    <3>1. /\ outgoing_messages' = [outgoing_messages EXCEPT ![mid].ack_level = level]
          /\ ReportFailures({[what |-> "error", about |-> mid]}) \/ ReportFailures({})
      BY <1>9, <2>4 DEF OnMessageAck
    <3>2. Alerts' = Alerts /\ AlertedOnce'
      BY <1>0, <3>1, OtherReports DEF AlertKinds
    <3>3. \A m \in DOMAIN outgoing_messages : outgoing_messages[m] \in Status
      BY EntryTypes DEF TypeInv
    <3>4. /\ DOMAIN outgoing_messages' = DOMAIN outgoing_messages
          /\ \A m \in DOMAIN outgoing_messages :
               m # mid => outgoing_messages'[m] = outgoing_messages[m]
      BY <3>1
    <3>5. /\ outgoing_messages'[mid].unsent = outgoing_messages[mid].unsent
          /\ outgoing_messages'[mid].alerted = outgoing_messages[mid].alerted
          /\ outgoing_messages'[mid].alerted_pending = outgoing_messages[mid].alerted_pending
      BY <2>4, <3>1, <3>3 DEF Status
    <3>6. Unsent' \subseteq Unsent
      BY <3>4, <3>5 DEF Unsent
    <3>7. \A m \in DOMAIN outgoing_messages' :
            /\ outgoing_messages'[m].alerted = outgoing_messages[m].alerted
            /\ outgoing_messages'[m].alerted_pending = outgoing_messages[m].alerted_pending
      BY <3>4, <3>5
    <3> QED
      BY <2>1, <2>2, <3>2, <3>4, <3>6, <3>7, AlertsLess
  <2> QED
    BY <2>3, <2>4
<1>10. CASE PollAcks
  <2>1. UNCHANGED <<rx, written>> /\ (CheckAcks \/ UNCHANGED <<outgoing_messages, reports>>)
    BY <1>10 DEF PollAcks
  <2> QED
    BY <1>0, <1>1, <2>1, NoNewOrder, SameReports, CheckAlerts
<1>11. CASE Crash
  <2>1. /\ rx' = <<[c |-> "logon"]>> /\ outgoing_messages' = Empty /\ UNCHANGED <<written, reports>>
    BY <1>11 DEF Crash
  <2>2. DOMAIN outgoing_messages' = {} /\ Unsent' = {}
    BY <2>1, EmptyType DEF Unsent
  <2>3. Ordered' \subseteq Ordered /\ Alerts' = Alerts /\ AlertedOnce'
    BY <1>0, <2>1, NoNewOrder, SameReports
  <2> QED
    BY <2>1, <2>2, <2>3, AlertsLess
<1> QED
  BY <1>3, <1>4, <1>5, <1>6, <1>7, <1>8, <1>9, <1>10, <1>11, SendAlerts, EstablishedAlerts
  DEF Next, Poll, Connection

\* The user is alerted once that an id waits for a session or for an
\* acknowledgement, and once that it is pending (check_acks), whatever the
\* clock, the acknowledgements and the connections do, restarts included.
THEOREM AlertsOnce == Spec => []AlertedOnce
<1>1. Init => AlertInv
  <2> SUFFICES ASSUME Init
               PROVE  AlertInv
    OBVIOUS
  <2>1. BagToSet(reports) = {} /\ DOMAIN outgoing_messages = {}
    BY EmptyType DEF Init, EmptyBag, SetToBag, BagToSet
  <2> QED
    BY <2>1 DEF AlertInv, AlertedOnce, Given, Alerts
<1>2. TypeInv /\ OnePlace /\ AlertInv /\ [Next]_vars => AlertInv'
  BY StepKeepsAlerts
<1>3. Spec => [](TypeInv /\ OnePlace)
  BY EachInOnePlace
<1>4. AlertInv => AlertedOnce
  BY DEF AlertInv
<1> QED
  BY <1>1, <1>2, <1>3, <1>4, PTL DEF Spec
=============================================================================
