------------------------------- MODULE WaSend -------------------------------
(***************************************************************************)
(* Sending through WhatsApp: the poll loop of WhatsappManager              *)
(* (whatsapp.rs), the connection it wraps (whatsapp_conn.rs) and the       *)
(* tracker of acknowledgements (whatsapp_ack.rs).                          *)
(*                                                                         *)
(* The manager's poll is a loop with phases (at): it drains the events of  *)
(* the connection, then the commands (rx), hands the outbox to the         *)
(* connection, starts again if there was a command, and checks the         *)
(* acknowledgements.  Other tasks of the thread, and time, run between two *)
(* polls; the process may die anywhere.                                    *)
(*                                                                         *)
(* Left out: what is received (messages, contacts, chats, groups), the     *)
(* requests that are neither tracked nor messages, and the text of reports.*)
(***************************************************************************)
EXTENDS Integers, FiniteSets, SequencesExt, Bags, Maps

CONSTANTS
  Msgs,         \* messages the user writes, each once
  To,           \* message -> "direct", "group", or "bad" (no phone number)
  ack_warn, ack_warn_pending, ack_expiry,
  MaxAge,       \* bound: messages do not get older than this
  FirstSaved,   \* credentials in the database at first (0: none)
  Events,       \* the kinds of outside events that may happen
  MaxInputs     \* bound: outside events in a behaviour

VARIABLES
  at,        \* where poll is: "idle" between two polls
  cont,      \* cont: there was a command, so the loop goes on
  polled,    \* the connection was polled since it last changed, so that
             \* it wakes the manager when it is ready
  inner,     \* WrapperState
  persist,   \* credentials the wrapper connects with (0: none)
  connected, \* connected of the manager
  rx,        \* WhatsappCommands
  outbox,    \* messages to hand over, by id
  outgoing_messages,  \* id -> what the tracker knows of it
  timer,     \* the interval of the tracker has fired
  saved,     \* database: credentials
  bridged,   \* database: the group of the user's channel is there
  session,   \* the connection has an established session
  server,    \* ids of messages that reached WhatsApp, in this order
  told,      \* <<id, level>>: the acknowledgements it sent
  reports,   \* bag of [what, about]: ReportFailure commands
  written,   \* the messages the user wrote
  inputs     \* how many outside events have happened

loop    == <<at, cont>>
wrapper == <<polled, inner, persist, session>>
store   == <<saved, bridged>>
outside == <<server, told, written>>
vars == <<at, cont, polled, inner, persist, connected, rx, outbox,
          outgoing_messages, timer, saved, bridged, session, server, told,
          reports, written, inputs>>

-----------------------------------------------------------------------------
\* A message gets a new id (MessageId::generate) each time it is registered
Mids     == Msgs \X (1 .. 2)
Levels   == {"pending", "ok", "error"}
Status   == [unsent : BOOLEAN, age : -1 .. MaxAge, ack_level : Levels \cup {"none"},
             alerted : BOOLEAN, alerted_pending : BOOLEAN]
Command  == [c : {"setup", "logon", "ungroup"}] \cup [c : {"send"}, msg : Msgs]
Failures == {"io", "replaced", "removed", "unauthorized"}
Report   == [what : {"removed"}, about : {<<>>}]
       \cup [what : {"bad"}, about : Msgs \X {0}]
       \cup [what : {"nosetup", "unsent", "slow", "pending", "error"}, about : Mids]

ASSUME SendAssumption ==
  /\ IsFiniteSet(Msgs)
  /\ To \in [Msgs -> {"direct", "group", "bad"}]
  /\ MaxAge \in Nat /\ MaxInputs \in Nat /\ FirstSaved \in Nat
  /\ {ack_warn, ack_warn_pending, ack_expiry} \subseteq 1 .. MaxAge

TypeOK ==
  /\ at \in {"idle", "events", "commands", "outbox", "acks"}
  /\ cont \in BOOLEAN /\ polled \in BOOLEAN
  /\ inner \in {"Disabled", "Waiting", "Initializing", "Running"}
  /\ persist \in Nat /\ saved \in Nat
  /\ connected \in BOOLEAN /\ session \in BOOLEAN
  /\ timer \in BOOLEAN /\ bridged \in BOOLEAN
  /\ rx \in Seq(Command)
  /\ outbox \in Seq(Mids) /\ server \in Seq(Mids)
  /\ IsPartial(outgoing_messages, Mids, Status)
  /\ told \subseteq Mids \X Levels
  /\ BagToSet(reports) \subseteq Report
  /\ written \subseteq Msgs
  /\ inputs \in 0 .. MaxInputs

\* main: everything but the database is new; LogonIfSaved is queued
Init ==
  /\ at = "idle" /\ cont = FALSE /\ polled = FALSE
  /\ inner = "Disabled" /\ persist = 0 /\ connected = FALSE
  /\ rx = <<[c |-> "logon"]>> /\ outbox = <<>>
  /\ outgoing_messages = Empty /\ timer = FALSE
  /\ saved = FirstSaved /\ bridged = TRUE
  /\ session = FALSE /\ server = <<>> /\ told = {}
  /\ reports = EmptyBag /\ written = {} /\ inputs = 0

Input(e) == e \in Events /\ inputs < MaxInputs /\ inputs' = inputs + 1
ReportFailures(R) == reports' = reports (+) SetToBag(R)

-----------------------------------------------------------------------------
(* The connection wrapper *)

\* initialize: a new attempt, in place of what there was
Initialize(p) ==
  /\ persist' = p
  /\ inner' = "Initializing" /\ polled' = FALSE /\ session' = FALSE

\* backoff, and what on_wa_error does of it: no more attempts when the
\* phone has removed us or the credentials are refused
OnWaError(e) ==
  LET disable == e \in {"removed", "unauthorized"} IN
  /\ inner' = (IF disable THEN "Disabled" ELSE "Waiting")
  /\ polled' = FALSE /\ session' = FALSE /\ connected' = FALSE
  /\ ReportFailures(IF disable THEN {[what |-> "removed", about |-> <<>>]} ELSE {})
  /\ UNCHANGED persist

quiet == <<rx, timer, store, written>>

\* The delay of the backoff has elapsed
DelayElapsed ==
  /\ at = "events" /\ inner = "Waiting"
  /\ Initialize(persist)
  /\ UNCHANGED <<loop, connected, outbox, outgoing_messages, server, told, reports, inputs, quiet>>

ConnectEnds(state) ==
  /\ at = "events" /\ inner = "Initializing"
  /\ inner' = state
  /\ UNCHANGED <<loop, polled, persist, session, connected, outbox, outgoing_messages, server,
                 told, reports, inputs, quiet>>
ConnectDone  == ConnectEnds("Running")
\* Mutant: no backoff; poll has left Disabled in the place of the state
ConnectFailsForGood == ConnectEnds("Disabled")
ConnectFails == ConnectEnds("Waiting")

\* The connection breaks; poll hands the error on
ConnectionFails(e) ==
  /\ Input("fail")
  /\ at = "events" /\ inner = "Running"
  /\ OnWaError(e)
  /\ UNCHANGED <<loop, outbox, outgoing_messages, server, told, quiet>>

\* NotReady in every state: on to the commands
NoMoreEvents ==
  /\ at = "events"
  /\ at' = "commands" /\ polled' = TRUE
  /\ UNCHANGED <<cont, inner, persist, session, connected, outbox, outgoing_messages, server,
                 told, reports, inputs, quiet>>

-----------------------------------------------------------------------------
(* The tracker *)

NewStatus(unsent) ==
  [unsent |-> unsent, age |-> 0, ack_level |-> "none", alerted |-> FALSE, alerted_pending |-> FALSE]
RegisterSend(mid, unsent) ==
  outgoing_messages' = Put(outgoing_messages, mid, NewStatus(unsent))

Unsent == {mid \in DOMAIN outgoing_messages : outgoing_messages[mid].unsent}
NewId(mid) == <<mid[1], mid[2] + 1>>

\* Mutant: the entries stay where they are
ExtractUnsentKeeping ==
  outgoing_messages' = [mid \in DOMAIN outgoing_messages \cup {NewId(mid) : mid \in Unsent} |->
                          IF mid \in DOMAIN outgoing_messages THEN outgoing_messages[mid]
                          ELSE NewStatus(FALSE)]

\* Mutant: sent, but registered as unsent again
ExtractUnsentQueued ==
  LET new == {NewId(mid) : mid \in Unsent} IN
  outgoing_messages' = [mid \in (DOMAIN outgoing_messages \ Unsent) \cup new |->
                          IF mid \in new THEN NewStatus(TRUE) ELSE outgoing_messages[mid]]

\* extract_unsent, and send_message for each of them, in the order of a HashMap
ExtractUnsent ==
  LET new == {NewId(mid) : mid \in Unsent} IN
  outgoing_messages' = [mid \in (DOMAIN outgoing_messages \ Unsent) \cup new |->
                          IF mid \in new THEN NewStatus(FALSE) ELSE outgoing_messages[mid]]

\* SessionEstablished: on_established
OnEstablished ==
  /\ at = "events" /\ inner = "Running" /\ ~session
  /\ session' = TRUE /\ connected' = TRUE
  /\ \E order \in SetToSeqs(Unsent) :
       outbox' = outbox \o [i \in DOMAIN order |-> NewId(order[i])]
  /\ ExtractUnsent
  /\ persist' = IF persist = 0 THEN saved + 1 ELSE persist
  /\ saved' = persist'
  /\ UNCHANGED <<loop, polled, inner, rx, timer, bridged, server, told, reports, written, inputs>>

\* MessageAck: on_message_ack; any level, in any order, perhaps twice
OnMessageAck(mid, level) ==
  /\ Input("ack")
  /\ at = "events" /\ inner = "Running" /\ session
  /\ mid \in Elements(server)
  /\ told' = told \cup {<<mid, level>>}
  /\ IF mid \in DOMAIN outgoing_messages
     THEN /\ outgoing_messages' = [outgoing_messages EXCEPT ![mid].ack_level = level]
          /\ ReportFailures(IF level = "error" THEN {[what |-> "error", about |-> mid]} ELSE {})
     ELSE UNCHANGED <<outgoing_messages, reports>>
  /\ UNCHANGED <<loop, wrapper, connected, outbox, server, quiet>>

\* The age that check_acks computes; one before the epoch of the message
\* (the clock was set back) is cast to an unsigned number
DeltaMs(mid) == LET age == outgoing_messages[mid].age IN IF age < 0 THEN MaxAge ELSE age

\* Mutant: only what was sent can be late
OverdueWhenSent(mid) == LET m == outgoing_messages[mid] IN
  m.ack_level = "none" /\ DeltaMs(mid) >= ack_warn /\ ~m.alerted /\ ~m.unsent

Overdue(mid) == LET m == outgoing_messages[mid] IN
  m.ack_level = "none" /\ DeltaMs(mid) >= ack_warn /\ ~m.alerted
StillPending(mid) == LET m == outgoing_messages[mid] IN
  m.ack_level = "pending" /\ DeltaMs(mid) >= ack_warn_pending /\ ~m.alerted_pending
Expired(mid) ==
  outgoing_messages[mid].ack_level \in {"ok", "error"} /\ DeltaMs(mid) >= ack_expiry

\* Mutant: alerted is not set
CheckedForgetting(mid) ==
  [outgoing_messages[mid] EXCEPT !.alerted_pending = @ \/ StillPending(mid)]

\* What check_acks leaves of an entry
Checked(mid) ==
  [outgoing_messages[mid] EXCEPT !.alerted = @ \/ Overdue(mid),
                                 !.alerted_pending = @ \/ StillPending(mid)]

CheckAcks ==
  /\ LET Late == {mid \in DOMAIN outgoing_messages : Overdue(mid)}
         Pending == {mid \in DOMAIN outgoing_messages : StillPending(mid)}
     IN ReportFailures(
               {[what |-> IF outgoing_messages[mid].unsent THEN "unsent" ELSE "slow",
                 about |-> mid] : mid \in Late}
          \cup {[what |-> "pending", about |-> mid] : mid \in Pending})
  /\ outgoing_messages' =
       [mid \in {m \in DOMAIN outgoing_messages : ~Expired(m)} |-> Checked(mid)]

\* The end of poll: ackp.poll()
PollAcks ==
  /\ at = "acks"
  /\ at' = "idle"
  /\ timer' = FALSE
  /\ IF timer THEN CheckAcks ELSE UNCHANGED <<outgoing_messages, reports>>
  /\ UNCHANGED <<cont, wrapper, connected, rx, outbox, store, outside, inputs>>

\* Time passes (up to MaxAge), and the interval fires
Older(by) ==
  outgoing_messages' =
    [mid \in DOMAIN outgoing_messages |->
       [outgoing_messages[mid] EXCEPT !.age =
          IF @ + by \in -1 .. MaxAge THEN @ + by ELSE @]]

Tick ==
  /\ at = "idle"
  /\ Older(1)
  /\ timer' = TRUE
  /\ UNCHANGED <<loop, wrapper, connected, rx, outbox, store, outside, reports, inputs>>

-----------------------------------------------------------------------------
(* Commands *)

\* Mutant: the loop does not go on after a command
TakeOnce(c) ==
  /\ at = "commands" /\ rx # <<>> /\ Head(rx).c = c
  /\ rx' = Tail(rx)
  /\ UNCHANGED loop

Take(c) ==
  /\ at = "commands" /\ rx # <<>> /\ Head(rx).c = c
  /\ rx' = Tail(rx) /\ cont' = TRUE
  /\ UNCHANGED at

StartRegistration ==
  /\ Take("setup")
  /\ Initialize(0)
  /\ UNCHANGED <<connected, outbox, outgoing_messages, timer, store, outside, reports, inputs>>

LogonIfSaved ==
  /\ Take("logon")
  /\ IF saved # 0 THEN Initialize(saved) ELSE UNCHANGED wrapper
  /\ UNCHANGED <<connected, outbox, outgoing_messages, timer, store, outside, reports, inputs>>

GroupRemove ==
  /\ Take("ungroup")
  /\ bridged' = FALSE
  /\ UNCHANGED <<wrapper, connected, outbox, outgoing_messages, timer, saved, outside, reports, inputs>>

\* SendDirectMessage to what is no phone number, SendGroupMessage to a
\* channel without a group
SendNowhere(m) ==
  /\ CASE To[m] = "bad" -> ReportFailures({[what |-> "bad", about |-> <<m, 0>>]})
       [] To[m] = "group" /\ ~bridged -> UNCHANGED reports
       [] OTHER -> FALSE
  /\ UNCHANGED <<outbox, outgoing_messages>>

Reachable(m) == To[m] = "direct" \/ (To[m] = "group" /\ bridged)

QueueMessage(m) ==
  /\ Reachable(m)
  /\ ~(connected /\ inner = "Running")
  /\ RegisterSend(<<m, 1>>, TRUE)
  /\ ReportFailures(IF inner = "Disabled" THEN {[what |-> "nosetup", about |-> <<m, 1>>]} ELSE {})
  /\ UNCHANGED outbox

SendMessage(m) ==
  /\ Reachable(m)
  /\ connected /\ inner = "Running"
  /\ RegisterSend(<<m, 1>>, FALSE)
  /\ outbox' = Append(outbox, <<m, 1>>)
  /\ UNCHANGED reports

Send ==
  /\ Take("send")
  /\ LET m == Head(rx).msg IN SendNowhere(m) \/ QueueMessage(m) \/ SendMessage(m)
  /\ UNCHANGED <<wrapper, connected, timer, store, outside, inputs>>

NoMoreCommands ==
  /\ at = "commands" /\ rx = <<>>
  /\ at' = "outbox"
  /\ UNCHANGED <<cont, wrapper, connected, rx, outbox, outgoing_messages, timer, store, outside,
                 reports, inputs>>

-----------------------------------------------------------------------------
(* The outbox *)

\* The end of an iteration of the loop: again, if there was a command
EndIteration == at' = (IF cont THEN "events" ELSE "acks") /\ cont' = FALSE

unmoved == <<rx, outgoing_messages, timer, store, told, written>>

\* Mutant: the request is looked at, but not popped
HandKeeping ==
  /\ at = "outbox" /\ outbox # <<>> /\ inner = "Running"
  /\ UNCHANGED outbox

Hand ==
  /\ at = "outbox" /\ outbox # <<>> /\ inner = "Running"
  /\ outbox' = Tail(outbox)

\* start_send takes the message.  Without a session it may get nowhere.
HandOver ==
  /\ Hand
  /\ server' \in {Append(server, Head(outbox))} \cup (IF session THEN {} ELSE {server})
  /\ UNCHANGED <<loop, wrapper, connected, reports, inputs, unmoved>>

\* start_send answers NotReady: the message it gives back is dropped
HandOverNotReady ==
  /\ Input("notready")
  /\ Hand
  /\ UNCHANGED <<loop, wrapper, connected, reports, server, unmoved>>

\* start_send fails: the message is gone, the others stay for the next poll
HandOverFails(e) ==
  /\ Input("sendfail")
  /\ Hand
  /\ OnWaError(e)
  /\ EndIteration
  /\ UNCHANGED <<server, unmoved>>

\* Disconnected, so what is in the outbox is discarded
Discard ==
  /\ at = "outbox" /\ outbox # <<>> /\ inner # "Running"
  /\ outbox' = <<>>
  /\ EndIteration
  /\ UNCHANGED <<wrapper, connected, reports, server, inputs, unmoved>>

OutboxEmpty ==
  /\ at = "outbox" /\ outbox = <<>>
  /\ EndIteration
  /\ UNCHANGED <<wrapper, connected, outbox, reports, server, inputs, unmoved>>

-----------------------------------------------------------------------------
(* Between polls, and the whole *)

\* Mutant: the interval does not wake the manager
WakeWithoutTimer ==
  /\ at = "idle"
  /\ rx # <<>> \/ (polled /\ inner # "Disabled")
  /\ at' = "events"
  /\ UNCHANGED <<cont, wrapper, connected, rx, outbox, outgoing_messages, timer, store, outside,
                 reports, inputs>>

\* The reactor polls the manager: the timer, a command, or the connection
Wake ==
  /\ at = "idle"
  /\ timer \/ rx # <<>> \/ (polled /\ inner # "Disabled")
  /\ at' = "events"
  /\ UNCHANGED <<cont, wrapper, connected, rx, outbox, outgoing_messages, timer, store, outside,
                 reports, inputs>>

untouched == <<loop, wrapper, connected, outbox, outgoing_messages, timer, store, server, told,
               reports>>

\* The link puts what the administrator writes on the channel
Write(m) ==
  /\ at = "idle" /\ m \notin written
  /\ written' = written \cup {m}
  /\ rx' = Append(rx, [c |-> "send", msg |-> m])
  /\ UNCHANGED <<inputs, untouched>>

Order(c) ==
  /\ Input(c) /\ at = "idle"
  /\ rx' = Append(rx, [c |-> c])
  /\ UNCHANGED <<written, untouched>>

\* The clock is set back
ClockSetBack ==
  /\ Input("clock") /\ at = "idle"
  /\ Older(-1)
  /\ UNCHANGED <<loop, wrapper, connected, rx, outbox, timer, store, outside, reports>>

\* The process dies, for itself or by a failing poll_complete
Crash ==
  /\ Input("crash")
  /\ at' = "idle" /\ cont' = FALSE /\ polled' = FALSE
  /\ inner' = "Disabled" /\ persist' = 0 /\ connected' = FALSE /\ session' = FALSE
  /\ rx' = <<[c |-> "logon"]>> /\ outbox' = <<>>
  /\ outgoing_messages' = Empty /\ timer' = FALSE
  /\ UNCHANGED <<store, outside, reports>>

Poll ==
  \/ Wake \/ NoMoreEvents
  \/ StartRegistration \/ LogonIfSaved \/ GroupRemove \/ Send \/ NoMoreCommands
  \/ HandOver \/ HandOverNotReady \/ Discard \/ OutboxEmpty
  \/ \E e \in Failures : HandOverFails(e)
  \/ PollAcks

Connection ==
  \/ DelayElapsed \/ ConnectDone \/ ConnectFails \/ OnEstablished
  \/ \E e \in Failures : ConnectionFails(e)
  \/ \E mid \in Elements(server), level \in Levels : OnMessageAck(mid, level)

Next ==
  \/ Poll
  \/ Connection
  \/ Tick \/ ClockSetBack
  \/ \E m \in Msgs : Write(m)
  \/ \E c \in {"setup", "logon", "ungroup"} : Order(c)
  \/ Crash

\* The reactor polls what is ready.  Time passes, however often the manager
\* is polled, and a delay that has elapsed is seen at some poll (both are
\* only possible at some places of the loop, hence strong fairness).
\* WhatsApp owes us nothing.
Spec ==
  /\ Init /\ [][Next]_vars
  /\ WF_vars(Poll) /\ SF_vars(Tick) /\ SF_vars(DelayElapsed)

-----------------------------------------------------------------------------
(* Properties *)

\* A message is conveyed to WhatsApp at most once, whatever connections are
\* made, broken and made again (AtMostOnce).
Waiting ==
  LET queued == {c \in Elements(rx) : c.c = "send"} IN
  {c.msg : c \in queued} \cup {mid[1] : mid \in Unsent \cup Elements(outbox)}

Queue == INSTANCE AtMostOnce
           WITH used <- written, waiting <- Waiting,
                delivered <- [i \in DOMAIN server |-> server[i][1]]

ConveyedAtMostOnce == Queue!Spec

\* While there is a session, nothing waits for one: what was written before
\* was sent when it began, and what is written now is sent at once.
SessionFlushes == session => connected /\ inner = "Running" /\ Unsent = {}

\* The user is alerted once that an id is late, and once that it is pending,
\* however often the timer fires and the clock jumps.
AlertedOnce ==
  \A r \in BagToSet(reports) :
    r.what \in {"unsent", "slow", "pending"} => reports[r] = 1

\* The comment at the head of poll: after a command that changed it, the
\* connection is polled before poll returns, so that it can wake the manager.
PolledAgain == at = "idle" /\ inner \in {"Initializing", "Running"} => polled

\* The connection is only given up when the user is told (or was not set up).
NotGivenUp ==
  inner = "Disabled" /\ saved # 0 =>
    \/ [c |-> "logon"] \in Elements(rx)
    \/ [what |-> "removed", about |-> <<>>] \in BagToSet(reports)

\* A message written is acknowledged or reported: none is lost silently,
\* by whatever connections fail under it.
Answered(m) ==
  \/ \E r \in BagToSet(reports) : r.about # <<>> /\ r.about[1] = m
  \/ \E t \in told : t[1][1] = m /\ t[2] \in {"ok", "error"}
NotLostSilently == \A m \in Msgs : m \in written ~> Answered(m)

\* After a failure, another attempt is made.
TriesAgain == inner = "Waiting" ~> inner # "Waiting"
=============================================================================
