------------------------------ MODULE ModemSms ------------------------------
(***************************************************************************)
(* SMS through the modem: ModemManager (modem.rs), the commands it has     *)
(* spawned, and the modem that executes them.                              *)
(*                                                                         *)
(* A poll of the manager polls the connection and then handles every       *)
(* ModemCommand; spawned commands, timers and the modem run between polls. *)
(* From outside src/ (huawei_modem): one command is at the modem at a      *)
(* time; one that is not answered blocks those behind it as long as the    *)
(* connection lasts; the commands of a connection that is dropped fail.    *)
(*                                                                         *)
(* Left out: signal and registration queries, and the parts of a long SMS. *)
(***************************************************************************)
EXTENDS Naturals, FiniteSets, SequencesExt, Maps

CONSTANTS
  Sms,      \* SMS that people send us
  Texts,    \* SMS that the user sends
  Events,   \* the kinds of outside events that may happen
  MaxJobs,  \* bound: neither the timer nor a new connection adds to so
            \* many listings and deletions
  MaxInputs \* bound: outside events in a behaviour

VARIABLES
  inner,    \* ModemInner
  path,     \* modem_path is set
  urc,      \* a +CMTI indication of this connection is there to be read
  stuck,    \* the command at the modem will not be answered
  jobs,     \* spawned commands, in the order they were issued
  rx,       \* ModemCommands
  polling,  \* the manager is in poll
  sim,      \* storage of the modem: SMS -> "unread" or "read"
  stored,   \* the SMS that were stored in the database, in this order
  sent,     \* the SMS of ours that were sent, in this order
  failed,   \* those that were reported as failed
  arrived,  \* the SMS that have arrived at the modem
  written,  \* the SMS the user wrote
  missed,   \* the SMS that were listed, but of whose listing the manager
            \* never got the result, or died before it had stored them
  inputs    \* how many outside events have happened

device == <<sim, sent>>
history == <<arrived, written, missed>>
vars == <<inner, path, urc, stuck, jobs, rx, polling, sim, stored, sent, failed,
          arrived, written, missed, inputs>>

-----------------------------------------------------------------------------
Command == [c : {"cmgl", "cmglfailed", "timeout", "reinit"}]
      \cup [c : {"complete"}, found : SUBSET Sms]
      \cup [c : {"path"}, to : BOOLEAN]
      \cup [c : {"send"}, text : Texts]

\* A command: "answered" with the unread messages of a list, or "failed"
\* (refused by the modem, or of a connection that was dropped)
Job == [op : {"list", "delete"}, status : {"queued", "answered", "failed"}, found : SUBSET Sms]
  \cup [op : {"send"}, status : {"queued", "answered", "failed"}, text : Texts]

List    == [op |-> "list", status |-> "queued", found |-> {}]
Delete  == [op |-> "delete", status |-> "queued", found |-> {}]
Send(t) == [op |-> "send", status |-> "queued", text |-> t]

ASSUME ModemAssumption ==
  /\ IsFiniteSet(Sms)
  /\ MaxJobs \in Nat /\ MaxInputs \in Nat

\* Commands that can be answered belong to the present connection
TypeOK ==
  /\ inner \in {"Uninitialized", "Disabled", "Waiting", "Initializing", "Running"}
  /\ path \in BOOLEAN /\ urc \in BOOLEAN /\ stuck \in BOOLEAN /\ polling \in BOOLEAN
  /\ jobs \in Seq(Job)
  /\ rx \in Seq(Command)
  /\ IsPartial(sim, Sms, {"unread", "read"})
  /\ stored \in Seq(Sms) /\ sent \in Seq(Texts)
  /\ failed \subseteq Texts /\ written \subseteq Texts
  /\ arrived \subseteq Sms /\ missed \subseteq Sms
  /\ inputs \in 0 .. MaxInputs
  /\ inner # "Running" =>
       ~urc /\ ~stuck /\ \A i \in DOMAIN jobs : jobs[i].status = "failed"

\* ModemManager::new, with a modem_path configured
Init ==
  /\ inner = "Uninitialized" /\ path = TRUE /\ urc = FALSE /\ stuck = FALSE
  /\ jobs = <<>> /\ rx = <<[c |-> "cmgl"]>> /\ polling = FALSE
  /\ sim = Empty /\ stored = <<>> /\ sent = <<>>
  /\ failed = {} /\ arrived = {} /\ written = {} /\ missed = {} /\ inputs = 0

Input(e) == e \in Events /\ inputs < MaxInputs /\ inputs' = inputs + 1

-----------------------------------------------------------------------------
(* The connection *)

\* ModemInner::poll: what becomes of a state.  A delay has elapsed or not;
\* the modem can be opened or not; its configuration ends, fails, or goes on.
Opened(p) == IF p THEN {"Initializing", "Waiting"} ELSE {"Disabled"}
Polled(state, p) ==
  CASE state = "Uninitialized" -> Opened(p)
    [] state = "Waiting"       -> {"Waiting"} \cup Opened(p)
    [] state = "Initializing"  -> {"Initializing", "Waiting", "Running"}
    [] OTHER                   -> {state}

\* What was listed, and is not stored yet
Found(js) ==
  UNION {js[i].found : i \in {j \in DOMAIN js : js[j].op = "list" /\ js[j].status = "answered"}}
InHand == Found(jobs) \cup UNION {c.found : c \in {d \in Elements(rx) : d.c = "complete"}}
Unread == {m \in DOMAIN sim : sim[m] = "unread"}

Listings == {i \in DOMAIN jobs : jobs[i].op # "send"}

\* Mutant: what was answered is still taken
DroppedLate(js) ==
  [i \in DOMAIN js |-> IF js[i].status = "queued" THEN [js[i] EXCEPT !.status = "failed"] ELSE js[i]]

\* The commands of a connection that is dropped, and that were not answered,
\* or whose answers were not read
Dropped(js) ==
  [i \in DOMAIN js |-> [js[i] EXCEPT !.status = "failed"]]

\* report_error (the connection is dropped) and poll_modem
Reset(delayed, p) ==
  /\ inner' \in (IF delayed THEN {"Waiting"} ELSE Polled("Waiting", p))
  /\ urc' = FALSE /\ stuck' = FALSE
  /\ jobs' = Dropped(jobs)
  /\ missed' = missed \cup (Found(jobs) \ Found(jobs'))

\* poll_modem, at the beginning of poll: a new connection is listed at once,
\* and one that has indicated a message is listed (poll_urc_rx)
PollModem ==
  /\ inner' \in Polled(inner, path)
  /\ inner' = "Running" /\ inner # "Running" => Cardinality(Listings) < MaxJobs
  /\ urc' = FALSE
  /\ jobs' = jobs \o (IF inner' = "Running" /\ inner # "Running" THEN <<List>> ELSE <<>>)
                  \o (IF urc THEN <<List>> ELSE <<>>)
  /\ UNCHANGED stuck

StartPoll ==
  /\ ~polling
  /\ rx # <<>> \/ urc \/ inner \in {"Uninitialized", "Waiting", "Initializing"}
  /\ polling' = TRUE
  /\ PollModem
  /\ UNCHANGED <<path, rx, device, stored, failed, history, inputs>>

\* poll_urc_rx finds that the indications have ended: the modem is gone
StartPollUnplugged ==
  /\ Input("unplug")
  /\ ~polling /\ inner = "Running"
  /\ polling' = TRUE
  /\ Reset(TRUE, path)
  /\ UNCHANGED <<path, rx, device, stored, failed, arrived, written>>

EndPoll ==
  /\ polling /\ rx = <<>>
  /\ polling' = FALSE
  /\ UNCHANGED <<inner, path, urc, stuck, jobs, rx, device, stored, failed, history, inputs>>

-----------------------------------------------------------------------------
(* The commands of the manager *)

Take(c) == polling /\ rx # <<>> /\ Head(rx).c = c /\ rx' = Tail(rx)

Issue(js) == jobs' = IF inner = "Running" THEN jobs \o js ELSE jobs

Cmgl ==
  /\ Take("cmgl")
  /\ Issue(<<List>>)
  /\ UNCHANGED <<inner, path, urc, stuck, polling, device, stored, failed, history, inputs>>

\* cmgl_complete: the unread messages are stored, one after the other
StoreSms(m) ==
  /\ polling /\ rx # <<>> /\ Head(rx).c = "complete" /\ m \in Head(rx).found
  /\ stored' = Append(stored, m)
  /\ rx' = [rx EXCEPT ![1].found = @ \ {m}]
  /\ UNCHANGED <<inner, path, urc, stuck, jobs, polling, device, failed, history, inputs>>

\* and in the end those that are read are deleted from the modem
CmglComplete ==
  /\ Take("complete")
  /\ Head(rx).found = {}
  /\ Issue(<<Delete>>)
  /\ UNCHANGED <<inner, path, urc, stuck, polling, device, stored, failed, history, inputs>>

CmglFailed ==
  /\ Take("cmglfailed")
  /\ Reset(TRUE, path)
  /\ UNCHANGED <<path, polling, device, stored, failed, arrived, written, inputs>>

CommandTimeout ==
  /\ Take("timeout")
  /\ Reset(FALSE, path)
  /\ UNCHANGED <<path, polling, device, stored, failed, arrived, written, inputs>>

ForceReinit ==
  /\ Take("reinit")
  /\ Reset(FALSE, path)
  /\ UNCHANGED <<path, polling, device, stored, failed, arrived, written, inputs>>

UpdatePath ==
  /\ Take("path")
  /\ path' = Head(rx).to
  /\ Reset(FALSE, path')
  /\ UNCHANGED <<polling, device, stored, failed, arrived, written, inputs>>

\* Mutant: without a modem the text is dropped in silence
SendMessageIfPossible ==
  /\ Take("send")
  /\ Issue(<<Send(Head(rx).text)>>)
  /\ UNCHANGED <<inner, path, urc, stuck, polling, device, stored, failed, history, inputs>>

SendMessage ==
  /\ Take("send")
  /\ Issue(<<Send(Head(rx).text)>>)
  /\ failed' = IF inner = "Running" THEN failed ELSE failed \cup {Head(rx).text}
  /\ UNCHANGED <<inner, path, urc, stuck, polling, device, stored, history, inputs>>

-----------------------------------------------------------------------------
(* The modem, between polls *)

With(i, job) == jobs' = [jobs EXCEPT ![i] = job]

\* The next command; none is sent before the last is answered
IsNext(i) ==
  /\ ~stuck
  /\ jobs[i].status = "queued"
  /\ \A j \in DOMAIN jobs : jobs[j].status # "answered"
  /\ \A j \in 1 .. i - 1 : jobs[j].status # "queued"

\* Mutant: everything is deleted
EffectDeletingAll(job) ==
  CASE job.op = "list"   -> /\ sim' = [m \in DOMAIN sim |-> "read"]
                            /\ UNCHANGED sent
    [] job.op = "delete" -> sim' = Empty /\ UNCHANGED sent
    [] job.op = "send"   -> sent' = Append(sent, job.text) /\ UNCHANGED sim

\* Listing marks as read; DeleteReadAndOutgoing
Effect(job) ==
  CASE job.op = "list"   -> /\ sim' = [m \in DOMAIN sim |-> "read"]
                            /\ UNCHANGED sent
    [] job.op = "delete" -> sim' = [m \in Unread |-> "unread"] /\ UNCHANGED sent
    [] job.op = "send"   -> sent' = Append(sent, job.text) /\ UNCHANGED sim

\* Mutant: a list is taken with the messages that were read
AnswerAll(job) ==
  IF job.op = "list" THEN [job EXCEPT !.status = "answered", !.found = DOMAIN sim]
  ELSE [job EXCEPT !.status = "answered"]

\* The messages of a list that cmgl_complete does not skip
Answer(job) ==
  IF job.op = "list" THEN [job EXCEPT !.status = "answered", !.found = Unread]
  ELSE [job EXCEPT !.status = "answered"]

modem == <<inner, path, urc, rx, polling, stored, failed, arrived, written>>

Execute(i) ==
  /\ ~polling /\ IsNext(i)
  /\ Effect(jobs[i])
  /\ With(i, Answer(jobs[i]))
  /\ UNCHANGED <<stuck, missed, inputs, modem>>

\* The modem answers ERROR
Refuse(i) ==
  /\ Input("error")
  /\ ~polling /\ IsNext(i)
  /\ With(i, [jobs[i] EXCEPT !.status = "failed"])
  /\ UNCHANGED <<stuck, missed, device, modem>>

\* The modem does not answer, and has executed the command or not
LoseAnswer(i) ==
  /\ Input("lost")
  /\ ~polling /\ IsNext(i)
  /\ \/ /\ Effect(jobs[i])
        /\ missed' = IF jobs[i].op = "list" THEN missed \cup Unread ELSE missed
     \/ UNCHANGED <<device, missed>>
  /\ stuck' = TRUE
  /\ UNCHANGED <<jobs, modem>>

\* It is +CMTI that an open connection gets
SmsArrives(m) ==
  /\ ~polling /\ m \notin arrived
  /\ arrived' = arrived \cup {m}
  /\ sim' = Put(sim, m, "unread")
  /\ urc' = (urc \/ inner = "Running")
  /\ UNCHANGED <<inner, path, stuck, jobs, rx, polling, stored, sent, failed, written, missed, inputs>>

-----------------------------------------------------------------------------
(* The spawned commands, between polls *)

\* The first of those of its kind
Outcome(i, commands) ==
  /\ ~polling
  /\ \A j \in 1 .. i - 1 : jobs[j].op # jobs[i].op \/ jobs[j].status # jobs[i].status
  /\ jobs' = RemoveAt(jobs, i)
  /\ rx' = rx \o commands
  /\ UNCHANGED <<inner, path, urc, stuck, polling, device, stored, history, inputs>>

Resolve(i) ==
  /\ jobs[i].status = "answered"
  /\ Outcome(i, IF jobs[i].op = "list" THEN <<[c |-> "complete", found |-> jobs[i].found]>>
                ELSE <<>>)
  /\ UNCHANGED failed

\* What the failure of a command is told to the manager.  command_timeout!
\* reports every error as a timeout; a failed list is reported once more.
Failure(op) ==
  CASE op = "list"   -> <<[c |-> "timeout"], [c |-> "cmglfailed"]>>
    [] op = "delete" -> <<[c |-> "timeout"]>>
    [] op = "send"   -> <<>>

\* Mutant: sending is tried again
FailRetrying(i) ==
  /\ jobs[i].status = "failed"
  /\ Outcome(i, IF jobs[i].op = "send" THEN <<[c |-> "send", text |-> jobs[i].text]>>
                ELSE Failure(jobs[i].op))
  /\ UNCHANGED failed

Fail(i) ==
  /\ jobs[i].status = "failed"
  /\ Outcome(i, Failure(jobs[i].op))
  /\ failed' = IF jobs[i].op = "send" THEN failed \cup {jobs[i].text} ELSE failed

\* Mutant: a list has no timeout
TimeoutOfDeletion(i) ==
  /\ stuck
  /\ jobs[i].status = "queued" /\ jobs[i].op = "delete"
  /\ Outcome(i, Failure(jobs[i].op))
  /\ UNCHANGED failed

\* command_timeout!, which sending does not have
Timeout(i) ==
  /\ stuck
  /\ jobs[i].status = "queued" /\ jobs[i].op # "send"
  /\ Outcome(i, Failure(jobs[i].op))
  /\ UNCHANGED failed

-----------------------------------------------------------------------------
(* The rest *)

Queue(c) ==
  /\ ~polling
  /\ rx' = Append(rx, c)
  /\ UNCHANGED <<inner, path, urc, stuck, jobs, polling, device, stored, failed, arrived, missed>>

\* The interval of cmgl_secs
Timer ==
  /\ [c |-> "cmgl"] \notin Elements(rx) /\ Cardinality(Listings) < MaxJobs
  /\ Queue([c |-> "cmgl"])
  /\ UNCHANGED <<written, inputs>>

\* The user writes an SMS, or commands about the modem
Write(t) ==
  /\ t \notin written
  /\ Queue([c |-> "send", text |-> t])
  /\ written' = written \cup {t}
  /\ UNCHANGED inputs

Order(c) ==
  /\ Input(c.c)
  /\ Queue(c)
  /\ UNCHANGED written

\* The process dies, perhaps while it stores what was listed
Crash ==
  /\ Input("crash")
  /\ inner' = "Uninitialized" /\ path' = TRUE /\ urc' = FALSE /\ stuck' = FALSE
  /\ jobs' = <<>> /\ rx' = <<[c |-> "cmgl"]>> /\ polling' = FALSE
  /\ missed' = missed \cup InHand
  /\ UNCHANGED <<device, stored, failed, arrived, written>>

Manager ==
  \/ StartPoll \/ EndPoll
  \/ Cmgl \/ (\E m \in Sms : StoreSms(m)) \/ CmglComplete \/ CmglFailed \/ CommandTimeout \/ ForceReinit \/ UpdatePath
  \/ SendMessage

\* At the modem: at most one command is answered and not resolved
Works       == \E i \in DOMAIN jobs : Execute(i) \/ Resolve(i)
TimesOut    == \E i \in DOMAIN jobs : Timeout(i)
ListFails   == \E i \in Listings : Fail(i)
SendFails   == \E i \in DOMAIN jobs \ Listings : Fail(i)

Next ==
  \/ Manager \/ StartPollUnplugged
  \/ Works \/ TimesOut \/ ListFails \/ SendFails \/ Timer
  \/ \E i \in DOMAIN jobs : Refuse(i) \/ LoseAnswer(i)
  \/ \E m \in Sms : SmsArrives(m)
  \/ \E t \in Texts : Write(t)
  \/ \E c \in [c : {"reinit"}] \cup [c : {"path"}, to : BOOLEAN] : Order(c)
  \/ Crash

\* The reactor polls the manager and the spawned commands, the timers fire,
\* and the modem goes on executing what it gets; all but a poll of the
\* manager are only possible between two polls, hence strong fairness.
Spec ==
  /\ Init /\ [][Next]_vars
  /\ WF_vars(Manager)
  /\ SF_vars(Works) /\ SF_vars(TimesOut) /\ SF_vars(ListFails) /\ SF_vars(SendFails)
  /\ SF_vars(Timer)

-----------------------------------------------------------------------------
(* Properties *)

\* An SMS is stored at most once, although listings overlap, are cut short
\* and repeated after a restart.
StoredQueue == INSTANCE AtMostOnce
                 WITH used <- arrived, waiting <- Unread \cup InHand, delivered <- stored
StoredAtMostOnce == StoredQueue!Spec

\* An SMS of the user is sent at most once: what failed is not tried again.
Outgoing ==
  {c.text : c \in {d \in Elements(rx) : d.c = "send"}}
  \cup {jobs[i].text : i \in {j \in DOMAIN jobs : jobs[j].op = "send" /\ jobs[j].status = "queued"}}
SentQueue == INSTANCE AtMostOnce
               WITH used <- written, waiting <- Outgoing \ Elements(sent), delivered <- sent
SentAtMostOnce == SentQueue!Spec

\* A text of the user waits, is with the modem, was sent, or the user was told
\* that it was not (ReportFailure): a reset that fails the commands of a
\* connection, a modem that is not there, an answer that is not read, lose none.
\* Only those that are in the memory of a process that dies are forgotten.
Accounted ==
  {c.text : c \in {d \in Elements(rx) : d.c = "send"}}
  \cup {jobs[i].text : i \in DOMAIN jobs \ Listings} \cup Elements(sent) \cup failed
OnlyDeathForgets == [][Crash \/ (written \ Accounted)' \subseteq written \ Accounted]_vars

\* No SMS is deleted from the modem before it was stored, unless the result
\* of a listing that had it was lost, or the process died over it: what comes
\* between a listing and the deletion that follows is kept.
OnlyMissedLost == arrived \subseteq Unread \cup InHand \cup Elements(stored) \cup missed

\* README.md: "Reasonably tolerant of modem flakiness".  No SMS gets lost.
NothingLost == arrived \subseteq Unread \cup InHand \cup Elements(stored)

\* What the user wrote is sent, or he is told that it is not: sending has no
\* timeout, but the listings behind it have.
SendAnswered == \A t \in Texts : t \in written ~> t \in failed \cup Elements(sent)
=============================================================================
