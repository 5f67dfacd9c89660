--------------------------- MODULE ModemSmsProofs ----------------------------
(***************************************************************************)
(* Proofs about ModemSms: types, and where an SMS may be while listings    *)
(* overlap, are not answered and are repeated.                             *)
(***************************************************************************)
EXTENDS ModemSms, MapsProofs, FiniteSetTheorems

-----------------------------------------------------------------------------
(* Types *)

\* The commands that the manager issues are of their types, and so are their
\* outcomes.
LEMMA JobTypes ==
  /\ List \in Job /\ Delete \in Job /\ \A t \in Texts : Send(t) \in Job
  /\ List.status = "queued" /\ Delete.status = "queued" /\ List.op = "list" /\ Delete.op = "delete"
  /\ \A t \in Texts : Send(t).status = "queued" /\ Send(t).op = "send" /\ Send(t).text = t
  /\ \A job \in Job : /\ [job EXCEPT !.status = "failed"] \in Job
                      /\ [job EXCEPT !.status = "failed"].op = job.op
                      /\ [job EXCEPT !.status = "failed"].status = "failed"
                      /\ job.op = "list" \/ job.op = "delete" \/ job.op = "send"
                      /\ job.op = "send" => job.text \in Texts
                      /\ job.op # "send" => job.found \subseteq Sms
BY DEF List, Delete, Send, Job

\* A spawned command that is through leaves the others in their order.
LEMMA RemoveAtType ==
  ASSUME NEW S, NEW s \in Seq(S), NEW i \in DOMAIN s
  PROVE  /\ RemoveAt(s, i) \in Seq(S)
         /\ DOMAIN RemoveAt(s, i) = 1 .. Len(s) - 1 /\ Len(s) \in Nat \ {0}
         /\ \A j \in 1 .. Len(s) - 1 : RemoveAt(s, i)[j] = s[IF j < i THEN j ELSE j + 1]
<1> DEFINE a == SubSeq(s, 1, i - 1)
           b == SubSeq(s, i + 1, Len(s))
<1>1. i \in 1 .. Len(s) /\ Len(s) \in Nat /\ i - 1 \in Int /\ i + 1 \in Int /\ DOMAIN s = 1 .. Len(s)
  OBVIOUS
<1>2. \A j \in 1 .. i - 1 : j \in 1 .. Len(s)
  BY <1>1
<1>3. \A j \in i + 1 .. Len(s) : j \in 1 .. Len(s)
  BY <1>1
<1>4. \A j \in 1 .. Len(s) : s[j] \in S
  OBVIOUS
<1>5. /\ a \in Seq(S) /\ Len(a) = i - 1
      /\ \A j \in 1 .. i - 1 : a[j] = s[j]
  <2>1. /\ a \in Seq(S) /\ Len(a) = IF 1 <= i - 1 THEN i - 1 - 1 + 1 ELSE 0
        /\ \A j \in 1 .. i - 1 - 1 + 1 : a[j] = s[1 + j - 1]
    BY <1>1, <1>2, <1>4, SubSeqProperties
  <2>2. \A j \in 1 .. i - 1 : j \in 1 .. i - 1 - 1 + 1 /\ 1 + j - 1 = j
    BY <1>1
  <2>3. Len(a) = i - 1
    BY <1>1, <2>1
  <2> QED
    BY <2>1, <2>2, <2>3
<1>6. /\ b \in Seq(S) /\ Len(b) = Len(s) - i
      /\ \A j \in 1 .. Len(s) - i : b[j] = s[i + j]
  <2>1. /\ b \in Seq(S) /\ Len(b) = IF i + 1 <= Len(s) THEN Len(s) - (i + 1) + 1 ELSE 0
        /\ \A j \in 1 .. Len(s) - (i + 1) + 1 : b[j] = s[i + 1 + j - 1]
    BY <1>1, <1>3, <1>4, SubSeqProperties
  <2>3. Len(b) = Len(s) - i
    <3> HIDE DEF b
    <3>1. CASE i + 1 <= Len(s)
      BY <1>1, <2>1, <3>1
    <3>2. CASE i = Len(s)
      BY <1>1, <2>1, <3>2
    <3> QED
      BY <1>1, <3>1, <3>2
  <2>4. ASSUME NEW j \in 1 .. Len(s) - i
        PROVE  b[j] = s[i + j]
    <3>1. j \in 1 .. Len(s) - (i + 1) + 1 /\ i + 1 + j - 1 = i + j
      BY <1>1
    <3>2. b[j] = s[i + 1 + j - 1]
      BY <2>1, <3>1
    <3> QED
      BY <3>1, <3>2
  <2> QED
    BY <2>1, <2>3, <2>4
<1> HIDE DEF a, b
<1>7. RemoveAt(s, i) = a \o b
  BY DEF RemoveAt, a, b
<1>8. /\ a \o b \in Seq(S) /\ Len(a \o b) = Len(a) + Len(b)
      /\ \A j \in 1 .. Len(a) + Len(b) : (a \o b)[j] = IF j <= Len(a) THEN a[j] ELSE b[j - Len(a)]
  BY <1>5, <1>6, ConcatProperties
<1>9. Len(a) + Len(b) = Len(s) - 1
  BY <1>1, <1>5, <1>6
<1>10. ASSUME NEW j \in 1 .. Len(s) - 1
       PROVE  (a \o b)[j] = s[IF j < i THEN j ELSE j + 1]
  <2>1. CASE j < i
    <3>1. j \in 1 .. i - 1 /\ j <= Len(a)
      BY <1>1, <1>5, <2>1
    <3> QED
      BY <1>5, <1>8, <1>9, <2>1, <3>1
  <2>2. CASE ~(j < i)
    <3>1. j - (i - 1) \in 1 .. Len(s) - i /\ i + (j - (i - 1)) = j + 1 /\ ~(j <= Len(a))
      BY <1>1, <1>5, <2>2
    <3>2. (a \o b)[j] = b[j - (i - 1)]
      BY <1>5, <1>8, <1>9, <3>1
    <3>3. b[j - (i - 1)] = s[j + 1]
      BY <1>6, <3>1
    <3> QED
      BY <2>2, <3>2, <3>3
  <2> QED
    BY <2>1, <2>2
<1>13. Len(s) \in Nat \ {0}
  BY <1>1
<1>14. Len(a \o b) = Len(s) - 1
  <2>1. Len(a \o b) = Len(a) + Len(b)
    BY <1>8
  <2> QED
    BY <1>9, <2>1, Zenon
<1>12. Len(a \o b) = Len(s) - 1 /\ Len(s) \in Nat \ {0}
  BY <1>13, <1>14
<1>11. DOMAIN (a \o b) = 1 .. Len(s) - 1 /\ Len(s) \in Nat \ {0}
  <2> DEFINE c == a \o b
  <2>1. c \in Seq(S) /\ Len(c) = Len(s) - 1
    BY <1>8, <1>12
  <2> HIDE DEF c
  <2>2. DOMAIN c = 1 .. Len(s) - 1
    BY <2>1
  <2> QED
    BY <1>12, <2>2 DEF c
<1> QED
  BY <1>7, <1>8, <1>10, <1>11

\* A command that is at the head of rx is a proper one, and those behind it
\* stay.
LEMMA CommandAtHand ==
  ASSUME TypeOK, rx # <<>>
  PROVE  /\ Tail(rx) \in Seq(Command) /\ Head(rx) \in Command
         /\ Elements(rx) = {Head(rx)} \cup Elements(Tail(rx))
         /\ Head(rx).c = "send" => Head(rx).text \in Texts
         /\ Head(rx).c = "path" => Head(rx).to \in BOOLEAN
         /\ Head(rx).c = "complete" => Head(rx).found \subseteq Sms
<1>1. Tail(rx) \in Seq(Command) /\ Head(rx) \in Command
  BY SeqType DEF TypeOK
<1>2. Elements(rx) = {Head(rx)} \cup Elements(Tail(rx))
  BY ElementsOf DEF TypeOK
<1> QED
  BY <1>1, <1>2 DEF Command

\* What the connection may become.
LEMMA PolledTypes ==
  ASSUME TypeOK, NEW p \in BOOLEAN
  PROVE  /\ Polled("Waiting", p) \subseteq {"Waiting", "Initializing", "Disabled"}
         /\ \A state \in {"Uninitialized", "Disabled", "Waiting", "Initializing", "Running"} :
              Polled(state, p) \subseteq {"Uninitialized", "Disabled", "Waiting", "Initializing", "Running"}
         /\ inner = "Running" => Polled(inner, p) = {"Running"}
BY DEF Polled, Opened, TypeOK

\* Dropping a connection fails every command that it had.
LEMMA DroppedTypes ==
  ASSUME TypeOK
  PROVE  /\ Dropped(jobs) \in Seq(Job) /\ DOMAIN Dropped(jobs) = DOMAIN jobs
         /\ \A i \in DOMAIN jobs : Dropped(jobs)[i].status = "failed" /\ Dropped(jobs)[i].op = jobs[i].op
         /\ Found(Dropped(jobs)) = {} /\ Found(jobs) \subseteq Sms
<1>1. jobs \in Seq(Job) /\ DOMAIN jobs = 1 .. Len(jobs) /\ Len(jobs) \in Nat
  BY DEF TypeOK
<1>2. \A i \in DOMAIN jobs : jobs[i] \in Job
  BY <1>1
<1>3. \A i \in DOMAIN jobs : /\ [jobs[i] EXCEPT !.status = "failed"] \in Job
                             /\ [jobs[i] EXCEPT !.status = "failed"].status = "failed"
                             /\ [jobs[i] EXCEPT !.status = "failed"].op = jobs[i].op
  BY <1>2, JobTypes
<1>4. Dropped(jobs) \in [1 .. Len(jobs) -> Job]
  BY <1>1, <1>3 DEF Dropped
<1>5. Dropped(jobs) \in Seq(Job) /\ DOMAIN Dropped(jobs) = DOMAIN jobs
  BY <1>1, <1>4
<1>6. \A i \in DOMAIN jobs : Dropped(jobs)[i].status = "failed" /\ Dropped(jobs)[i].op = jobs[i].op
  BY <1>3 DEF Dropped
<1>7. Found(Dropped(jobs)) = {}
  BY <1>5, <1>6 DEF Found
<1>8. Found(jobs) \subseteq Sms
  <2>1. ASSUME NEW i \in DOMAIN jobs, jobs[i].op = "list", jobs[i].status = "answered"
        PROVE  jobs[i].found \subseteq Sms
    <3>1. jobs[i] \in Job
      BY <1>2
    <3> QED
      BY <2>1, <3>1, JobTypes
  <2> QED
    BY <2>1 DEF Found
<1> QED
  BY <1>5, <1>6, <1>7, <1>8

\* report_error and poll_modem leave a connection that is not running, and all
\* of its commands failed.
LEMMA ResetTypes ==
  ASSUME TypeOK, NEW p \in BOOLEAN, NEW delayed \in BOOLEAN, Reset(delayed, p)
  PROVE  /\ inner' \in {"Waiting", "Initializing", "Disabled"}
         /\ urc' = FALSE /\ stuck' = FALSE
         /\ jobs' = Dropped(jobs) /\ jobs' \in Seq(Job)
         /\ \A i \in DOMAIN jobs' : jobs'[i].status = "failed"
         /\ missed' = missed \cup Found(jobs) /\ missed' \subseteq Sms
<1>1. jobs' = Dropped(jobs) /\ urc' = FALSE /\ stuck' = FALSE
  BY DEF Reset
<1>2. missed' = missed \cup (Found(jobs) \ Found(jobs'))
  BY DEF Reset
<1>3. inner' \in {"Waiting", "Initializing", "Disabled"}
  BY PolledTypes DEF Reset
<1> QED
  BY <1>1, <1>2, <1>3, DroppedTypes DEF TypeOK

\* Storing one of the messages of a listing takes it out of the command, and
\* leaves the others.
LEMMA StoreSmsShape ==
  ASSUME TypeOK, NEW m \in Sms, StoreSms(m)
  PROVE  /\ rx' \in Seq(Command) /\ DOMAIN rx' = DOMAIN rx /\ 1 \in DOMAIN rx
         /\ \A i \in DOMAIN rx : rx'[i].c = rx[i].c /\ (i # 1 => rx'[i] = rx[i])
         /\ rx[1].c = "complete" /\ m \in rx[1].found /\ rx'[1].found = rx[1].found \ {m}
<1>1. rx \in Seq(Command) /\ rx # <<>> /\ Head(rx).c = "complete" /\ m \in Head(rx).found
  BY DEF StoreSms, TypeOK
<1>2. 1 \in DOMAIN rx /\ Head(rx) = rx[1] /\ rx[1] \in Command
  BY <1>1, HeadTailProperties, EmptySeq
<1>3. rx[1] = [c |-> "complete", found |-> rx[1].found] /\ rx[1].found \subseteq Sms
  BY <1>1, <1>2 DEF Command
<1>4. rx' = [rx EXCEPT ![1].found = @ \ {m}]
  BY DEF StoreSms
<1>5. /\ DOMAIN rx' = DOMAIN rx /\ \A i \in DOMAIN rx : i # 1 => rx'[i] = rx[i]
      /\ rx'[1] = [rx[1] EXCEPT !.found = @ \ {m}]
  BY <1>1, <1>2, <1>4
<1>6. rx'[1] = [c |-> "complete", found |-> rx[1].found \ {m}]
  BY <1>3, <1>5
<1>7. rx'[1] \in Command
  BY <1>3, <1>6 DEF Command
<1>8. rx' \in Seq(Command)
  <2>1. rx' \in [1 .. Len(rx) -> Command] /\ Len(rx) \in Nat
    <3>1. rx \in [1 .. Len(rx) -> Command] /\ Len(rx) \in Nat
      BY <1>1
    <3>2. rx' = [rx EXCEPT ![1] = rx'[1]]
      BY <1>4, <1>5
    <3> DEFINE v == rx'[1]
    <3>3. v \in Command /\ rx' = [rx EXCEPT ![1] = v]
      BY <1>7, <3>2
    <3> HIDE DEF v
    <3> QED
      BY <3>1, <3>3
  <2> QED
    BY <2>1
<1>9. \A i \in DOMAIN rx : rx'[i].c = rx[i].c
  BY <1>3, <1>5, <1>6
<1> QED
  BY <1>1, <1>2, <1>5, <1>6, <1>8, <1>9

\* Issuing a command to a connection that is there, or dropping it.
LEMMA IssueTypes ==
  ASSUME TypeOK, NEW job \in Job, Issue(<<job>>)
  PROVE  /\ jobs' \in Seq(Job)
         /\ inner = "Running" => jobs' = Append(jobs, job)
         /\ inner # "Running" => jobs' = jobs
<1>1. jobs \in Seq(Job)
  BY DEF TypeOK
<1>2. jobs \o <<job>> = Append(jobs, job) /\ Append(jobs, job) \in Seq(Job)
  BY <1>1
<1> QED
  BY <1>1, <1>2 DEF Issue

\* The jobs after ModemInner::poll: one listing for a new connection, and one
\* for an indication.
LEMMA PollModemTypes ==
  ASSUME TypeOK, PollModem
  PROVE  /\ inner' \in {"Uninitialized", "Disabled", "Waiting", "Initializing", "Running"}
         /\ urc' = FALSE /\ stuck' = stuck
         /\ \/ jobs' = jobs
            \/ jobs' = Append(jobs, List) /\ inner' = "Running"
         /\ jobs' \in Seq(Job)
         /\ inner' # "Running" => inner # "Running"
<1>1. path \in BOOLEAN /\ jobs \in Seq(Job) /\ (inner # "Running" => ~urc)
  BY DEF TypeOK
<1>2. inner' \in Polled(inner, path)
  BY DEF PollModem
<1>3. /\ inner' \in {"Uninitialized", "Disabled", "Waiting", "Initializing", "Running"}
      /\ inner = "Running" => inner' = "Running"
  BY <1>1, <1>2, PolledTypes DEF TypeOK
<1> DEFINE j == jobs
           l == List
<1>4. j \in Seq(Job) /\ l \in Job
  BY <1>1, JobTypes
<1>7. /\ jobs' = (j \o (IF inner' = "Running" /\ inner # "Running" THEN <<l>> ELSE <<>>))
                     \o (IF urc THEN <<l>> ELSE <<>>)
      /\ urc' = FALSE /\ stuck' = stuck
  BY DEF PollModem
<1> HIDE DEF j, l
<1>5. j \o <<>> = j /\ j \o <<l>> = Append(j, l) /\ Append(j, l) \in Seq(Job)
  BY <1>4
<1>6. CASE inner' = "Running" /\ inner # "Running"
  <2>1. jobs' = (j \o <<l>>) \o <<>>
    BY <1>1, <1>6, <1>7
  <2>2. (j \o <<l>>) \o <<>> = j \o <<l>>
    BY <1>4
  <2> QED
    BY <1>3, <1>5, <1>6, <1>7, <2>1, <2>2 DEF j, l
<1>8. CASE ~(inner' = "Running" /\ inner # "Running")
  <2>1. jobs' = j \o (IF urc THEN <<l>> ELSE <<>>)
    BY <1>5, <1>7, <1>8
  <2>2. CASE urc
    <3>1. jobs' = Append(j, l) /\ inner' = "Running" /\ inner = "Running"
      BY <1>1, <1>3, <1>5, <2>1, <2>2
    <3> QED
      BY <1>3, <1>5, <1>7, <3>1 DEF j, l
  <2>3. CASE ~urc
    <3>1. jobs' = j
      BY <1>5, <2>1, <2>3
    <3> QED
      BY <1>1, <1>3, <1>7, <3>1 DEF j
  <2> QED
    BY <2>2, <2>3
<1> QED
  BY <1>6, <1>8

\* The steps of the manager keep the types.
LEMMA ManagerKeepsTypes ==
  ASSUME TypeOK, Manager \/ StartPollUnplugged
  PROVE  TypeOK'
<1> USE DEF device, history
<1>1. CASE StartPoll
  <2>1. PollModem /\ polling' = TRUE
        /\ UNCHANGED <<path, rx, sim, sent, stored, failed, arrived, written, missed, inputs>>
    BY <1>1 DEF StartPoll
  <2>2. inner' # "Running" => ~urc' /\ ~stuck' /\ \A i \in DOMAIN jobs' : jobs'[i].status = "failed"
    BY <2>1, PollModemTypes DEF TypeOK
  <2> QED
    BY <2>1, <2>2, PollModemTypes DEF TypeOK
<1>2. CASE StartPollUnplugged \/ CmglFailed \/ CommandTimeout \/ ForceReinit \/ UpdatePath
  <2>1. path' \in BOOLEAN /\ rx' \in Seq(Command) /\ polling' \in BOOLEAN
    BY <1>2, CommandAtHand
    DEF StartPollUnplugged, CmglFailed, CommandTimeout, ForceReinit, UpdatePath, Take, TypeOK
  <2>2. UNCHANGED <<sim, sent, stored, failed, arrived, written>> /\ inputs' \in 0 .. MaxInputs
    <3>1. CASE StartPollUnplugged
      BY <3>1, ModemAssumption DEF StartPollUnplugged, Input, TypeOK
    <3>2. CASE CmglFailed \/ CommandTimeout \/ ForceReinit \/ UpdatePath
      BY <3>2 DEF CmglFailed, CommandTimeout, ForceReinit, UpdatePath, TypeOK
    <3> QED
      BY <1>2, <3>1, <3>2
  <2>3. \E delayed, p \in BOOLEAN : Reset(delayed, p)
    BY <1>2, <2>1 DEF StartPollUnplugged, CmglFailed, CommandTimeout, ForceReinit, UpdatePath, TypeOK
  <2>4. /\ inner' \in {"Waiting", "Initializing", "Disabled"}
        /\ urc' = FALSE /\ stuck' = FALSE /\ jobs' \in Seq(Job) /\ missed' \subseteq Sms
        /\ \A i \in DOMAIN jobs' : jobs'[i].status = "failed"
    BY <2>3, ResetTypes
  <2> QED
    BY <2>1, <2>2, <2>4 DEF TypeOK
<1>3. CASE EndPoll
  BY <1>3 DEF EndPoll, TypeOK
<1>4. CASE Cmgl \/ CmglComplete \/ SendMessage
  <2>1. /\ rx' \in Seq(Command) /\ failed' \subseteq Texts
        /\ UNCHANGED <<inner, path, urc, stuck, polling, sim, sent, stored, arrived, written, missed, inputs>>
    BY <1>4, CommandAtHand DEF Cmgl, CmglComplete, SendMessage, Take, TypeOK
  <2>2. \E job \in Job : Issue(<<job>>)
    BY <1>4, JobTypes, CommandAtHand DEF Cmgl, CmglComplete, SendMessage, Take
  <2>3. jobs' \in Seq(Job) /\ (inner # "Running" => jobs' = jobs)
    BY <2>2, IssueTypes
  <2> QED
    BY <2>1, <2>3 DEF TypeOK
<1>5. ASSUME NEW m \in Sms, StoreSms(m)
      PROVE  TypeOK'
  <2>1. stored' \in Seq(Sms)
    BY <1>5 DEF StoreSms, TypeOK
  <2> QED
    BY <1>5, <2>1, StoreSmsShape DEF StoreSms, TypeOK
<1> QED
  BY <1>1, <1>2, <1>3, <1>4, <1>5 DEF Manager

\* Changing one command leaves the others.
LEMMA WithType ==
  ASSUME TypeOK, NEW i \in DOMAIN jobs, NEW job \in Job, With(i, job)
  PROVE  /\ jobs' \in Seq(Job) /\ DOMAIN jobs' = DOMAIN jobs /\ jobs'[i] = job
         /\ \A j \in DOMAIN jobs : j # i => jobs'[j] = jobs[j]
<1>1. jobs \in [1 .. Len(jobs) -> Job] /\ Len(jobs) \in Nat /\ DOMAIN jobs = 1 .. Len(jobs)
  BY DEF TypeOK
<1>2. jobs' = [jobs EXCEPT ![i] = job]
  BY DEF With
<1>3. jobs' \in [1 .. Len(jobs) -> Job]
  BY <1>1, <1>2
<1> QED
  BY <1>1, <1>2, <1>3

\* The answer to a command: what is unread, of a listing.
LEMMA AnswerType ==
  ASSUME TypeOK, NEW i \in DOMAIN jobs
  PROVE  /\ jobs[i] \in Job /\ Answer(jobs[i]) \in Job
         /\ Answer(jobs[i]).op = jobs[i].op /\ Answer(jobs[i]).status = "answered"
         /\ jobs[i].op = "list" => Answer(jobs[i]).found = Unread
         /\ Unread \subseteq Sms
<1>1. jobs[i] \in Job
  BY DEF TypeOK
<1>2. Unread \subseteq Sms
  BY DEF Unread, TypeOK, IsPartial
<1>3. CASE jobs[i].op = "list"
  BY <1>1, <1>2, <1>3 DEF Answer, Job
<1>4. CASE jobs[i].op # "list"
  BY <1>1, <1>2, <1>4 DEF Answer, Job
<1> QED
  BY <1>1, <1>2, <1>3, <1>4

\* What a command does to the modem.
LEMMA EffectTypes ==
  ASSUME TypeOK, NEW job \in Job, Effect(job)
  PROVE  /\ IsPartial(sim', Sms, {"unread", "read"}) /\ sent' \in Seq(Texts)
         /\ job.op = "list" => Unread' = {} /\ sent' = sent
         /\ job.op = "delete" => Unread' = Unread /\ sent' = sent
         /\ job.op = "send" => Unread' = Unread /\ sent' = Append(sent, job.text)
         /\ DOMAIN sim' \subseteq DOMAIN sim
<1>1. CASE job.op = "list"
  BY <1>1 DEF Effect, Unread, TypeOK, IsPartial
<1>2. CASE job.op = "delete"
  BY <1>2 DEF Effect, Unread, TypeOK, IsPartial
<1>3. CASE job.op = "send"
  <2>1. job.text \in Texts /\ sim' = sim /\ sent' = Append(sent, job.text)
    BY <1>3, JobTypes DEF Effect
  <2> QED
    BY <1>3, <2>1 DEF Unread, TypeOK
<1> QED
  BY <1>1, <1>2, <1>3, JobTypes

\* A command that is through goes, and the manager is told.
LEMMA OutcomeTypes ==
  ASSUME TypeOK, NEW i \in DOMAIN jobs, NEW commands \in Seq(Command), Outcome(i, commands)
  PROVE  /\ jobs' \in Seq(Job) /\ rx' = rx \o commands /\ rx' \in Seq(Command)
         /\ DOMAIN jobs' = 1 .. Len(jobs) - 1 /\ DOMAIN jobs = 1 .. Len(jobs) /\ Len(jobs) \in Nat \ {0}
         /\ \A j \in DOMAIN jobs' : jobs'[j] = jobs[IF j < i THEN j ELSE j + 1]
         /\ \A j \in DOMAIN jobs' : (IF j < i THEN j ELSE j + 1) \in DOMAIN jobs \ {i}
<1>1. jobs \in Seq(Job) /\ rx \in Seq(Command) /\ rx' = rx \o commands /\ jobs' = RemoveAt(jobs, i)
  BY DEF Outcome, TypeOK
<1>2. /\ jobs' \in Seq(Job) /\ DOMAIN jobs' = 1 .. Len(jobs) - 1 /\ Len(jobs) \in Nat \ {0}
      /\ \A j \in DOMAIN jobs' : jobs'[j] = jobs[IF j < i THEN j ELSE j + 1]
  BY <1>1, RemoveAtType
<1>3. rx' \in Seq(Command)
  BY <1>1
<1>4. DOMAIN jobs = 1 .. Len(jobs)
  BY <1>1
<1>5. \A j \in DOMAIN jobs' : (IF j < i THEN j ELSE j + 1) \in DOMAIN jobs \ {i}
  BY <1>2, <1>4
<1> QED
  BY <1>1, <1>2, <1>3, <1>4, <1>5

\* What the spawned commands tell the manager are commands of its.
LEMMA OutcomeCommands ==
  ASSUME TypeOK, NEW i \in DOMAIN jobs
  PROVE  /\ jobs[i] \in Job
         /\ Failure(jobs[i].op) \in Seq(Command)
         /\ (IF jobs[i].op = "list" THEN <<[c |-> "complete", found |-> jobs[i].found]>> ELSE <<>>)
               \in Seq(Command)
<1>1. jobs[i] \in Job
  BY DEF TypeOK
<1>2. [c |-> "timeout"] \in Command /\ [c |-> "cmglfailed"] \in Command
  BY DEF Command
<1>3. Failure(jobs[i].op) \in Seq(Command)
  <2> DEFINE a == [c |-> "timeout"]
             b == [c |-> "cmglfailed"]
  <2>1. /\ jobs[i].op \in {"list", "delete", "send"}
        /\ Failure("list") = <<a, b>> /\ Failure("delete") = <<a>> /\ Failure("send") = <<>>
    BY <1>1, JobTypes DEF Failure
  <2>2. a \in Command /\ b \in Command
    BY <1>2
  <2> HIDE DEF a, b
  <2>3. <<a, b>> \in Seq(Command) /\ <<a>> \in Seq(Command) /\ <<>> \in Seq(Command)
    BY <2>2
  <2> QED
    BY <2>1, <2>3
<1>4. jobs[i].op = "list" => [c |-> "complete", found |-> jobs[i].found] \in Command
  BY <1>1, JobTypes DEF Command
<1> QED
  BY <1>1, <1>3, <1>4

\* The steps of the modem, of the spawned commands, and from outside keep the
\* types.
LEMMA OthersKeepTypes ==
  ASSUME TypeOK, [Next]_vars, ~(Manager \/ StartPollUnplugged)
  PROVE  TypeOK'
<1> USE DEF device, history
<1>1. ASSUME NEW i \in DOMAIN jobs, Execute(i)
      PROVE  TypeOK'
  <2>1. With(i, Answer(jobs[i])) /\ Effect(jobs[i]) /\ jobs[i].status = "queued"
    BY <1>1 DEF Execute, IsNext
  <2>2. jobs' \in Seq(Job) /\ IsPartial(sim', Sms, {"unread", "read"}) /\ sent' \in Seq(Texts)
    BY <2>1, AnswerType, WithType, EffectTypes
  <2>3. inner = "Running"
    BY <2>1 DEF TypeOK
  <2> QED
    BY <1>1, <2>2, <2>3 DEF Execute, modem, TypeOK
<1>2. ASSUME NEW i \in DOMAIN jobs, Refuse(i)
      PROVE  TypeOK'
  <2> DEFINE job == [jobs[i] EXCEPT !.status = "failed"]
  <2>1. With(i, job) /\ jobs[i].status = "queued" /\ job \in Job
    BY <1>2, AnswerType, JobTypes DEF Refuse, IsNext
  <2> HIDE DEF job
  <2>2. jobs' \in Seq(Job)
    BY <2>1, WithType
  <2>3. inner = "Running" /\ inputs' \in 0 .. MaxInputs
    BY <1>2, <2>1, ModemAssumption DEF Refuse, Input, TypeOK
  <2> QED
    BY <1>2, <2>2, <2>3 DEF Refuse, modem, TypeOK
<1>3. ASSUME NEW i \in DOMAIN jobs, LoseAnswer(i)
      PROVE  TypeOK'
  <2>1. jobs[i].status = "queued" /\ jobs' = jobs /\ stuck' = TRUE
        /\ UNCHANGED <<inner, path, urc, rx, polling, stored, failed, arrived, written>>
    BY <1>3 DEF LoseAnswer, IsNext, modem
  <2>2. IsPartial(sim', Sms, {"unread", "read"}) /\ sent' \in Seq(Texts) /\ missed' \subseteq Sms
    BY <1>3, AnswerType, EffectTypes DEF LoseAnswer, TypeOK
  <2>3. inner = "Running" /\ inputs' \in 0 .. MaxInputs
    BY <1>3, <2>1, ModemAssumption DEF LoseAnswer, Input, TypeOK
  <2> QED
    BY <2>1, <2>2, <2>3 DEF TypeOK
<1>4. ASSUME NEW i \in DOMAIN jobs, Resolve(i) \/ Fail(i) \/ Timeout(i)
      PROVE  TypeOK'
  <2>1. /\ jobs[i] \in Job /\ failed' \subseteq Texts
        /\ \E commands \in Seq(Command) : Outcome(i, commands)
    <3>1. jobs[i] \in Job /\ (jobs[i].op = "send" => jobs[i].text \in Texts)
      BY OutcomeCommands, JobTypes
    <3>2. failed' \subseteq Texts
      BY <1>4, <3>1 DEF Resolve, Fail, Timeout, TypeOK
    <3>3. CASE Resolve(i)
      BY <3>1, <3>2, <3>3, OutcomeCommands DEF Resolve
    <3>4. CASE Fail(i) \/ Timeout(i)
      <4>1. Outcome(i, Failure(jobs[i].op))
        BY <3>4 DEF Fail, Timeout
      <4> QED
        BY <3>1, <3>2, <4>1, OutcomeCommands
    <3> QED
      BY <1>4, <3>3, <3>4
  <2>2. PICK commands \in Seq(Command) : Outcome(i, commands)
    BY <2>1
  <2>3. jobs' \in Seq(Job) /\ rx' \in Seq(Command)
    BY <2>2, OutcomeTypes
  <2>4. inner' # "Running" => \A j \in DOMAIN jobs' : jobs'[j].status = "failed"
    <3>1. inner' = inner /\ (inner # "Running" => \A j \in DOMAIN jobs : jobs[j].status = "failed")
      BY <2>2 DEF Outcome, TypeOK
    <3>2. \A j \in DOMAIN jobs' : \E k \in DOMAIN jobs : jobs'[j] = jobs[k]
      BY <2>2, OutcomeTypes
    <3> QED
      BY <3>1, <3>2
  <2> QED
    BY <2>1, <2>2, <2>3, <2>4 DEF Outcome, TypeOK
<1>5. ASSUME NEW com \in Command, Queue(com), written' \subseteq Texts, inputs' \in 0 .. MaxInputs
      PROVE  TypeOK'
  <2>1. rx' \in Seq(Command)
    BY <1>5 DEF Queue, TypeOK
  <2> QED
    BY <1>5, <2>1 DEF Queue, TypeOK
<1>6. CASE Timer
  <2>1. [c |-> "cmgl"] \in Command
    BY DEF Command
  <2>2. Queue([c |-> "cmgl"]) /\ written' \subseteq Texts /\ inputs' \in 0 .. MaxInputs
    BY <1>6 DEF Timer, TypeOK
  <2> QED
    BY <1>5, <2>1, <2>2
<1>7. ASSUME NEW t \in Texts, Write(t)
      PROVE  TypeOK'
  <2>1. [c |-> "send", text |-> t] \in Command
    BY DEF Command
  <2>2. Queue([c |-> "send", text |-> t]) /\ written' \subseteq Texts /\ inputs' \in 0 .. MaxInputs
    BY <1>7 DEF Write, TypeOK
  <2> QED
    BY <1>5, <2>1, <2>2
<1>8. ASSUME NEW com \in [c : {"reinit"}] \cup [c : {"path"}, to : BOOLEAN], Order(com)
      PROVE  TypeOK'
  <2>1. com \in Command
    BY DEF Command
  <2>2. Queue(com) /\ written' \subseteq Texts /\ inputs' \in 0 .. MaxInputs
    BY <1>8, ModemAssumption DEF Order, Input, TypeOK
  <2> QED
    BY <1>5, <2>1, <2>2
<1>9. ASSUME NEW m \in Sms, SmsArrives(m)
      PROVE  TypeOK'
  <2>1. IsPartial(sim', Sms, {"unread", "read"})
    BY <1>9, PutType DEF SmsArrives, TypeOK
  <2>2. urc' \in BOOLEAN /\ (inner # "Running" => ~urc') /\ arrived' \subseteq Sms
    BY <1>9 DEF SmsArrives, TypeOK
  <2> QED
    BY <1>9, <2>1, <2>2 DEF SmsArrives, TypeOK
<1>10. CASE Crash
  <2>1. jobs' = <<>> /\ jobs' \in Seq(Job)
    BY <1>10 DEF Crash
  <2>2. rx' \in Seq(Command)
    BY <1>10 DEF Crash, Command
  <2>3. InHand \subseteq Sms
    <3>1. \A c \in Elements(rx) : c.c = "complete" => c.found \subseteq Sms
      <4>1. Elements(rx) \subseteq Command
        BY ElementsOf DEF TypeOK
      <4> QED
        BY <4>1 DEF Command
    <3> QED
      BY <3>1, DroppedTypes DEF InHand
  <2>4. missed' \subseteq Sms /\ inputs' \in 0 .. MaxInputs
    BY <1>10, <2>3, ModemAssumption DEF Crash, Input, TypeOK
  <2>5. \A i \in DOMAIN jobs' : jobs'[i].status = "failed"
    BY <2>1
  <2> QED
    BY <1>10, <2>1, <2>2, <2>4, <2>5 DEF Crash, TypeOK
<1>11. CASE UNCHANGED vars
  BY <1>11 DEF vars, TypeOK
<1>12. CASE Works \/ TimesOut \/ ListFails \/ SendFails
  BY <1>1, <1>4, <1>12 DEF Works, TimesOut, ListFails, SendFails, Listings
<1> QED
  BY <1>2, <1>3, <1>6, <1>7, <1>8, <1>9, <1>10, <1>11, <1>12 DEF Next

\* Whatever is refused, lost or unplugged, every variable keeps its type, and
\* only a connection that is running has commands that can be answered.
THEOREM ModemTypes == Spec => []TypeOK
<1>1. Init => TypeOK
  <2> SUFFICES ASSUME Init
               PROVE  TypeOK
    OBVIOUS
  <2>1. rx \in Seq(Command) /\ jobs \in Seq(Job) /\ jobs = <<>>
    BY DEF Init, Command
  <2>2. IsPartial(sim, Sms, {"unread", "read"}) /\ stored \in Seq(Sms) /\ sent \in Seq(Texts)
    BY EmptyType DEF Init
  <2>3. \A i \in DOMAIN jobs : jobs[i].status = "failed"
    BY <2>1
  <2>4. inputs \in 0 .. MaxInputs
    BY ModemAssumption DEF Init
  <2> QED
    BY <2>1, <2>2, <2>3, <2>4 DEF Init, TypeOK
<1>2. TypeOK /\ [Next]_vars => TypeOK'
  BY ManagerKeepsTypes, OthersKeepTypes
<1> QED
  BY <1>1, <1>2, PTL DEF Spec

-----------------------------------------------------------------------------
(* Where an SMS may be *)

\* What cmgl_complete has still to store.
Completed(s) == UNION {c.found : c \in {d \in Elements(s) : d.c = "complete"}}

\* Where the SMS that have arrived are looked for.
Kept == Unread \cup (Found(jobs) \cup Completed(rx)) \cup Elements(stored) \cup missed

\* As long as no answered listing is changed, what was listed stays known.
LEMMA FoundStays ==
  ASSUME NEW js, NEW ks,
         \A i \in DOMAIN js : js[i].op = "list" /\ js[i].status = "answered"
                                => \E k \in DOMAIN ks : ks[k] = js[i]
  PROVE  Found(js) \subseteq Found(ks)
BY DEF Found

\* A further command that waits to be executed has found nothing yet.
LEMMA FoundAppend ==
  ASSUME NEW js \in Seq(Job), NEW job \in Job
  PROVE  Found(js) \subseteq Found(Append(js, job))
<1>1. DOMAIN js = 1 .. Len(js) /\ DOMAIN Append(js, job) = 1 .. Len(js) + 1 /\ Len(js) \in Nat
  OBVIOUS
<1>2. \A i \in DOMAIN js : i \in DOMAIN Append(js, job) /\ Append(js, job)[i] = js[i]
  BY <1>1
<1> QED
  BY <1>2, FoundStays

\* More commands of rx: nothing of what was complete goes.
LEMMA CompletedGrows ==
  ASSUME NEW s \in Seq(Command), NEW r \in Seq(Command)
  PROVE  Completed(s \o r) = Completed(s) \cup Completed(r)
<1>1. Elements(s \o r) = Elements(s) \cup Elements(r)
  BY ElementsOf
<1> QED
  BY <1>1 DEF Completed

\* A command that is taken off rx, when it is no listing with a message left.
LEMMA CompletedTaken ==
  ASSUME TypeOK, rx # <<>>, Head(rx).c = "complete" => Head(rx).found = {}
  PROVE  Completed(Tail(rx)) = Completed(rx)
BY CommandAtHand DEF Completed

\* The manager keeps what it has: only what Reset gives up is missed.
LEMMA ManagerKeeps ==
  ASSUME TypeOK, Manager \/ StartPollUnplugged
  PROVE  Kept \subseteq Kept'
<1> USE DEF device, history
<1>1. SUFFICES /\ Unread' = Unread
               /\ Found(jobs) \subseteq Found(jobs') \cup missed'
               /\ Completed(rx) \subseteq Completed(rx') \cup Elements(stored')
               /\ Elements(stored) \subseteq Elements(stored')
               /\ missed \subseteq missed'
  BY DEF Kept
<1>2. sim' = sim
  BY DEF Manager, StartPollUnplugged, StartPoll, EndPoll, Cmgl, StoreSms, CmglComplete, CmglFailed,
         CommandTimeout, ForceReinit, UpdatePath, SendMessage
<1>3. Unread' = Unread
  BY <1>2 DEF Unread
<1>4. CASE StartPoll
  <2>1. jobs' = jobs \/ jobs' = Append(jobs, List)
    BY <1>4, PollModemTypes DEF StartPoll
  <2>2. Found(jobs) \subseteq Found(jobs')
    BY <2>1, FoundAppend, JobTypes DEF TypeOK
  <2> QED
    BY <1>3, <1>4, <2>2 DEF StartPoll
<1>5. CASE StartPollUnplugged \/ CmglFailed \/ CommandTimeout \/ ForceReinit \/ UpdatePath
  <2>1. stored' = stored /\ (rx' = rx \/ (rx # <<>> /\ rx' = Tail(rx) /\ Head(rx).c # "complete"))
    BY <1>5 DEF StartPollUnplugged, CmglFailed, CommandTimeout, ForceReinit, UpdatePath, Take
  <2>2. Completed(rx') = Completed(rx)
    BY <2>1, CompletedTaken
  <2>3. path' \in BOOLEAN
    BY <1>5, CommandAtHand
    DEF StartPollUnplugged, CmglFailed, CommandTimeout, ForceReinit, UpdatePath, Take, TypeOK
  <2>4. \E delayed, p \in BOOLEAN : Reset(delayed, p)
    BY <1>5, <2>3 DEF StartPollUnplugged, CmglFailed, CommandTimeout, ForceReinit, UpdatePath, TypeOK
  <2>5. missed' = missed \cup Found(jobs)
    BY <2>4, ResetTypes
  <2> QED
    BY <1>3, <2>1, <2>2, <2>5
<1>6. CASE EndPoll
  BY <1>3, <1>6 DEF EndPoll
<1>7. CASE Cmgl \/ CmglComplete \/ SendMessage
  <2>1. /\ stored' = stored /\ missed' = missed /\ rx # <<>> /\ rx' = Tail(rx)
        /\ Head(rx).c = "complete" => Head(rx).found = {}
    BY <1>7 DEF Cmgl, CmglComplete, SendMessage, Take
  <2>2. Completed(rx') = Completed(rx)
    BY <2>1, CompletedTaken
  <2>3. \E job \in Job : Issue(<<job>>)
    BY <1>7, JobTypes, CommandAtHand DEF Cmgl, CmglComplete, SendMessage, Take
  <2>4. Found(jobs) \subseteq Found(jobs')
    BY <2>3, IssueTypes, FoundAppend DEF TypeOK
  <2> QED
    BY <1>3, <2>1, <2>2, <2>4
<1>8. ASSUME NEW m \in Sms, StoreSms(m)
      PROVE  /\ Found(jobs) \subseteq Found(jobs') \cup missed'
             /\ Completed(rx) \subseteq Completed(rx') \cup Elements(stored')
             /\ Elements(stored) \subseteq Elements(stored')
             /\ missed \subseteq missed'
  <2>1. jobs' = jobs /\ missed' = missed /\ stored' = Append(stored, m)
    BY <1>8 DEF StoreSms
  <2>2. Elements(stored') = Elements(stored) \cup {m}
    BY <2>1, ElementsOf DEF TypeOK
  <2>3. ASSUME NEW n \in Completed(rx), n # m
        PROVE  n \in Completed(rx')
    <3>1. PICK i \in DOMAIN rx : rx[i].c = "complete" /\ n \in rx[i].found
      BY <2>3 DEF Completed, Elements
    <3>2. i \in DOMAIN rx' /\ rx'[i].c = "complete" /\ n \in rx'[i].found
      BY <1>8, <2>3, <3>1, StoreSmsShape
    <3> QED
      BY <3>2 DEF Completed, Elements
  <2> QED
    BY <2>1, <2>2, <2>3
<1> QED
  BY <1>3, <1>4, <1>5, <1>6, <1>7, <1>8 DEF Manager

\* Changing a command that was not answered loses nothing that was listed.
LEMMA FoundWith ==
  ASSUME TypeOK, NEW i \in DOMAIN jobs, NEW job \in Job, With(i, job), jobs[i].status # "answered"
  PROVE  /\ Found(jobs) \subseteq Found(jobs')
         /\ job.op = "list" /\ job.status = "answered" => job.found \subseteq Found(jobs')
<1>1. /\ DOMAIN jobs' = DOMAIN jobs /\ jobs'[i] = job
      /\ \A j \in DOMAIN jobs : j # i => jobs'[j] = jobs[j]
  BY WithType
<1>2. Found(jobs) \subseteq Found(jobs')
  BY <1>1, FoundStays
<1>3. job.op = "list" /\ job.status = "answered" => job.found \subseteq Found(jobs')
  BY <1>1 DEF Found
<1> QED
  BY <1>2, <1>3

\* A command that is through takes along what it has found only.
LEMMA FoundOutcome ==
  ASSUME TypeOK, NEW i \in DOMAIN jobs, NEW commands \in Seq(Command), Outcome(i, commands)
  PROVE  Found(jobs) \subseteq Found(jobs')
           \cup (IF jobs[i].op = "list" /\ jobs[i].status = "answered" THEN jobs[i].found ELSE {})
<1>1. \A j \in DOMAIN jobs : j # i => \E k \in DOMAIN jobs' : jobs'[k] = jobs[j]
  <2> SUFFICES ASSUME NEW j \in DOMAIN jobs, j # i
               PROVE  \E k \in DOMAIN jobs' : jobs'[k] = jobs[j]
    OBVIOUS
  <2>1. /\ DOMAIN jobs' = 1 .. Len(jobs) - 1 /\ DOMAIN jobs = 1 .. Len(jobs) /\ Len(jobs) \in Nat \ {0}
        /\ \A k \in DOMAIN jobs' : jobs'[k] = jobs[IF k < i THEN k ELSE k + 1]
    BY OutcomeTypes
  <2>2. CASE j < i
    <3>1. j \in DOMAIN jobs'
      BY <2>1, <2>2
    <3> QED
      BY <2>1, <2>2, <3>1
  <2>3. CASE ~(j < i)
    <3>1. j - 1 \in DOMAIN jobs' /\ ~(j - 1 < i) /\ j - 1 + 1 = j
      BY <2>1, <2>3
    <3> QED
      BY <2>1, <3>1
  <2> QED
    BY <2>2, <2>3
<1> QED
  BY <1>1 DEF Found

\* What the modem, the spawned commands and the world do: only a listing whose
\* answer is lost, and the death of the process, make SMS missed.
LEMMA OthersKeep ==
  ASSUME TypeOK, [Next]_vars, ~(Manager \/ StartPollUnplugged), arrived \subseteq Kept
  PROVE  arrived' \subseteq Kept'
<1> USE DEF device, history
<1>1. ASSUME NEW i \in DOMAIN jobs, Execute(i)
      PROVE  Kept \subseteq Kept' /\ arrived' = arrived
  <2>1. /\ With(i, Answer(jobs[i])) /\ Effect(jobs[i]) /\ jobs[i].status = "queued"
        /\ UNCHANGED <<rx, stored, missed, arrived>>
    BY <1>1 DEF Execute, IsNext, modem
  <2>2. Found(jobs) \subseteq Found(jobs')
    BY <2>1, AnswerType, FoundWith
  <2>3. Unread \subseteq Unread' \cup Found(jobs')
    <3>1. CASE jobs[i].op = "list"
      BY <2>1, <3>1, AnswerType, FoundWith
    <3>2. CASE jobs[i].op # "list"
      BY <2>1, <3>2, AnswerType, EffectTypes, JobTypes
    <3> QED
      BY <3>1, <3>2
  <2> QED
    BY <2>1, <2>2, <2>3 DEF Kept
<1>2. ASSUME NEW i \in DOMAIN jobs, Refuse(i)
      PROVE  Kept \subseteq Kept' /\ arrived' = arrived
  <2> DEFINE job == [jobs[i] EXCEPT !.status = "failed"]
  <2>1. /\ With(i, job) /\ jobs[i].status = "queued" /\ job \in Job
        /\ UNCHANGED <<rx, stored, missed, arrived, sim>>
    BY <1>2, AnswerType, JobTypes DEF Refuse, IsNext, modem
  <2> HIDE DEF job
  <2>2. Found(jobs) \subseteq Found(jobs') /\ Unread' = Unread
    BY <2>1, FoundWith DEF Unread
  <2> QED
    BY <2>1, <2>2 DEF Kept
<1>3. ASSUME NEW i \in DOMAIN jobs, LoseAnswer(i)
      PROVE  Kept \subseteq Kept' /\ arrived' = arrived
  <2>1. UNCHANGED <<rx, stored, jobs, arrived>>
    BY <1>3 DEF LoseAnswer, modem
  <2>2. Unread \cup missed \subseteq Unread' \cup missed'
    <3>1. CASE Effect(jobs[i]) /\ missed' = IF jobs[i].op = "list" THEN missed \cup Unread ELSE missed
      BY <3>1, AnswerType, EffectTypes, JobTypes
    <3>2. CASE UNCHANGED <<sim, sent, missed>>
      BY <3>2 DEF Unread
    <3> QED
      BY <1>3, <3>1, <3>2 DEF LoseAnswer
  <2> QED
    BY <2>1, <2>2 DEF Kept
<1>4. ASSUME NEW i \in DOMAIN jobs, NEW commands \in Seq(Command), Outcome(i, commands),
             jobs[i].op = "list" /\ jobs[i].status = "answered"
               => commands = <<[c |-> "complete", found |-> jobs[i].found]>>
      PROVE  Kept \subseteq Kept' /\ arrived' = arrived
  <2>1. UNCHANGED <<sim, stored, missed, arrived>> /\ rx' = rx \o commands /\ Unread' = Unread
    BY <1>4 DEF Outcome, Unread
  <2>2. Completed(rx') = Completed(rx) \cup Completed(commands)
    BY <2>1, CompletedGrows DEF TypeOK
  <2>3. jobs[i].op = "list" /\ jobs[i].status = "answered" => jobs[i].found \subseteq Completed(commands)
    <3> DEFINE com == [c |-> "complete", found |-> jobs[i].found]
    <3>1. jobs[i].op = "list" => com \in Command
      BY AnswerType, JobTypes DEF Command
    <3>2. com.c = "complete" /\ com.found = jobs[i].found
      OBVIOUS
    <3> HIDE DEF com
    <3>3. com \in Command => Elements(<<com>>) = {com}
      BY ElementsOf DEF TypeOK
    <3>4. com \in Command => com.found \subseteq Completed(<<com>>)
      BY <3>2, <3>3 DEF Completed
    <3>5. jobs[i].op = "list" /\ jobs[i].status = "answered" => commands = <<com>>
      BY <1>4 DEF com
    <3> QED
      BY <3>1, <3>2, <3>4, <3>5
  <2>4. Found(jobs) \cup Completed(rx) \subseteq Found(jobs') \cup Completed(rx')
    BY <1>4, <2>2, <2>3, FoundOutcome
  <2> QED
    BY <2>1, <2>4 DEF Kept
<1>5. ASSUME NEW i \in DOMAIN jobs, Resolve(i) \/ Fail(i) \/ Timeout(i)
      PROVE  Kept \subseteq Kept' /\ arrived' = arrived
  <2>1. CASE Resolve(i)
    BY <1>4, <2>1, OutcomeCommands DEF Resolve
  <2>2. CASE Fail(i) \/ Timeout(i)
    <3>1. Outcome(i, Failure(jobs[i].op)) /\ jobs[i].status # "answered"
      BY <2>2 DEF Fail, Timeout
    <3> QED
      BY <1>4, <3>1, OutcomeCommands
  <2> QED
    BY <1>5, <2>1, <2>2
<1>6. ASSUME NEW com \in Command, Queue(com)
      PROVE  Kept \subseteq Kept' /\ arrived' = arrived
  <2>1. UNCHANGED <<sim, jobs, stored, missed, arrived>> /\ rx' = Append(rx, com) /\ Unread' = Unread
    BY <1>6 DEF Queue, Unread
  <2>2. Elements(rx') = Elements(rx) \cup {com}
    BY <2>1, ElementsOf DEF TypeOK
  <2>3. Completed(rx) \subseteq Completed(rx')
    BY <2>2 DEF Completed
  <2> QED
    BY <2>1, <2>3 DEF Kept
<1>7. CASE \/ Timer
           \/ \E t \in Texts : Write(t)
           \/ \E com \in [c : {"reinit"}] \cup [c : {"path"}, to : BOOLEAN] : Order(com)
  <2>1. \E com \in Command : Queue(com)
    BY <1>7 DEF Timer, Write, Order, Command
  <2> QED
    BY <1>6, <2>1
<1>8. ASSUME NEW m \in Sms, SmsArrives(m)
      PROVE  arrived' \subseteq Kept'
  <2>1. /\ sim' = Put(sim, m, "unread") /\ arrived' = arrived \cup {m}
        /\ UNCHANGED <<jobs, rx, stored, missed>>
    BY <1>8 DEF SmsArrives
  <2>2. Unread \cup {m} \subseteq Unread'
    BY <2>1 DEF Unread, Put
  <2>3. Kept \cup {m} \subseteq Kept'
    BY <2>1, <2>2 DEF Kept
  <2> QED
    BY <2>1, <2>3
<1>9. CASE Crash
  <2>1. /\ UNCHANGED <<sim, stored, arrived>> /\ missed' = missed \cup InHand /\ Unread' = Unread
    BY <1>9 DEF Crash, Unread
  <2>2. InHand = Found(jobs) \cup Completed(rx)
    BY DEF InHand, Completed
  <2> QED
    BY <2>1, <2>2 DEF Kept
<1>10. CASE UNCHANGED vars
  BY <1>10 DEF vars, Kept, Unread
<1>11. CASE Works \/ TimesOut \/ ListFails \/ SendFails
  BY <1>1, <1>5, <1>11 DEF Works, TimesOut, ListFails, SendFails, Listings
<1> QED
  BY <1>2, <1>3, <1>7, <1>8, <1>9, <1>10, <1>11 DEF Next

\* However listings overlap, fail and are repeated: the deletion that follows
\* a listing takes no SMS that is not stored, unless the answer was lost.
THEOREM OnlyMissedAreLost == Spec => []OnlyMissedLost
<1>1. /\ OnlyMissedLost <=> arrived \subseteq Kept
      /\ OnlyMissedLost' <=> arrived' \subseteq Kept'
  BY DEF OnlyMissedLost, InHand, Kept, Completed
<1>2. Init => OnlyMissedLost
  BY DEF Init, OnlyMissedLost
<1>3. TypeOK /\ OnlyMissedLost /\ [Next]_vars => OnlyMissedLost'
  <2> SUFFICES ASSUME TypeOK, arrived \subseteq Kept, [Next]_vars
               PROVE  arrived' \subseteq Kept'
    BY <1>1
  <2>1. CASE Manager \/ StartPollUnplugged
    <3>1. arrived' = arrived
      BY <2>1 DEF Manager, StartPollUnplugged, StartPoll, EndPoll, Cmgl, StoreSms, CmglComplete, CmglFailed,
                  CommandTimeout, ForceReinit, UpdatePath, SendMessage, history
    <3> QED
      BY <2>1, <3>1, ManagerKeeps
  <2> QED
    BY <2>1, OthersKeep
<1> QED
  BY <1>2, <1>3, ModemTypes, PTL DEF Spec

-----------------------------------------------------------------------------
(* Storing at most once *)

\* The modem answers one command at a time.
OneAnswered(js) ==
  \A i, j \in DOMAIN js : js[i].status = "answered" /\ js[j].status = "answered" => i = j

\* No two listings have the same SMS to be stored.
Apart(s) ==
  \A i, j \in DOMAIN s :
    s[i].c = "complete" /\ s[j].c = "complete" /\ i # j => s[i].found \cap s[j].found = {}

\* The inductive invariant: an SMS that is to be stored is in one hand.
OneHand ==
  /\ OneAnswered(jobs) /\ Apart(rx)
  /\ Unread \cap Found(jobs) = {}
  /\ Unread \cap Completed(rx) = {}
  /\ Found(jobs) \cap Completed(rx) = {}
  /\ DOMAIN sim \cup Found(jobs) \cup Completed(rx) \subseteq arrived

\* What the abstract queue holds.
LEMMA InHandIs ==
  /\ Unread \cup InHand = Unread \cup Found(jobs) \cup Completed(rx)
  /\ (Unread \cup InHand)' = Unread' \cup Found(jobs') \cup Completed(rx')
BY DEF InHand, Completed

\* A step that adds to no place loses something or nothing.
LEMMA ShrinkingStep ==
  ASSUME OneHand, Unread' \subseteq Unread, DOMAIN sim' \subseteq DOMAIN sim,
         Found(jobs') \subseteq Found(jobs), Completed(rx') \subseteq Completed(rx),
         arrived' = arrived, stored' = stored, OneAnswered(jobs'), Apart(rx')
  PROVE  OneHand' /\ StoredQueue!Next
<1>1. OneHand'
  BY DEF OneHand
<1>2. (Unread \cup InHand)' \subseteq Unread \cup InHand
  BY InHandIs
<1> QED
  BY <1>1, <1>2 DEF StoredQueue!Next, StoredQueue!Lose

\* A command that waits to be executed does not count yet.
LEMMA AppendQueued ==
  ASSUME NEW js \in Seq(Job), NEW job \in Job, job.status = "queued", OneAnswered(js)
  PROVE  OneAnswered(Append(js, job)) /\ Found(Append(js, job)) \subseteq Found(js)
<1> DEFINE ks == Append(js, job)
<1>1. /\ DOMAIN js = 1 .. Len(js) /\ DOMAIN ks = 1 .. Len(js) + 1 /\ Len(js) \in Nat
      /\ ks[Len(js) + 1] = job /\ \A i \in DOMAIN js : ks[i] = js[i]
  OBVIOUS
<1> HIDE DEF ks
<1>2. \A i \in DOMAIN ks : ks[i].status # "queued" => i \in DOMAIN js /\ ks[i] = js[i]
  BY <1>1
<1>3. OneAnswered(ks)
  BY <1>2 DEF OneAnswered
<1>4. Found(ks) \subseteq Found(js)
  BY <1>2 DEF Found
<1> QED
  BY <1>3, <1>4 DEF ks

\* Commands that are taken off rx, and such that come behind it.
LEMMA ApartTail ==
  ASSUME NEW s \in Seq(Command), s # <<>>, Apart(s)
  PROVE  Apart(Tail(s)) /\ Completed(Tail(s)) \subseteq Completed(s)
<1>1. /\ DOMAIN s = 1 .. Len(s) /\ Len(s) \in Nat \ {0} /\ DOMAIN Tail(s) = 1 .. Len(s) - 1
      /\ \A i \in DOMAIN Tail(s) : Tail(s)[i] = s[i + 1]
  BY HeadTailProperties, EmptySeq
<1>2. \A i \in DOMAIN Tail(s) : i + 1 \in DOMAIN s
  BY <1>1
<1>3. \A i, j \in DOMAIN Tail(s) : i # j => i + 1 # j + 1
  BY <1>1
<1>4. Apart(Tail(s))
  BY <1>1, <1>2, <1>3 DEF Apart
<1>5. Completed(Tail(s)) \subseteq Completed(s)
  BY ElementsOf DEF Completed
<1> QED
  BY <1>4, <1>5

\* Commands that are no listings change nothing.
LEMMA ApartOthers ==
  ASSUME NEW s \in Seq(Command), NEW r \in Seq(Command), Apart(s),
         \A i \in DOMAIN r : r[i].c # "complete"
  PROVE  Apart(s \o r) /\ Completed(s \o r) = Completed(s)
<1> DEFINE t == s \o r
<1>1. /\ DOMAIN s = 1 .. Len(s) /\ DOMAIN r = 1 .. Len(r) /\ Len(s) \in Nat /\ Len(r) \in Nat
      /\ DOMAIN t = 1 .. Len(s) + Len(r)
      /\ \A i \in 1 .. Len(s) + Len(r) : t[i] = IF i <= Len(s) THEN s[i] ELSE r[i - Len(s)]
  BY ConcatProperties
<1> HIDE DEF t
<1>2. \A i \in DOMAIN t : t[i].c = "complete" => i \in DOMAIN s /\ t[i] = s[i]
  <2> SUFFICES ASSUME NEW i \in DOMAIN t, ~(i <= Len(s))
               PROVE  t[i].c # "complete"
    BY <1>1
  <2>1. i - Len(s) \in DOMAIN r
    BY <1>1
  <2> QED
    BY <1>1, <2>1
<1>3. Apart(t)
  BY <1>2 DEF Apart
<1>4. Completed(r) = {}
  BY DEF Completed, Elements
<1>5. Completed(s \o r) = Completed(s) \cup Completed(r)
  BY CompletedGrows
<1>6. t = s \o r
  BY DEF t
<1>7. Completed(t) = Completed(s)
  BY <1>4, <1>5, <1>6, Zenon
<1> QED
  BY <1>3, <1>6, <1>7, Zenon

\* A further listing is apart from the others, when its SMS are new.
LEMMA ApartListing ==
  ASSUME NEW s \in Seq(Command), NEW com \in Command, Apart(s), com.c = "complete",
         com.found \cap Completed(s) = {}
  PROVE  Apart(s \o <<com>>) /\ Completed(s \o <<com>>) = Completed(s) \cup com.found
<1> DEFINE t == Append(s, com)
<1>1. /\ DOMAIN s = 1 .. Len(s) /\ Len(s) \in Nat /\ DOMAIN t = 1 .. Len(s) + 1
      /\ t[Len(s) + 1] = com /\ \A i \in DOMAIN s : t[i] = s[i]
  OBVIOUS
<1>2. s \o <<com>> = t /\ Elements(t) = Elements(s) \cup {com}
  BY ElementsOf
<1> HIDE DEF t
<1>3. Completed(t) = Completed(s) \cup com.found
  BY <1>2 DEF Completed
<1>4. \A i \in DOMAIN s : s[i].c = "complete" => s[i].found \cap com.found = {}
  BY DEF Completed, Elements
<1>5. Apart(t)
  BY <1>1, <1>4 DEF Apart
<1> QED
  BY <1>2, <1>3, <1>5

\* The manager: cmgl_complete conveys one SMS after the other, each from the
\* only place where it is.
LEMMA ManagerStores ==
  ASSUME TypeOK, OneHand, Manager \/ StartPollUnplugged
  PROVE  OneHand' /\ StoredQueue!Next
<1> USE DEF device, history
<1>0. jobs \in Seq(Job) /\ rx \in Seq(Command) /\ OneAnswered(jobs) /\ Apart(rx)
  BY DEF TypeOK, OneHand
<1>1. CASE StartPoll
  <2>1. UNCHANGED <<rx, sim, stored, arrived>> /\ (jobs' = jobs \/ jobs' = Append(jobs, List))
    BY <1>1, PollModemTypes DEF StartPoll
  <2>2. OneAnswered(jobs') /\ Found(jobs') \subseteq Found(jobs)
    <3>1. CASE jobs' = jobs
      BY <1>0, <3>1
    <3>2. CASE jobs' = Append(jobs, List)
      <4>1. OneAnswered(Append(jobs, List)) /\ Found(Append(jobs, List)) \subseteq Found(jobs)
        BY <1>0, AppendQueued, JobTypes
      <4> QED
        BY <3>2, <4>1, Zenon
    <3> QED
      BY <2>1, <3>1, <3>2
  <2>3. Unread' = Unread /\ Apart(rx') /\ Completed(rx') = Completed(rx)
    BY <2>1 DEF Unread, OneHand
  <2> QED
    BY <2>1, <2>2, <2>3, ShrinkingStep
<1>2. CASE StartPollUnplugged \/ CmglFailed \/ CommandTimeout \/ ForceReinit \/ UpdatePath
  <2>1. /\ UNCHANGED <<sim, stored, arrived>> /\ Unread' = Unread
        /\ rx' = rx \/ (rx # <<>> /\ rx' = Tail(rx))
    BY <1>2 DEF StartPollUnplugged, CmglFailed, CommandTimeout, ForceReinit, UpdatePath, Take, Unread
  <2>2. Apart(rx') /\ Completed(rx') \subseteq Completed(rx)
    BY <1>0, <2>1, ApartTail
  <2>3. jobs' = Dropped(jobs)
    BY <1>2 DEF StartPollUnplugged, CmglFailed, CommandTimeout, ForceReinit, UpdatePath, Reset
  <2>4. OneAnswered(jobs') /\ Found(jobs') = {}
    BY <2>3, DroppedTypes DEF OneAnswered
  <2> QED
    BY <2>1, <2>2, <2>4, ShrinkingStep
<1>3. CASE EndPoll
  <2>1. UNCHANGED <<rx, sim, stored, arrived, jobs>>
    BY <1>3 DEF EndPoll
  <2>2. /\ Unread' = Unread /\ Apart(rx') /\ Completed(rx') = Completed(rx)
        /\ OneAnswered(jobs') /\ Found(jobs') = Found(jobs)
    BY <2>1 DEF Unread, OneHand
  <2> QED
    BY <2>1, <2>2, ShrinkingStep
<1>4. CASE Cmgl \/ CmglComplete \/ SendMessage
  <2>1. /\ UNCHANGED <<sim, stored, arrived>> /\ Unread' = Unread
        /\ rx # <<>> /\ rx' = Tail(rx)
    BY <1>4 DEF Cmgl, CmglComplete, SendMessage, Take, Unread
  <2>2. Apart(rx') /\ Completed(rx') \subseteq Completed(rx)
    BY <1>0, <2>1, ApartTail
  <2>3. \E job \in Job : Issue(<<job>>) /\ job.status = "queued"
    BY <1>4, JobTypes, CommandAtHand DEF Cmgl, CmglComplete, SendMessage, Take
  <2>4. OneAnswered(jobs') /\ Found(jobs') \subseteq Found(jobs)
    <3>1. PICK job \in Job : Issue(<<job>>) /\ job.status = "queued"
      BY <2>3
    <3>2. jobs' = jobs \/ jobs' = Append(jobs, job)
      BY <3>1, IssueTypes
    <3>3. OneAnswered(Append(jobs, job)) /\ Found(Append(jobs, job)) \subseteq Found(jobs)
      BY <1>0, <3>1, AppendQueued
    <3> QED
      BY <1>0, <3>2, <3>3, Zenon
  <2> QED
    BY <2>1, <2>2, <2>4, ShrinkingStep
<1>5. ASSUME NEW m \in Sms, StoreSms(m)
      PROVE  OneHand' /\ StoredQueue!Next
  <2>1. UNCHANGED <<jobs, sim, arrived>> /\ stored' = Append(stored, m) /\ Unread' = Unread
    BY <1>5 DEF StoreSms, Unread
  <2>2. m \in Completed(rx)
    BY <1>5, StoreSmsShape DEF Completed, Elements
  <2>3. \A i \in DOMAIN rx : rx[i].c = "complete" => rx'[i].found = rx[i].found \ {m}
    <3>1. \A i \in DOMAIN rx : rx[i].c = "complete" /\ i # 1 => rx'[i] = rx[i] /\ m \notin rx[i].found
      BY <1>5, StoreSmsShape DEF OneHand, Apart
    <3> QED
      BY <1>5, <3>1, StoreSmsShape
  <2>4. /\ DOMAIN rx' = DOMAIN rx
        /\ \A i \in DOMAIN rx : rx'[i].c = rx[i].c
    BY <1>5, StoreSmsShape
  <2>5. Completed(rx') = Completed(rx) \ {m}
    BY <2>3, <2>4 DEF Completed, Elements
  <2>6. Apart(rx')
    BY <2>3, <2>4 DEF Apart, OneHand
  <2>7. OneHand'
    BY <2>1, <2>5, <2>6 DEF OneHand
  <2>8. m \notin Unread \cup Found(jobs)
    BY <2>2 DEF OneHand
  <2>9. (Unread \cup InHand)' = (Unread \cup InHand) \ {m} /\ m \in Unread \cup InHand
    BY <2>1, <2>2, <2>5, <2>8, InHandIs
  <2> QED
    BY <2>1, <2>7, <2>9 DEF StoredQueue!Next, StoredQueue!Deliver
<1> QED
  BY <1>1, <1>2, <1>3, <1>4, <1>5 DEF Manager

\* A command that is through leaves at most one that is answered, and of what
\* was found only what it did not find.
LEMMA OutcomeLeaves ==
  ASSUME TypeOK, NEW i \in DOMAIN jobs, NEW commands \in Seq(Command), Outcome(i, commands),
         OneAnswered(jobs)
  PROVE  /\ OneAnswered(jobs') /\ Found(jobs') \subseteq Found(jobs)
         /\ jobs[i].status = "answered" => Found(jobs') = {}
<1> DEFINE was(k) == IF k < i THEN k ELSE k + 1
<1>1. /\ DOMAIN jobs' = 1 .. Len(jobs) - 1 /\ DOMAIN jobs = 1 .. Len(jobs) /\ Len(jobs) \in Nat
      /\ \A k \in DOMAIN jobs' : jobs'[k] = jobs[was(k)] /\ was(k) \in DOMAIN jobs \ {i}
  BY OutcomeTypes
<1>2. \A k, l \in DOMAIN jobs' : was(k) = was(l) => k = l
  BY <1>1
<1> HIDE DEF was
<1>3. OneAnswered(jobs')
  BY <1>1, <1>2 DEF OneAnswered
<1>4. Found(jobs') \subseteq Found(jobs)
  BY <1>1 DEF Found
<1>5. jobs[i].status = "answered" => \A k \in DOMAIN jobs' : jobs'[k].status # "answered"
  BY <1>1 DEF OneAnswered
<1>6. jobs[i].status = "answered" => Found(jobs') = {}
  BY <1>5 DEF Found
<1> QED
  BY <1>3, <1>4, <1>6

\* What the modem, the spawned commands and the world do conveys nothing, and
\* only an SMS that arrives is taken over.
LEMMA OthersStore ==
  ASSUME TypeOK, OneHand, Next, ~(Manager \/ StartPollUnplugged)
  PROVE  OneHand' /\ StoredQueue!Next
<1> USE DEF device, history
<1>1. ASSUME NEW i \in DOMAIN jobs, Execute(i)
      PROVE  OneHand' /\ StoredQueue!Next
  <2>1. /\ With(i, Answer(jobs[i])) /\ Effect(jobs[i])
        /\ \A j \in DOMAIN jobs : jobs[j].status # "answered"
        /\ UNCHANGED <<rx, stored, arrived>>
    BY <1>1 DEF Execute, IsNext, modem
  <2>2. /\ DOMAIN jobs' = DOMAIN jobs /\ jobs'[i] = Answer(jobs[i])
        /\ \A j \in DOMAIN jobs : j # i => jobs'[j] = jobs[j]
    BY <2>1, AnswerType, WithType
  <2>3. OneAnswered(jobs')
    BY <2>1, <2>2 DEF OneAnswered
  <2>4. Found(jobs) = {} /\ DOMAIN sim' \subseteq DOMAIN sim
    BY <2>1, AnswerType, EffectTypes DEF Found
  <2>5. Apart(rx') /\ Completed(rx') = Completed(rx)
    BY <2>1 DEF OneHand
  <2>6. CASE jobs[i].op = "list"
    <3>1. Unread' = {} /\ Found(jobs') = Unread /\ Unread \subseteq DOMAIN sim
      <4>1. Unread' = {}
        BY <2>1, <2>6, AnswerType, EffectTypes
      <4>2. Found(jobs') = Unread
        BY <2>1, <2>2, <2>6, AnswerType DEF Found
      <4> QED
        BY <4>1, <4>2 DEF Unread
    <3>2. OneHand'
      BY <2>1, <2>3, <2>4, <2>5, <3>1 DEF OneHand
    <3>3. (Unread \cup InHand)' \subseteq Unread \cup InHand
      BY <2>4, <2>5, <3>1, InHandIs
    <3> QED
      BY <2>1, <3>2, <3>3 DEF StoredQueue!Next, StoredQueue!Lose
  <2>7. CASE jobs[i].op # "list"
    <3>1. Unread' = Unread
      BY <2>1, <2>7, AnswerType, EffectTypes, JobTypes
    <3>2. Found(jobs') = {}
      BY <2>1, <2>2, <2>7, AnswerType DEF Found
    <3> QED
      BY <2>1, <2>3, <2>4, <2>5, <3>1, <3>2, ShrinkingStep
  <2> QED
    BY <2>6, <2>7
<1>2. ASSUME NEW i \in DOMAIN jobs, Refuse(i)
      PROVE  OneHand' /\ StoredQueue!Next
  <2> DEFINE job == [jobs[i] EXCEPT !.status = "failed"]
  <2>1. /\ With(i, job) /\ job \in Job /\ job.status = "failed"
        /\ UNCHANGED <<rx, stored, arrived, sim>>
    BY <1>2, AnswerType, JobTypes DEF Refuse, modem
  <2> HIDE DEF job
  <2>2. /\ DOMAIN jobs' = DOMAIN jobs
        /\ \A j \in DOMAIN jobs : jobs'[j].status = "answered" => jobs'[j] = jobs[j]
    BY <2>1, WithType
  <2>3. OneAnswered(jobs') /\ Found(jobs') \subseteq Found(jobs)
    BY <2>2 DEF OneAnswered, Found, OneHand
  <2>4. Unread' = Unread /\ Apart(rx') /\ Completed(rx') = Completed(rx)
    BY <2>1 DEF Unread, OneHand
  <2> QED
    BY <2>1, <2>3, <2>4, ShrinkingStep
<1>3. ASSUME NEW i \in DOMAIN jobs, LoseAnswer(i)
      PROVE  OneHand' /\ StoredQueue!Next
  <2>1. UNCHANGED <<rx, stored, arrived, jobs>>
    BY <1>3 DEF LoseAnswer, modem
  <2>2. Unread' \subseteq Unread /\ DOMAIN sim' \subseteq DOMAIN sim
    <3>1. CASE Effect(jobs[i])
      BY <3>1, AnswerType, EffectTypes, JobTypes
    <3>2. CASE UNCHANGED <<sim, sent, missed>>
      BY <3>2 DEF Unread
    <3> QED
      BY <1>3, <3>1, <3>2 DEF LoseAnswer
  <2>3. /\ Apart(rx') /\ Completed(rx') = Completed(rx)
        /\ OneAnswered(jobs') /\ Found(jobs') = Found(jobs)
    BY <2>1 DEF OneHand
  <2> QED
    BY <2>1, <2>2, <2>3, ShrinkingStep
<1>4. ASSUME NEW i \in DOMAIN jobs, Fail(i) \/ Timeout(i) \/ (Resolve(i) /\ jobs[i].op # "list")
      PROVE  OneHand' /\ StoredQueue!Next
  <2>1. \E commands \in Seq(Command) :
          Outcome(i, commands) /\ \A k \in DOMAIN commands : commands[k].c # "complete"
    <3>1. jobs[i].op \in {"list", "delete", "send"}
      BY AnswerType, JobTypes
    <3>2. \A op \in {"list", "delete", "send"} : \A k \in DOMAIN Failure(op) : Failure(op)[k].c # "complete"
      BY DEF Failure
    <3>3. Failure("send") = <<>> /\ <<>> \in Seq(Command) /\ \A k \in DOMAIN <<>> : FALSE
      BY DEF Failure
    <3>4. Outcome(i, Failure(jobs[i].op)) \/ Outcome(i, <<>>)
      BY <1>4 DEF Fail, Timeout, Resolve
    <3>5. CASE Outcome(i, Failure(jobs[i].op))
      BY <3>1, <3>2, <3>5, OutcomeCommands
    <3>6. CASE Outcome(i, <<>>)
      BY <3>3, <3>6
    <3> QED
      BY <3>4, <3>5, <3>6
  <2>2. PICK commands \in Seq(Command) :
          Outcome(i, commands) /\ \A k \in DOMAIN commands : commands[k].c # "complete"
    BY <2>1
  <2>3. UNCHANGED <<sim, stored, arrived>> /\ Unread' = Unread /\ rx' = rx \o commands
    BY <2>2 DEF Outcome, Unread
  <2>4. Apart(rx') /\ Completed(rx') = Completed(rx)
    BY <2>2, <2>3, ApartOthers DEF OneHand, TypeOK
  <2>5. OneAnswered(jobs') /\ Found(jobs') \subseteq Found(jobs)
    BY <2>2, OutcomeLeaves DEF OneHand
  <2> QED
    BY <2>3, <2>4, <2>5, ShrinkingStep
<1>5. ASSUME NEW i \in DOMAIN jobs, Resolve(i), jobs[i].op = "list"
      PROVE  OneHand' /\ StoredQueue!Next
  <2> DEFINE com == [c |-> "complete", found |-> jobs[i].found]
  <2>1. com \in Command /\ com.c = "complete" /\ com.found = jobs[i].found
    BY <1>5, AnswerType, JobTypes DEF Command
  <2>2. Outcome(i, <<com>>) /\ jobs[i].status = "answered"
    BY <1>5 DEF Resolve
  <2> HIDE DEF com
  <2>3. <<com>> \in Seq(Command)
    BY <2>1
  <2>4. UNCHANGED <<sim, stored, arrived>> /\ Unread' = Unread /\ rx' = rx \o <<com>>
    BY <2>2 DEF Outcome, Unread
  <2>5. OneAnswered(jobs') /\ Found(jobs') = {}
    BY <2>2, <2>3, OutcomeLeaves DEF OneHand
  <2>6. com.found \subseteq Found(jobs)
    BY <1>5, <2>1, <2>2 DEF Found
  <2>7. Apart(rx') /\ Completed(rx') = Completed(rx) \cup com.found
    <3>1. com.found \cap Completed(rx) = {}
      BY <2>6 DEF OneHand
    <3> QED
      BY <2>1, <2>4, <3>1, ApartListing DEF OneHand, TypeOK
  <2>8. OneHand'
    BY <2>4, <2>5, <2>6, <2>7 DEF OneHand
  <2>9. (Unread \cup InHand)' \subseteq Unread \cup InHand
    BY <2>4, <2>5, <2>6, <2>7, InHandIs
  <2> QED
    BY <2>4, <2>8, <2>9 DEF StoredQueue!Next, StoredQueue!Lose
<1>6. ASSUME NEW com \in Command, Queue(com), com.c # "complete"
      PROVE  OneHand' /\ StoredQueue!Next
  <2>1. UNCHANGED <<sim, jobs, stored, arrived>> /\ rx' = Append(rx, com) /\ Unread' = Unread
    BY <1>6 DEF Queue, Unread
  <2>2. <<com>> \in Seq(Command) /\ rx' = rx \o <<com>> /\ \A k \in DOMAIN <<com>> : <<com>>[k].c # "complete"
    BY <1>6, <2>1 DEF TypeOK
  <2>3. Apart(rx') /\ Completed(rx') = Completed(rx)
    BY <2>2, ApartOthers DEF OneHand, TypeOK
  <2>4. OneAnswered(jobs') /\ Found(jobs') = Found(jobs)
    BY <2>1 DEF OneHand
  <2> QED
    BY <2>1, <2>3, <2>4, ShrinkingStep
<1>7. CASE \/ Timer
           \/ \E t \in Texts : Write(t)
           \/ \E com \in [c : {"reinit"}] \cup [c : {"path"}, to : BOOLEAN] : Order(com)
  <2>1. /\ [c |-> "cmgl"] \in Command /\ [c |-> "cmgl"].c # "complete"
        /\ \A t \in Texts : [c |-> "send", text |-> t] \in Command /\ [c |-> "send", text |-> t].c # "complete"
        /\ \A com \in [c : {"reinit"}] \cup [c : {"path"}, to : BOOLEAN] :
              com \in Command /\ com.c # "complete"
    BY DEF Command
  <2>2. \E com \in Command : Queue(com) /\ com.c # "complete"
    BY <1>7, <2>1 DEF Timer, Write, Order
  <2> QED
    BY <1>6, <2>2
<1>8. ASSUME NEW m \in Sms, SmsArrives(m)
      PROVE  OneHand' /\ StoredQueue!Next
  <2>1. /\ sim' = Put(sim, m, "unread") /\ arrived' = arrived \cup {m} /\ m \notin arrived
        /\ UNCHANGED <<jobs, rx, stored>>
    BY <1>8 DEF SmsArrives
  <2>2. m \notin DOMAIN sim /\ DOMAIN sim' = DOMAIN sim \cup {m} /\ Unread' = Unread \cup {m}
    BY <2>1 DEF Unread, Put, OneHand
  <2>3. OneHand'
    BY <2>1, <2>2 DEF OneHand
  <2>4. Unread \subseteq DOMAIN sim
    BY DEF Unread
  <2>5. m \notin Unread \cup InHand /\ (Unread \cup InHand)' = (Unread \cup InHand) \cup {m}
    BY <2>1, <2>2, <2>4, InHandIs DEF OneHand
  <2> QED
    BY <2>1, <2>3, <2>5 DEF StoredQueue!Next, StoredQueue!Accept
<1>9. CASE Crash
  <2>1. /\ UNCHANGED <<sim, stored, arrived>> /\ Unread' = Unread
        /\ jobs' = <<>> /\ rx' = <<[c |-> "cmgl"]>>
    BY <1>9 DEF Crash, Unread
  <2>2. Found(jobs') = {} /\ OneAnswered(jobs')
    BY <2>1 DEF Found, OneAnswered
  <2>3. Completed(rx') = {} /\ Apart(rx')
    BY <2>1 DEF Completed, Elements, Apart
  <2> QED
    BY <2>1, <2>2, <2>3, ShrinkingStep
<1>10. CASE Works \/ TimesOut \/ ListFails \/ SendFails
  BY <1>1, <1>4, <1>5, <1>10 DEF Works, TimesOut, ListFails, SendFails, Listings
<1> QED
  BY <1>2, <1>3, <1>7, <1>8, <1>9, <1>10 DEF Next

\* cmgl_complete, overlapping listings, timeouts, resets and restarts together
\* implement a queue that conveys an SMS to the database at most once.
THEOREM StoresAtMostOnce == Spec => StoredAtMostOnce
<1>1. Init => OneHand /\ StoredQueue!Init
  <2> SUFFICES ASSUME Init
               PROVE  OneHand /\ StoredQueue!Init
    OBVIOUS
  <2>1. /\ Unread = {} /\ DOMAIN sim = {} /\ Found(jobs) = {} /\ OneAnswered(jobs)
    BY DEF Init, Empty, Unread, Found, OneAnswered
  <2>2. Completed(rx) = {} /\ Apart(rx)
    BY DEF Init, Completed, Elements, Apart
  <2>3. OneHand
    BY <2>1, <2>2 DEF OneHand
  <2>4. Unread \cup InHand = {}
    BY <2>1, <2>2, InHandIs
  <2> QED
    BY <2>3, <2>4 DEF Init, StoredQueue!Init
<1>2. TypeOK /\ OneHand /\ [Next]_vars => OneHand' /\ [StoredQueue!Next]_(StoredQueue!vars)
  <2> SUFFICES ASSUME TypeOK, OneHand, [Next]_vars
               PROVE  OneHand' /\ [StoredQueue!Next]_(StoredQueue!vars)
    OBVIOUS
  <2>1. CASE Next
    BY <2>1, ManagerStores, OthersStore
  <2>2. CASE UNCHANGED vars
    BY <2>2 DEF vars, OneHand, Unread, InHand, StoredQueue!vars
  <2> QED
    BY <2>1, <2>2
<1> QED
  BY <1>1, <1>2, ModemTypes, PTL DEF Spec, StoredAtMostOnce, StoredQueue!Spec

-----------------------------------------------------------------------------
(* Sending at most once *)

\* The texts that ModemCommand::SendMessage has in rx, and those of the
\* commands that wait to be executed.
RxTexts(s) == {c.text : c \in {d \in Elements(s) : d.c = "send"}}
Orders(js) == {j \in DOMAIN js : js[j].op = "send" /\ js[j].status = "queued"}
JobTexts(js) == {js[i].text : i \in Orders(js)}

\* None is twice among them.
OnceIn(s) == \A i, j \in DOMAIN s : s[i].c = "send" /\ s[j].c = "send" /\ s[i].text = s[j].text => i = j
OnceOf(js) == \A i, j \in Orders(js) : js[i].text = js[j].text => i = j

\* The inductive invariant: a text is ordered once.  A command that is at the
\* modem and has lost its answer may have been executed.
OneOrder ==
  /\ OnceIn(rx) /\ OnceOf(jobs)
  /\ RxTexts(rx) \cap JobTexts(jobs) = {}
  /\ RxTexts(rx) \cap Elements(sent) = {}
  /\ ~stuck => JobTexts(jobs) \cap Elements(sent) = {}
  /\ RxTexts(rx) \cup JobTexts(jobs) \cup Elements(sent) \subseteq written

\* What the abstract queue holds.
LEMMA OutgoingIs ==
  /\ Outgoing = RxTexts(rx) \cup JobTexts(jobs)
  /\ Outgoing' = RxTexts(rx') \cup JobTexts(jobs')
BY DEF Outgoing, RxTexts, JobTexts, Orders

\* A step that orders nothing and sends nothing.
LEMMA FewerOrders ==
  ASSUME OneOrder, RxTexts(rx') \subseteq RxTexts(rx), JobTexts(jobs') \subseteq JobTexts(jobs),
         sent' = sent, written' = written, OnceIn(rx'), OnceOf(jobs'),
         ~stuck' => ~stuck \/ JobTexts(jobs') = {}
  PROVE  OneOrder' /\ SentQueue!Next
<1>1. OneOrder'
  BY DEF OneOrder
<1>2. (Outgoing \ Elements(sent))' \subseteq Outgoing \ Elements(sent)
  <2>1. Outgoing' \subseteq Outgoing
    BY OutgoingIs
  <2> QED
    BY <2>1
<1> QED
  BY <1>1, <1>2 DEF SentQueue!Next, SentQueue!Lose

\* A command that is issued: no text, or one that is new.
LEMMA OrderIssued ==
  ASSUME NEW js \in Seq(Job), NEW job \in Job, OnceOf(js),
         job.op = "send" => job.status = "queued" /\ job.text \notin JobTexts(js)
  PROVE  /\ OnceOf(Append(js, job))
         /\ JobTexts(Append(js, job)) \subseteq JobTexts(js) \cup (IF job.op = "send" THEN {job.text} ELSE {})
<1> DEFINE ks == Append(js, job)
<1>1. /\ DOMAIN js = 1 .. Len(js) /\ DOMAIN ks = 1 .. Len(js) + 1 /\ Len(js) \in Nat
      /\ ks[Len(js) + 1] = job /\ \A i \in DOMAIN js : ks[i] = js[i]
  OBVIOUS
<1> HIDE DEF ks
<1>2. \A i \in Orders(ks) : \/ i \in Orders(js) /\ ks[i] = js[i]
                            \/ i = Len(js) + 1 /\ ks[i] = job /\ job.op = "send"
  BY <1>1 DEF Orders
<1>3. \A i \in Orders(js) : job.op = "send" => js[i].text # job.text
  BY DEF JobTexts
<1>4. OnceOf(ks)
  BY <1>2, <1>3 DEF OnceOf
<1>5. JobTexts(ks) \subseteq JobTexts(js) \cup (IF job.op = "send" THEN {job.text} ELSE {})
  BY <1>2 DEF JobTexts
<1> QED
  BY <1>4, <1>5 DEF ks

\* A command that is taken off rx: if it is to send a text, that is the only
\* one.
LEMMA TextsTail ==
  ASSUME NEW s \in Seq(Command), s # <<>>, OnceIn(s)
  PROVE  /\ OnceIn(Tail(s)) /\ RxTexts(Tail(s)) \subseteq RxTexts(s)
         /\ Head(s).c = "send" => Head(s).text \in RxTexts(s) /\ Head(s).text \notin RxTexts(Tail(s))
<1>1. /\ DOMAIN s = 1 .. Len(s) /\ Len(s) \in Nat \ {0} /\ DOMAIN Tail(s) = 1 .. Len(s) - 1
      /\ \A i \in DOMAIN Tail(s) : Tail(s)[i] = s[i + 1]
      /\ Head(s) = s[1]
  BY HeadTailProperties, EmptySeq
<1>2. \A i \in DOMAIN Tail(s) : i + 1 \in DOMAIN s /\ i + 1 # 1
  BY <1>1
<1>3. \A i, j \in DOMAIN Tail(s) : i + 1 = j + 1 => i = j
  BY <1>1
<1>4. OnceIn(Tail(s))
  BY <1>1, <1>2, <1>3 DEF OnceIn
<1>5. RxTexts(Tail(s)) \subseteq RxTexts(s)
  BY ElementsOf DEF RxTexts
<1>6. 1 \in DOMAIN s
  BY <1>1
<1>7. Head(s).c = "send" => \A i \in DOMAIN Tail(s) : Tail(s)[i].c = "send" => Tail(s)[i].text # Head(s).text
  BY <1>1, <1>2, <1>6 DEF OnceIn
<1>8. Head(s).c = "send" => Head(s).text \in RxTexts(s) /\ Head(s).text \notin RxTexts(Tail(s))
  BY <1>1, <1>6, <1>7 DEF RxTexts, Elements
<1> QED
  BY <1>4, <1>5, <1>8

\* Commands that send nothing, behind the others.
LEMMA TextsOthers ==
  ASSUME NEW s \in Seq(Command), NEW r \in Seq(Command), OnceIn(s),
         \A i \in DOMAIN r : r[i].c # "send"
  PROVE  OnceIn(s \o r) /\ RxTexts(s \o r) = RxTexts(s)
<1> DEFINE t == s \o r
<1>1. /\ DOMAIN s = 1 .. Len(s) /\ DOMAIN r = 1 .. Len(r) /\ Len(s) \in Nat /\ Len(r) \in Nat
      /\ DOMAIN t = 1 .. Len(s) + Len(r)
      /\ \A i \in 1 .. Len(s) + Len(r) : t[i] = IF i <= Len(s) THEN s[i] ELSE r[i - Len(s)]
  BY ConcatProperties
<1>2. t = s \o r /\ Elements(t) = Elements(s) \cup Elements(r)
  BY ElementsOf
<1> HIDE DEF t
<1>3. \A i \in DOMAIN t : t[i].c = "send" => i \in DOMAIN s /\ t[i] = s[i]
  <2> SUFFICES ASSUME NEW i \in DOMAIN t, ~(i <= Len(s))
               PROVE  t[i].c # "send"
    BY <1>1
  <2>1. i - Len(s) \in DOMAIN r
    BY <1>1
  <2> QED
    BY <1>1, <2>1
<1>4. OnceIn(t)
  BY <1>3 DEF OnceIn
<1>5. \A d \in Elements(r) : d.c # "send"
  BY DEF Elements
<1>6. RxTexts(t) = RxTexts(s)
  BY <1>2, <1>5 DEF RxTexts
<1> QED
  BY <1>2, <1>4, <1>6, Zenon

\* A text that is new, behind the others.
LEMMA TextsAppend ==
  ASSUME NEW s \in Seq(Command), NEW com \in Command, OnceIn(s), com.c = "send",
         com.text \notin RxTexts(s)
  PROVE  OnceIn(Append(s, com)) /\ RxTexts(Append(s, com)) = RxTexts(s) \cup {com.text}
<1> DEFINE t == Append(s, com)
<1>1. /\ DOMAIN s = 1 .. Len(s) /\ Len(s) \in Nat /\ DOMAIN t = 1 .. Len(s) + 1
      /\ t[Len(s) + 1] = com /\ \A i \in DOMAIN s : t[i] = s[i]
  OBVIOUS
<1>2. t = Append(s, com) /\ Elements(t) = Elements(s) \cup {com}
  BY ElementsOf
<1> HIDE DEF t
<1>3. RxTexts(t) = RxTexts(s) \cup {com.text}
  BY <1>2 DEF RxTexts
<1>4. \A i \in DOMAIN s : s[i].c = "send" => s[i].text # com.text
  BY DEF RxTexts, Elements
<1>5. OnceIn(t)
  BY <1>1, <1>4 DEF OnceIn
<1> QED
  BY <1>2, <1>3, <1>5

\* A command that was executed or refused waits no more.
LEMMA OrderDone ==
  ASSUME TypeOK, OnceOf(jobs), NEW i \in DOMAIN jobs, NEW job \in Job, With(i, job),
         job.status # "queued"
  PROVE  /\ OnceOf(jobs') /\ JobTexts(jobs') \subseteq JobTexts(jobs)
         /\ i \in Orders(jobs) => jobs[i].text \notin JobTexts(jobs')
<1>1. /\ DOMAIN jobs' = DOMAIN jobs /\ jobs'[i] = job
      /\ \A j \in DOMAIN jobs : j # i => jobs'[j] = jobs[j]
  BY WithType
<1>2. \A j \in Orders(jobs') : j \in Orders(jobs) /\ j # i /\ jobs'[j] = jobs[j]
  BY <1>1 DEF Orders
<1>3. OnceOf(jobs') /\ JobTexts(jobs') \subseteq JobTexts(jobs)
  BY <1>2 DEF OnceOf, JobTexts
<1>4. i \in Orders(jobs) => jobs[i].text \notin JobTexts(jobs')
  BY <1>2 DEF OnceOf, JobTexts
<1> QED
  BY <1>3, <1>4

\* A command that is through.
LEMMA OrderThrough ==
  ASSUME TypeOK, OnceOf(jobs), NEW i \in DOMAIN jobs, NEW commands \in Seq(Command), Outcome(i, commands)
  PROVE  OnceOf(jobs') /\ JobTexts(jobs') \subseteq JobTexts(jobs)
<1> DEFINE was(k) == IF k < i THEN k ELSE k + 1
<1>1. /\ DOMAIN jobs' = 1 .. Len(jobs) - 1 /\ DOMAIN jobs = 1 .. Len(jobs) /\ Len(jobs) \in Nat
      /\ \A k \in DOMAIN jobs' : jobs'[k] = jobs[was(k)] /\ was(k) \in DOMAIN jobs \ {i}
  BY OutcomeTypes
<1>2. \A k, l \in DOMAIN jobs' : was(k) = was(l) => k = l
  BY <1>1
<1> HIDE DEF was
<1>3. \A k \in Orders(jobs') : k \in DOMAIN jobs' /\ was(k) \in Orders(jobs) /\ jobs'[k] = jobs[was(k)]
  BY <1>1 DEF Orders
<1> QED
  BY <1>2, <1>3 DEF OnceOf, JobTexts

\* The manager issues what it was told to send once, and takes nothing back.
LEMMA ManagerOrders ==
  ASSUME TypeOK, OneOrder, Manager \/ StartPollUnplugged
  PROVE  OneOrder' /\ SentQueue!Next
<1> USE DEF device, history
<1>0. jobs \in Seq(Job) /\ rx \in Seq(Command) /\ OnceOf(jobs) /\ OnceIn(rx)
  BY DEF TypeOK, OneOrder
<1>1. CASE StartPoll
  <2>1. UNCHANGED <<rx, sent, written, stuck>> /\ (jobs' = jobs \/ jobs' = Append(jobs, List))
    BY <1>1, PollModemTypes DEF StartPoll
  <2>2. OnceOf(jobs') /\ JobTexts(jobs') \subseteq JobTexts(jobs)
    <3>1. CASE jobs' = jobs
      BY <1>0, <3>1
    <3>2. CASE jobs' = Append(jobs, List)
      <4>1. List \in Job /\ List.op # "send"
        BY JobTypes
      <4>2. OnceOf(Append(jobs, List)) /\ JobTexts(Append(jobs, List)) \subseteq JobTexts(jobs)
        BY <1>0, <4>1, OrderIssued
      <4> QED
        BY <3>2, <4>2, Zenon
    <3> QED
      BY <2>1, <3>1, <3>2
  <2>3. OnceIn(rx') /\ RxTexts(rx') = RxTexts(rx)
    BY <1>0, <2>1
  <2> QED
    BY <2>1, <2>2, <2>3, FewerOrders
<1>2. CASE StartPollUnplugged \/ CmglFailed \/ CommandTimeout \/ ForceReinit \/ UpdatePath
  <2>1. UNCHANGED <<sent, written>> /\ (rx' = rx \/ (rx # <<>> /\ rx' = Tail(rx)))
    BY <1>2 DEF StartPollUnplugged, CmglFailed, CommandTimeout, ForceReinit, UpdatePath, Take
  <2>2. OnceIn(rx') /\ RxTexts(rx') \subseteq RxTexts(rx)
    BY <1>0, <2>1, TextsTail
  <2>3. jobs' = Dropped(jobs)
    BY <1>2 DEF StartPollUnplugged, CmglFailed, CommandTimeout, ForceReinit, UpdatePath, Reset
  <2>4. Orders(jobs') = {}
    BY <2>3, DroppedTypes DEF Orders
  <2>5. OnceOf(jobs') /\ JobTexts(jobs') = {}
    BY <2>4 DEF OnceOf, JobTexts
  <2> QED
    BY <2>1, <2>2, <2>5, FewerOrders
<1>3. CASE EndPoll
  <2>1. UNCHANGED <<rx, sent, written, stuck, jobs>>
    BY <1>3 DEF EndPoll
  <2> QED
    BY <1>0, <2>1, FewerOrders
<1>4. CASE Cmgl \/ CmglComplete
  <2>1. UNCHANGED <<sent, written, stuck>> /\ rx # <<>> /\ rx' = Tail(rx)
    BY <1>4 DEF Cmgl, CmglComplete, Take
  <2>2. OnceIn(rx') /\ RxTexts(rx') \subseteq RxTexts(rx)
    BY <1>0, <2>1, TextsTail
  <2>3. PICK job \in Job : Issue(<<job>>) /\ job.op # "send"
    BY <1>4, JobTypes DEF Cmgl, CmglComplete
  <2>4. OnceOf(jobs') /\ JobTexts(jobs') \subseteq JobTexts(jobs)
    <3>1. jobs' = jobs \/ jobs' = Append(jobs, job)
      BY <2>3, IssueTypes
    <3>2. OnceOf(Append(jobs, job)) /\ JobTexts(Append(jobs, job)) \subseteq JobTexts(jobs)
      BY <1>0, <2>3, OrderIssued
    <3> QED
      BY <1>0, <3>1, <3>2, Zenon
  <2> QED
    BY <2>1, <2>2, <2>4, FewerOrders
<1>5. CASE SendMessage
  <2> DEFINE t == Head(rx).text
             job == Send(t)
  <2>1. /\ UNCHANGED <<sent, written, stuck>> /\ rx # <<>> /\ rx' = Tail(rx)
        /\ Head(rx).c = "send" /\ Issue(<<job>>)
    BY <1>5 DEF SendMessage, Take
  <2>2. t \in Texts
    BY <2>1, CommandAtHand
  <2>3. job \in Job /\ job.op = "send" /\ job.status = "queued" /\ job.text = t
    BY <2>2, JobTypes
  <2>4. /\ OnceIn(rx') /\ RxTexts(rx') \subseteq RxTexts(rx)
        /\ t \in RxTexts(rx) /\ t \notin RxTexts(rx')
    BY <1>0, <2>1, TextsTail
  <2>5. t \notin JobTexts(jobs) /\ t \notin Elements(sent) /\ t \in written
    BY <2>4 DEF OneOrder
  <2> HIDE DEF t, job
  <2>6. OnceOf(jobs') /\ JobTexts(jobs') \subseteq JobTexts(jobs) \cup {t}
    <3>1. jobs' = jobs \/ jobs' = Append(jobs, job)
      BY <2>1, <2>3, IssueTypes
    <3>2. OnceOf(Append(jobs, job)) /\ JobTexts(Append(jobs, job)) \subseteq JobTexts(jobs) \cup {t}
      BY <1>0, <2>3, <2>5, OrderIssued
    <3> QED
      BY <1>0, <3>1, <3>2
  <2>7. OneOrder'
    <3>1. Elements(sent)' = Elements(sent) /\ Elements(sent') = Elements(sent)
      BY <2>1
    <3>2. RxTexts(rx') \cap JobTexts(jobs') = {} /\ RxTexts(rx') \cap Elements(sent') = {}
      BY <2>4, <2>6, <3>1 DEF OneOrder
    <3>3. ~stuck' => JobTexts(jobs') \cap Elements(sent') = {}
      BY <2>1, <2>5, <2>6, <3>1 DEF OneOrder
    <3>4. RxTexts(rx') \cup JobTexts(jobs') \cup Elements(sent') \subseteq written'
      BY <2>1, <2>4, <2>5, <2>6, <3>1 DEF OneOrder
    <3> QED
      BY <2>4, <2>6, <3>2, <3>3, <3>4 DEF OneOrder
  <2>8. (Outgoing \ Elements(sent))' \subseteq Outgoing \ Elements(sent)
    <3>1. Outgoing' \subseteq Outgoing
      BY <2>4, <2>6, OutgoingIs
    <3> QED
      BY <2>1, <3>1
  <2> QED
    BY <2>1, <2>7, <2>8 DEF SentQueue!Next, SentQueue!Lose
<1>6. ASSUME NEW m \in Sms, StoreSms(m)
      PROVE  OneOrder' /\ SentQueue!Next
  <2>1. UNCHANGED <<jobs, sent, written, stuck>>
    BY <1>6 DEF StoreSms
  <2>2. /\ DOMAIN rx' = DOMAIN rx
        /\ \A i \in DOMAIN rx' : rx'[i].c = "send" => rx'[i] = rx[i]
    BY <1>6, StoreSmsShape
  <2>3. OnceIn(rx')
    BY <1>0, <2>2 DEF OnceIn
  <2>4. RxTexts(rx') \subseteq RxTexts(rx)
    BY <2>2 DEF RxTexts, Elements
  <2> QED
    BY <1>0, <2>1, <2>3, <2>4, FewerOrders
<1> QED
  BY <1>1, <1>2, <1>3, <1>4, <1>5, <1>6 DEF Manager

\* The modem sends what waits to be executed; a command whose answer is lost
\* stops those behind it, and is never executed again.
LEMMA ModemSends ==
  ASSUME TypeOK, OneOrder, NEW i \in DOMAIN jobs,
         Execute(i) \/ Refuse(i) \/ LoseAnswer(i)
  PROVE  OneOrder' /\ SentQueue!Next
<1> USE DEF device, history
<1>0. /\ jobs \in Seq(Job) /\ OnceOf(jobs) /\ OnceIn(rx)
      /\ jobs[i] \in Job /\ jobs[i].status = "queued" /\ ~stuck
      /\ rx' = rx /\ written' = written
      /\ OnceIn(rx') /\ RxTexts(rx') = RxTexts(rx)
  <2>1. jobs \in Seq(Job) /\ OnceOf(jobs) /\ OnceIn(rx)
    BY DEF TypeOK, OneOrder
  <2>2. jobs[i].status = "queued" /\ ~stuck /\ rx' = rx /\ written' = written
    BY DEF Execute, Refuse, LoseAnswer, IsNext, modem
  <2> QED
    BY <2>1, <2>2, AnswerType
<1>1. CASE sent' = sent
  <2>1. OnceOf(jobs') /\ JobTexts(jobs') \subseteq JobTexts(jobs)
    <3>1. CASE jobs' = jobs
      BY <1>0, <3>1
    <3>2. CASE jobs' # jobs
      <4>1. With(i, Answer(jobs[i])) \/ With(i, [jobs[i] EXCEPT !.status = "failed"])
        BY <3>2 DEF Execute, Refuse, LoseAnswer
      <4>2. \E job \in Job : With(i, job) /\ job.status # "queued"
        <5> DEFINE f == [jobs[i] EXCEPT !.status = "failed"]
        <5>1. f \in Job /\ f.status = "failed" /\ Answer(jobs[i]) \in Job /\ Answer(jobs[i]).status = "answered"
          BY <1>0, JobTypes, AnswerType
        <5>2. With(i, Answer(jobs[i])) \/ With(i, f)
          BY <4>1
        <5> HIDE DEF f
        <5> QED
          BY <5>1, <5>2
      <4> QED
        BY <1>0, <4>2, OrderDone
    <3> QED
      BY <3>1, <3>2
  <2> QED
    BY <1>0, <1>1, <2>1, FewerOrders
<1>2. CASE sent' # sent
  <2> DEFINE t == jobs[i].text
  <2>1. Effect(jobs[i]) /\ (Execute(i) \/ (LoseAnswer(i) /\ jobs' = jobs /\ stuck' = TRUE))
    BY <1>2 DEF Execute, Refuse, LoseAnswer
  <2>2. jobs[i].op = "send" /\ sent' = Append(sent, t)
    BY <1>0, <1>2, <2>1, EffectTypes, JobTypes
  <2>3. t \in Texts /\ i \in Orders(jobs) /\ t \in JobTexts(jobs)
    BY <1>0, <2>2, JobTypes DEF Orders, JobTexts
  <2>4. t \notin Elements(sent) /\ t \in written /\ t \notin RxTexts(rx)
    BY <1>0, <2>3 DEF OneOrder
  <2> HIDE DEF t
  <2>5. Elements(sent') = Elements(sent) \cup {t}
    BY <2>2, <2>3, ElementsOf DEF TypeOK
  <2>6. /\ OnceOf(jobs') /\ JobTexts(jobs') \subseteq JobTexts(jobs)
        /\ ~stuck' => t \notin JobTexts(jobs')
        /\ JobTexts(jobs) \ {t} \subseteq JobTexts(jobs')
    <3>1. CASE Execute(i)
      <4>1. With(i, Answer(jobs[i])) /\ Answer(jobs[i]) \in Job /\ Answer(jobs[i]).status = "answered"
        BY <3>1, AnswerType DEF Execute
      <4>2. /\ OnceOf(jobs') /\ JobTexts(jobs') \subseteq JobTexts(jobs)
            /\ t \notin JobTexts(jobs')
        BY <1>0, <2>3, <4>1, OrderDone DEF t
      <4>3. \A j \in Orders(jobs) : j # i => j \in Orders(jobs') /\ jobs'[j] = jobs[j]
        BY <4>1, WithType DEF Orders
      <4>4. JobTexts(jobs) \ {t} \subseteq JobTexts(jobs')
        BY <4>3 DEF JobTexts, t
      <4> QED
        BY <4>2, <4>4
    <3>2. CASE jobs' = jobs /\ stuck' = TRUE
      BY <1>0, <3>2
    <3> QED
      BY <2>1, <3>1, <3>2
  <2>7. OneOrder'
    <3>1. RxTexts(rx') \cap JobTexts(jobs') = {} /\ RxTexts(rx') \cap Elements(sent') = {}
      BY <1>0, <2>4, <2>5, <2>6 DEF OneOrder
    <3>2. ~stuck' => JobTexts(jobs') \cap Elements(sent') = {}
      BY <1>0, <2>5, <2>6 DEF OneOrder
    <3>3. RxTexts(rx') \cup JobTexts(jobs') \cup Elements(sent') \subseteq written'
      BY <1>0, <2>4, <2>5, <2>6 DEF OneOrder
    <3> QED
      BY <1>0, <2>6, <3>1, <3>2, <3>3 DEF OneOrder
  <2>8. /\ (Outgoing \ Elements(sent))' = (Outgoing \ Elements(sent)) \ {t}
        /\ t \in Outgoing \ Elements(sent)
    <3>1. Outgoing' \ {t} = Outgoing \ {t} /\ t \in Outgoing
      BY <1>0, <2>3, <2>6, OutgoingIs
    <3> QED
      BY <2>4, <2>5, <3>1
  <2> QED
    BY <1>0, <2>2, <2>7, <2>8 DEF SentQueue!Next, SentQueue!Deliver
<1> QED
  BY <1>1, <1>2

\* The spawned commands order nothing again, and the user orders each text
\* once.
LEMMA OthersOrder ==
  ASSUME TypeOK, OneOrder, Next, ~(Manager \/ StartPollUnplugged)
  PROVE  OneOrder' /\ SentQueue!Next
<1> USE DEF device, history
<1>0. jobs \in Seq(Job) /\ rx \in Seq(Command) /\ OnceOf(jobs) /\ OnceIn(rx)
  BY DEF TypeOK, OneOrder
<1>1. ASSUME NEW i \in DOMAIN jobs, Resolve(i) \/ Fail(i) \/ Timeout(i)
      PROVE  OneOrder' /\ SentQueue!Next
  <2>1. \E commands \in Seq(Command) :
          Outcome(i, commands) /\ \A k \in DOMAIN commands : commands[k].c # "send"
    <3> DEFINE r == IF jobs[i].op = "list" THEN <<[c |-> "complete", found |-> jobs[i].found]>> ELSE <<>>
    <3>1. jobs[i].op \in {"list", "delete", "send"}
      BY AnswerType, JobTypes
    <3>2. \A op \in {"list", "delete", "send"} : \A k \in DOMAIN Failure(op) : Failure(op)[k].c # "send"
      BY DEF Failure
    <3>3. \A k \in DOMAIN r : r[k].c # "send"
      OBVIOUS
    <3>4. r \in Seq(Command) /\ Failure(jobs[i].op) \in Seq(Command)
      BY OutcomeCommands
    <3>5. Outcome(i, Failure(jobs[i].op)) \/ Outcome(i, r)
      BY <1>1 DEF Fail, Timeout, Resolve
    <3> HIDE DEF r
    <3>6. CASE Outcome(i, Failure(jobs[i].op))
      BY <3>1, <3>2, <3>4, <3>6
    <3>7. CASE Outcome(i, r)
      BY <3>3, <3>4, <3>7
    <3> QED
      BY <3>5, <3>6, <3>7
  <2>2. PICK commands \in Seq(Command) :
          Outcome(i, commands) /\ \A k \in DOMAIN commands : commands[k].c # "send"
    BY <2>1
  <2>3. UNCHANGED <<sent, written, stuck>> /\ rx' = rx \o commands
    BY <2>2 DEF Outcome
  <2>4. OnceIn(rx') /\ RxTexts(rx') = RxTexts(rx)
    BY <1>0, <2>2, <2>3, TextsOthers
  <2>5. OnceOf(jobs') /\ JobTexts(jobs') \subseteq JobTexts(jobs)
    BY <1>0, <2>2, OrderThrough
  <2> QED
    BY <2>3, <2>4, <2>5, FewerOrders
<1>2. ASSUME NEW com \in Command, Queue(com), com.c # "send", written' = written
      PROVE  OneOrder' /\ SentQueue!Next
  <2>1. UNCHANGED <<sent, jobs, stuck>> /\ rx' = Append(rx, com)
    BY <1>2 DEF Queue
  <2>2. <<com>> \in Seq(Command) /\ rx' = rx \o <<com>> /\ \A k \in DOMAIN <<com>> : <<com>>[k].c # "send"
    BY <1>0, <1>2, <2>1
  <2>3. OnceIn(rx') /\ RxTexts(rx') = RxTexts(rx)
    BY <1>0, <2>2, TextsOthers
  <2> QED
    BY <1>0, <1>2, <2>1, <2>3, FewerOrders
<1>3. CASE \/ Timer
           \/ \E com \in [c : {"reinit"}] \cup [c : {"path"}, to : BOOLEAN] : Order(com)
  <2>1. /\ [c |-> "cmgl"] \in Command /\ [c |-> "cmgl"].c # "send"
        /\ \A com \in [c : {"reinit"}] \cup [c : {"path"}, to : BOOLEAN] :
              com \in Command /\ com.c # "send"
    BY DEF Command
  <2>2. \E com \in Command : Queue(com) /\ com.c # "send" /\ written' = written
    BY <1>3, <2>1 DEF Timer, Order
  <2> QED
    BY <1>2, <2>2
<1>4. ASSUME NEW t \in Texts, Write(t)
      PROVE  OneOrder' /\ SentQueue!Next
  <2> DEFINE com == [c |-> "send", text |-> t]
  <2>1. com \in Command /\ com.c = "send" /\ com.text = t
    BY DEF Command
  <2>2. /\ UNCHANGED <<sent, jobs, stuck>> /\ rx' = Append(rx, com)
        /\ t \notin written /\ written' = written \cup {t}
    BY <1>4 DEF Write, Queue
  <2> HIDE DEF com
  <2>3. t \notin RxTexts(rx) /\ t \notin JobTexts(jobs) /\ t \notin Elements(sent)
    BY <2>2 DEF OneOrder
  <2>4. OnceIn(rx') /\ RxTexts(rx') = RxTexts(rx) \cup {t}
    BY <1>0, <2>1, <2>2, <2>3, TextsAppend
  <2>5. OneOrder'
    BY <2>2, <2>3, <2>4 DEF OneOrder
  <2>6. /\ (Outgoing \ Elements(sent))' = (Outgoing \ Elements(sent)) \cup {t}
        /\ t \notin Outgoing \ Elements(sent)
    <3>1. Outgoing' = Outgoing \cup {t} /\ t \notin Outgoing
      BY <2>2, <2>3, <2>4, OutgoingIs
    <3> QED
      BY <2>2, <2>3, <3>1
  <2> QED
    BY <2>2, <2>5, <2>6 DEF SentQueue!Next, SentQueue!Accept
<1>5. ASSUME NEW m \in Sms, SmsArrives(m)
      PROVE  OneOrder' /\ SentQueue!Next
  <2>1. UNCHANGED <<rx, jobs, sent, written, stuck>>
    BY <1>5 DEF SmsArrives
  <2> QED
    BY <1>0, <2>1, FewerOrders
<1>6. CASE Crash
  <2>1. UNCHANGED <<sent, written>> /\ jobs' = <<>> /\ rx' = <<[c |-> "cmgl"]>>
    BY <1>6 DEF Crash
  <2>2. JobTexts(jobs') = {} /\ OnceOf(jobs')
    BY <2>1 DEF JobTexts, Orders, OnceOf
  <2>3. RxTexts(rx') = {} /\ OnceIn(rx')
    BY <2>1 DEF RxTexts, Elements, OnceIn
  <2> QED
    BY <2>1, <2>2, <2>3, FewerOrders
<1>7. CASE Works \/ TimesOut \/ ListFails \/ SendFails
  BY <1>1, <1>7, ModemSends DEF Works, TimesOut, ListFails, SendFails, Listings
<1> QED
  BY <1>3, <1>4, <1>5, <1>6, <1>7, ModemSends DEF Next

\* Commands that are lost, refused or reset are never issued again: sending
\* implements a queue that conveys a text to the network at most once.
THEOREM SendsAtMostOnce == Spec => SentAtMostOnce
<1>1. Init => OneOrder /\ SentQueue!Init
  <2> SUFFICES ASSUME Init
               PROVE  OneOrder /\ SentQueue!Init
    OBVIOUS
  <2>1. JobTexts(jobs) = {} /\ OnceOf(jobs) /\ Elements(sent) = {}
    BY DEF Init, JobTexts, Orders, OnceOf, Elements
  <2>2. RxTexts(rx) = {} /\ OnceIn(rx)
    BY DEF Init, RxTexts, Elements, OnceIn
  <2>3. OneOrder
    BY <2>1, <2>2 DEF OneOrder
  <2>4. Outgoing \ Elements(sent) = {}
    BY <2>1, <2>2, OutgoingIs
  <2> QED
    BY <2>3, <2>4 DEF Init, SentQueue!Init
<1>2. TypeOK /\ OneOrder /\ [Next]_vars => OneOrder' /\ [SentQueue!Next]_(SentQueue!vars)
  <2> SUFFICES ASSUME TypeOK, OneOrder, [Next]_vars
               PROVE  OneOrder' /\ [SentQueue!Next]_(SentQueue!vars)
    OBVIOUS
  <2>1. CASE Next
    BY <2>1, ManagerOrders, OthersOrder
  <2>2. CASE UNCHANGED vars
    BY <2>2 DEF vars, OneOrder, Outgoing, SentQueue!vars
  <2> QED
    BY <2>1, <2>2
<1> QED
  BY <1>1, <1>2, ModemTypes, PTL DEF Spec, SentAtMostOnce, SentQueue!Spec

-----------------------------------------------------------------------------
\* The theorem about the abstract specification, for what it is here
StoredProofs == INSTANCE AtMostOnceProofs
                  WITH used <- arrived, waiting <- Unread \cup InHand, delivered <- stored
SentProofs == INSTANCE AtMostOnceProofs
                WITH used <- written, waiting <- Outgoing \ Elements(sent), delivered <- sent

\* So no SMS is twice in the database, none that is there is listed again,
\* and no text of the user went out twice.
THEOREM OnceEach ==
  Spec => []( /\ \A i, j \in DOMAIN stored : stored[i] = stored[j] => i = j
              /\ (Unread \cup InHand) \cap Elements(stored) = {}
              /\ \A i, j \in DOMAIN sent : sent[i] = sent[j] => i = j)
<1>1. Spec => StoredProofs!Spec
  <2>1. StoredQueue!Init => StoredProofs!Init
    BY DEF StoredQueue!Init, StoredProofs!Init
  <2>2. [StoredQueue!Next]_(StoredQueue!vars) => [StoredProofs!Next]_(StoredProofs!vars)
    BY DEF StoredQueue!Next, StoredQueue!Lose, StoredQueue!Accept, StoredQueue!Deliver, StoredQueue!vars,
           StoredProofs!Next, StoredProofs!Lose, StoredProofs!Accept, StoredProofs!Deliver, StoredProofs!vars
  <2> QED
    BY StoresAtMostOnce, <2>1, <2>2, PTL DEF StoredAtMostOnce, StoredQueue!Spec, StoredProofs!Spec
<1>2. Spec => SentProofs!Spec
  <2>1. SentQueue!Init => SentProofs!Init
    BY DEF SentQueue!Init, SentProofs!Init
  <2>2. [SentQueue!Next]_(SentQueue!vars) => [SentProofs!Next]_(SentProofs!vars)
    BY DEF SentQueue!Next, SentQueue!Lose, SentQueue!Accept, SentQueue!Deliver, SentQueue!vars,
           SentProofs!Next, SentProofs!Lose, SentProofs!Accept, SentProofs!Deliver, SentProofs!vars
  <2> QED
    BY SendsAtMostOnce, <2>1, <2>2, PTL DEF SentAtMostOnce, SentQueue!Spec, SentProofs!Spec
<1>3. StoredProofs!Spec => []StoredProofs!OnceInv
  BY StoredProofs!ConveyedOnce
<1>4. SentProofs!Spec => []SentProofs!OnceInv
  BY SentProofs!ConveyedOnce
<1>5. StoredProofs!OnceInv => /\ \A i, j \in DOMAIN stored : stored[i] = stored[j] => i = j
                             /\ (Unread \cup InHand) \cap Elements(stored) = {}
  BY DEF StoredProofs!OnceInv, StoredProofs!Once, StoredProofs!Elements, Elements
<1>6. SentProofs!OnceInv => \A i, j \in DOMAIN sent : sent[i] = sent[j] => i = j
  BY DEF SentProofs!OnceInv, SentProofs!Once
<1> QED
  BY <1>1, <1>2, <1>3, <1>4, <1>5, <1>6, PTL

-----------------------------------------------------------------------------
(* No text is forgotten *)

\* The texts of all sendings, whatever their status.
Sendings(js) == {js[i].text : i \in {j \in DOMAIN js : js[j].op = "send"}}

\* The inductive invariant: what the modem has answered, it has sent, so that the
\* text is still accounted for when the future is through.
AnsweredIsSent ==
  \A i \in DOMAIN jobs : jobs[i].op = "send" /\ jobs[i].status = "answered" => jobs[i].text \in Elements(sent)

\* A step that forgets none of the texts it had.
ForgetsNone == AnsweredIsSent' /\ Accounted \subseteq Accounted'

\* What is accounted for.
LEMMA AccountedIs ==
  /\ Accounted = RxTexts(rx) \cup Sendings(jobs) \cup Elements(sent) \cup failed
  /\ Accounted' = RxTexts(rx') \cup Sendings(jobs') \cup Elements(sent') \cup failed'
BY DEF Accounted, Listings, RxTexts, Sendings

\* If rx, the jobs, what was sent and what failed keep their texts, so does the
\* whole.
LEMMA TextsKept ==
  ASSUME AnsweredIsSent', RxTexts(rx) \subseteq RxTexts(rx'),
         Sendings(jobs) \subseteq Sendings(jobs') \cup Elements(sent') \cup failed',
         Elements(sent) \subseteq Elements(sent'), failed \subseteq failed'
  PROVE  ForgetsNone
BY AccountedIs DEF ForgetsNone

\* A further command: the others stay as they are, and it is not answered.
LEMMA SendingsAppend ==
  ASSUME NEW js \in Seq(Job), NEW job \in Job, job.status = "queued", NEW S,
         \A i \in DOMAIN js : js[i].op = "send" /\ js[i].status = "answered" => js[i].text \in S
  PROVE  LET ks == Append(js, job) IN
         /\ Sendings(js) \subseteq Sendings(ks)
         /\ job.op = "send" => job.text \in Sendings(ks)
         /\ \A i \in DOMAIN ks : ks[i].op = "send" /\ ks[i].status = "answered" => ks[i].text \in S
<1>1. PICK ks : ks = Append(js, job)
  OBVIOUS
<1>2. /\ DOMAIN js = 1 .. Len(js) /\ DOMAIN ks = 1 .. Len(js) + 1 /\ Len(js) \in Nat
      /\ ks[Len(js) + 1] = job /\ \A i \in DOMAIN js : ks[i] = js[i]
  BY <1>1
<1>3. /\ \A i \in DOMAIN js : i \in DOMAIN ks
      /\ Len(js) + 1 \in DOMAIN ks
      /\ \A i \in DOMAIN ks : i \in DOMAIN js \/ i = Len(js) + 1
  BY <1>2
<1>4. Sendings(js) \subseteq Sendings(ks)
  BY <1>2, <1>3 DEF Sendings
<1>5. job.op = "send" => job.text \in Sendings(ks)
  BY <1>2, <1>3 DEF Sendings
<1>6. \A i \in DOMAIN ks : ks[i].op = "send" /\ ks[i].status = "answered" => ks[i].text \in S
  BY <1>2, <1>3
<1> QED
  BY <1>1, <1>4, <1>5, <1>6

\* The text of a command is the same whatever becomes of it.
LEMMA TextStays ==
  ASSUME NEW job \in Job, job.op = "send"
  PROVE  [job EXCEPT !.status = "failed"].text = job.text /\ Answer(job).text = job.text
BY DEF Job, Answer

\* A command that is not to send a text is taken off rx.
LEMMA OtherTaken ==
  ASSUME TypeOK, rx # <<>>, rx' = Tail(rx), Head(rx).c # "send"
  PROVE  RxTexts(rx) \subseteq RxTexts(rx')
BY CommandAtHand DEF RxTexts

\* The manager: a reset fails the sendings, it drops none, and a text that
\* cannot be sent is reported.
LEMMA ManagerForgetsNone ==
  ASSUME TypeOK, AnsweredIsSent, Manager \/ StartPollUnplugged
  PROVE  ForgetsNone
<1> USE DEF device, history
<1>0. jobs \in Seq(Job) /\ rx \in Seq(Command)
  BY DEF TypeOK
<1>1. CASE StartPoll
  <2>1. UNCHANGED <<rx, sent, failed>> /\ (jobs' = jobs \/ jobs' = Append(jobs, List))
    BY <1>1, PollModemTypes DEF StartPoll
  <2>2. AnsweredIsSent' /\ Sendings(jobs) \subseteq Sendings(jobs')
    <3>1. CASE jobs' = jobs
      BY <2>1, <3>1 DEF AnsweredIsSent
    <3>2. CASE jobs' = Append(jobs, List)
      <4>1. List \in Job /\ List.status = "queued"
        BY JobTypes
      <4> QED
        BY <1>0, <2>1, <3>2, <4>1, SendingsAppend DEF AnsweredIsSent
    <3> QED
      BY <2>1, <3>1, <3>2
  <2> QED
    BY <2>1, <2>2, TextsKept
<1>2. CASE StartPollUnplugged \/ CmglFailed \/ CommandTimeout \/ ForceReinit \/ UpdatePath
  <2>1. /\ UNCHANGED <<sent, failed>> /\ jobs' = Dropped(jobs)
        /\ rx' = rx \/ (rx # <<>> /\ rx' = Tail(rx) /\ Head(rx).c # "send")
    BY <1>2 DEF StartPollUnplugged, CmglFailed, CommandTimeout, ForceReinit, UpdatePath, Take, Reset
  <2>2. RxTexts(rx) \subseteq RxTexts(rx')
    BY <2>1, OtherTaken
  <2>3. ASSUME NEW i \in DOMAIN jobs
        PROVE  /\ i \in DOMAIN jobs' /\ jobs'[i].op = jobs[i].op /\ jobs'[i].status = "failed"
               /\ jobs[i].op = "send" => jobs'[i].text = jobs[i].text
    <3>1. jobs[i] \in Job /\ jobs'[i] = [jobs[i] EXCEPT !.status = "failed"]
      BY <1>0, <2>1 DEF Dropped
    <3>2. i \in DOMAIN jobs' /\ jobs'[i].op = jobs[i].op /\ jobs'[i].status = "failed"
      BY <2>1, DroppedTypes
    <3> QED
      BY <3>1, <3>2, TextStays
  <2>4. DOMAIN jobs' = DOMAIN jobs
    BY <2>1, DroppedTypes
  <2>5. AnsweredIsSent'
    BY <2>3, <2>4 DEF AnsweredIsSent
  <2>6. Sendings(jobs) \subseteq Sendings(jobs')
    BY <2>3 DEF Sendings
  <2> QED
    BY <2>1, <2>2, <2>5, <2>6, TextsKept
<1>3. CASE EndPoll
  <2>1. UNCHANGED <<rx, sent, failed, jobs>>
    BY <1>3 DEF EndPoll
  <2> QED
    BY <2>1, TextsKept DEF AnsweredIsSent
<1>4. CASE Cmgl \/ CmglComplete
  <2>1. UNCHANGED <<sent, failed>> /\ rx # <<>> /\ rx' = Tail(rx) /\ Head(rx).c # "send"
    BY <1>4 DEF Cmgl, CmglComplete, Take
  <2>2. RxTexts(rx) \subseteq RxTexts(rx')
    BY <2>1, OtherTaken
  <2>3. PICK job \in Job : Issue(<<job>>) /\ job.status = "queued"
    BY <1>4, JobTypes DEF Cmgl, CmglComplete
  <2>4. jobs' = jobs \/ jobs' = Append(jobs, job)
    BY <2>3, IssueTypes
  <2>5. AnsweredIsSent' /\ Sendings(jobs) \subseteq Sendings(jobs')
    <3>1. CASE jobs' = jobs
      BY <2>1, <3>1 DEF AnsweredIsSent
    <3>2. CASE jobs' = Append(jobs, job)
      BY <1>0, <2>1, <2>3, <3>2, SendingsAppend DEF AnsweredIsSent
    <3> QED
      BY <2>4, <3>1, <3>2
  <2> QED
    BY <2>1, <2>2, <2>5, TextsKept
<1>5. CASE SendMessage
  <2> DEFINE t == Head(rx).text
             job == Send(t)
  <2>1. /\ sent' = sent /\ rx # <<>> /\ rx' = Tail(rx) /\ Head(rx).c = "send" /\ Issue(<<job>>)
        /\ failed' = IF inner = "Running" THEN failed ELSE failed \cup {t}
    BY <1>5 DEF SendMessage, Take
  <2>2. t \in Texts
    BY <2>1, CommandAtHand
  <2>3. job \in Job /\ job.op = "send" /\ job.status = "queued" /\ job.text = t
    BY <2>2, JobTypes
  <2>4. RxTexts(rx) \subseteq RxTexts(rx') \cup {t}
    BY <2>1, CommandAtHand DEF RxTexts
  <2> HIDE DEF t, job
  <2>5. CASE inner = "Running"
    <3>1. jobs' = Append(jobs, job) /\ failed' = failed
      BY <2>1, <2>3, <2>5, IssueTypes
    <3>2. AnsweredIsSent' /\ Sendings(jobs) \subseteq Sendings(jobs') /\ t \in Sendings(jobs')
      BY <1>0, <2>1, <2>3, <3>1, SendingsAppend DEF AnsweredIsSent
    <3> QED
      BY <2>1, <2>4, <3>1, <3>2, AccountedIs DEF ForgetsNone
  <2>6. CASE inner # "Running"
    <3>1. jobs' = jobs /\ failed' = failed \cup {t}
      BY <2>1, <2>3, <2>6, IssueTypes
    <3>2. AnsweredIsSent'
      BY <2>1, <3>1 DEF AnsweredIsSent
    <3> QED
      BY <2>1, <2>4, <3>1, <3>2, AccountedIs DEF ForgetsNone
  <2> QED
    BY <2>5, <2>6
<1>6. ASSUME NEW m \in Sms, StoreSms(m)
      PROVE  ForgetsNone
  <2>1. UNCHANGED <<jobs, sent, failed>>
    BY <1>6 DEF StoreSms
  <2>2. DOMAIN rx' = DOMAIN rx /\ \A i \in DOMAIN rx : rx[i].c = "send" => rx'[i] = rx[i]
    BY <1>6, StoreSmsShape
  <2>3. RxTexts(rx) \subseteq RxTexts(rx')
    BY <2>2 DEF RxTexts, Elements
  <2> QED
    BY <2>1, <2>3, TextsKept DEF AnsweredIsSent
<1> QED
  BY <1>1, <1>2, <1>3, <1>4, <1>5, <1>6 DEF Manager

\* The modem answers a sending when it has sent the text, and refuses or loses
\* it without changing the text.
LEMMA ModemForgetsNone ==
  ASSUME TypeOK, AnsweredIsSent, NEW i \in DOMAIN jobs,
         Execute(i) \/ Refuse(i) \/ LoseAnswer(i)
  PROVE  ForgetsNone
<1> USE DEF device, history
<1>1. /\ jobs[i] \in Job /\ UNCHANGED <<rx, failed>>
      /\ sent' = sent \/ Effect(jobs[i])
  BY AnswerType DEF Execute, Refuse, LoseAnswer, modem
<1>2. sent' = sent \/ (jobs[i].op = "send" /\ sent' = Append(sent, jobs[i].text))
  BY <1>1, EffectTypes, JobTypes
<1>3. Elements(sent) \subseteq Elements(sent')
  <2>1. CASE sent' = sent
    BY <2>1
  <2>2. CASE jobs[i].op = "send" /\ sent' = Append(sent, jobs[i].text)
    <3>1. jobs[i].text \in Texts /\ sent \in Seq(Texts)
      BY <1>1, <2>2, JobTypes DEF TypeOK
    <3>2. Elements(Append(sent, jobs[i].text)) = Elements(sent) \cup {jobs[i].text}
      BY <3>1, ElementsAppended
    <3> QED
      BY <2>2, <3>2
  <2> QED
    BY <1>2, <2>1, <2>2
<1>4. CASE jobs' = jobs
  <2>1. AnsweredIsSent'
    BY <1>3, <1>4 DEF AnsweredIsSent
  <2> QED
    BY <1>1, <1>3, <1>4, <2>1, TextsKept
<1>5. ASSUME NEW job \in Job, With(i, job), jobs[i].op = "send" => job.op = "send" /\ job.text = jobs[i].text,
             job.op = "send" /\ job.status = "answered" => job.text \in Elements(sent')
      PROVE  ForgetsNone
  <2>1. /\ DOMAIN jobs' = DOMAIN jobs /\ jobs'[i] = job
        /\ \A j \in DOMAIN jobs : j # i => jobs'[j] = jobs[j]
    BY <1>5, WithType
  <2>2. ASSUME NEW j \in DOMAIN jobs'
        PROVE  jobs'[j].op = "send" /\ jobs'[j].status = "answered" => jobs'[j].text \in Elements(sent')
    <3>1. CASE j = i
      BY <1>5, <2>1, <3>1
    <3>2. CASE j # i
      BY <1>3, <2>1, <2>2, <3>2 DEF AnsweredIsSent
    <3> QED
      BY <3>1, <3>2
  <2>3. AnsweredIsSent'
    BY <2>2 DEF AnsweredIsSent
  <2>4. \A j \in DOMAIN jobs : jobs[j].op = "send" => /\ j \in DOMAIN jobs' /\ jobs'[j].op = "send"
                                                      /\ jobs'[j].text = jobs[j].text
    BY <1>5, <2>1
  <2>5. Sendings(jobs) \subseteq Sendings(jobs')
    BY <2>4 DEF Sendings
  <2> QED
    BY <1>1, <1>3, <2>3, <2>5, TextsKept
<1>6. CASE Execute(i)
  <2>1. With(i, Answer(jobs[i])) /\ Effect(jobs[i])
    BY <1>6 DEF Execute
  <2>2. Answer(jobs[i]) \in Job /\ Answer(jobs[i]).op = jobs[i].op
    BY AnswerType
  <2>3. jobs[i].op = "send" => Answer(jobs[i]).text = jobs[i].text
    BY <1>1, TextStays
  <2>4. jobs[i].op = "send" => jobs[i].text \in Elements(sent')
    <3> SUFFICES ASSUME jobs[i].op = "send"
                 PROVE  jobs[i].text \in Elements(sent')
      OBVIOUS
    <3>1. sent' = Append(sent, jobs[i].text)
      BY <1>1, <2>1, EffectTypes
    <3>2. jobs[i].text \in Texts /\ sent \in Seq(Texts)
      BY <1>1, JobTypes DEF TypeOK
    <3>3. Elements(Append(sent, jobs[i].text)) = Elements(sent) \cup {jobs[i].text}
      BY <3>2, ElementsAppended
    <3> QED
      BY <3>1, <3>3
  <2> QED
    BY <1>5, <2>1, <2>2, <2>3, <2>4
<1>7. CASE Refuse(i)
  <2> DEFINE f == [jobs[i] EXCEPT !.status = "failed"]
  <2>1. f \in Job /\ f.op = jobs[i].op /\ f.status = "failed"
    BY <1>1, JobTypes
  <2>2. jobs[i].op = "send" => f.text = jobs[i].text
    BY <1>1, TextStays
  <2>3. With(i, f)
    BY <1>7 DEF Refuse
  <2> HIDE DEF f
  <2> QED
    BY <1>5, <2>1, <2>2, <2>3
<1>8. CASE LoseAnswer(i)
  BY <1>4, <1>8 DEF LoseAnswer
<1> QED
  BY <1>6, <1>7, <1>8

\* A future that is through: a sending was answered, or its failure is reported.
LEMMA ThroughForgetsNone ==
  ASSUME TypeOK, AnsweredIsSent, NEW i \in DOMAIN jobs, Resolve(i) \/ Fail(i) \/ Timeout(i)
  PROVE  ForgetsNone
<1> USE DEF device, history
<1> DEFINE r == IF jobs[i].op = "list" THEN <<[c |-> "complete", found |-> jobs[i].found]>> ELSE <<>>
<1>1. r \in Seq(Command) /\ Failure(jobs[i].op) \in Seq(Command) /\ jobs[i] \in Job
  BY OutcomeCommands
<1>2. Outcome(i, Failure(jobs[i].op)) \/ Outcome(i, r)
  BY DEF Fail, Timeout, Resolve
<1> HIDE DEF r
<1>3. PICK commands \in Seq(Command) : Outcome(i, commands)
  BY <1>1, <1>2
<1>4. sent' = sent /\ rx' = rx \o commands /\ rx \in Seq(Command)
  BY <1>3 DEF Outcome, TypeOK
<1>5. RxTexts(rx) \subseteq RxTexts(rx')
  <2>1. Elements(rx \o commands) = Elements(rx) \cup Elements(commands)
    BY <1>4, ElementsJoined
  <2> QED
    BY <1>4, <2>1 DEF RxTexts
<1> DEFINE was(k) == IF k < i THEN k ELSE k + 1
<1>6. \A k \in DOMAIN jobs' : jobs'[k] = jobs[was(k)] /\ was(k) \in DOMAIN jobs
  BY <1>3, OutcomeTypes
<1>7. \A j \in DOMAIN jobs : j # i => \E k \in DOMAIN jobs' : jobs'[k] = jobs[j]
  <2> SUFFICES ASSUME NEW j \in DOMAIN jobs, j # i
               PROVE  \E k \in DOMAIN jobs' : jobs'[k] = jobs[j]
    OBVIOUS
  <2>1. /\ DOMAIN jobs' = 1 .. Len(jobs) - 1 /\ DOMAIN jobs = 1 .. Len(jobs) /\ Len(jobs) \in Nat \ {0}
        /\ \A k \in DOMAIN jobs' : jobs'[k] = jobs[was(k)]
    BY <1>3, OutcomeTypes
  <2>2. CASE j < i
    <3>1. j \in DOMAIN jobs' /\ was(j) = j
      BY <2>1, <2>2
    <3> QED
      BY <2>1, <3>1
  <2>3. CASE ~(j < i)
    <3>1. j - 1 \in DOMAIN jobs' /\ was(j - 1) = j
      BY <2>1, <2>3
    <3> QED
      BY <2>1, <3>1
  <2> QED
    BY <2>2, <2>3
<1> HIDE DEF was
<1>8. AnsweredIsSent'
  BY <1>4, <1>6 DEF AnsweredIsSent
<1>9. failed \subseteq failed' /\ (jobs[i].op = "send" => jobs[i].text \in Elements(sent) \cup failed')
  BY DEF Fail, Timeout, Resolve, AnsweredIsSent
<1>10. Sendings(jobs) \subseteq Sendings(jobs') \cup Elements(sent') \cup failed'
  <2>1. ASSUME NEW j \in DOMAIN jobs, jobs[j].op = "send"
        PROVE  jobs[j].text \in Sendings(jobs') \cup Elements(sent') \cup failed'
    <3>1. CASE j = i
      BY <1>4, <1>9, <2>1, <3>1
    <3>2. CASE j # i
      <4>1. PICK k \in DOMAIN jobs' : jobs'[k] = jobs[j]
        BY <1>7, <3>2
      <4> QED
        BY <2>1, <4>1 DEF Sendings
    <3> QED
      BY <3>1, <3>2
  <2> QED
    BY <2>1 DEF Sendings
<1> QED
  BY <1>4, <1>5, <1>8, <1>9, <1>10, TextsKept

\* What is queued from outside, and the arrival of an SMS.
LEMMA QueueForgetsNone ==
  ASSUME TypeOK, AnsweredIsSent
  PROVE  /\ \A c \in Command : Queue(c) => ForgetsNone /\ (c.c = "send" => c.text \in Accounted')
         /\ \A m \in Sms : SmsArrives(m) => ForgetsNone
<1>1. ASSUME NEW c \in Command, Queue(c)
      PROVE  ForgetsNone /\ (c.c = "send" => c.text \in Accounted')
  <2>1. UNCHANGED <<jobs, sent, failed>> /\ rx' = Append(rx, c) /\ rx \in Seq(Command)
    BY <1>1 DEF Queue, device, TypeOK
  <2>2. Elements(rx') = Elements(rx) \cup {c}
    BY <2>1, ElementsAppended
  <2>3. RxTexts(rx) \subseteq RxTexts(rx') /\ (c.c = "send" => c.text \in RxTexts(rx'))
    BY <2>2 DEF RxTexts
  <2>4. AnsweredIsSent'
    BY <2>1 DEF AnsweredIsSent
  <2> QED
    BY <2>1, <2>3, <2>4, TextsKept, AccountedIs
<1>2. ASSUME NEW m \in Sms, SmsArrives(m)
      PROVE  ForgetsNone
  <2>1. UNCHANGED <<rx, jobs, sent, failed>>
    BY <1>2 DEF SmsArrives
  <2> QED
    BY <2>1, TextsKept DEF AnsweredIsSent
<1> QED
  BY <1>1, <1>2

\* A step forgets no text, unless the process dies, and what is written is
\* accounted for at once.
LEMMA StepForgetsNone ==
  ASSUME TypeOK, AnsweredIsSent, Next
  PROVE  AnsweredIsSent' /\ (Crash \/ (written \ Accounted)' \subseteq written \ Accounted)
<1>1. CASE Crash
  <2>1. DOMAIN jobs' = {}
    BY <1>1 DEF Crash
  <2> QED
    BY <1>1, <2>1 DEF AnsweredIsSent
<1>2. ASSUME NEW t \in Texts, Write(t)
      PROVE  AnsweredIsSent' /\ (written \ Accounted)' \subseteq written \ Accounted
  <2> DEFINE c == [c |-> "send", text |-> t]
  <2>1. c \in Command /\ c.c = "send" /\ c.text = t
    BY DEF Command
  <2>2. Queue(c) /\ written' = written \cup {t}
    BY <1>2 DEF Write
  <2> HIDE DEF c
  <2>3. ForgetsNone /\ t \in Accounted'
    BY <2>1, <2>2, QueueForgetsNone
  <2> QED
    BY <2>2, <2>3 DEF ForgetsNone
<1>3. ASSUME ForgetsNone, written' = written
      PROVE  AnsweredIsSent' /\ (written \ Accounted)' \subseteq written \ Accounted
  BY <1>3 DEF ForgetsNone
<1>4. CASE Manager \/ StartPollUnplugged
  <2>1. written' = written
    BY <1>4 DEF Manager, StartPollUnplugged, StartPoll, EndPoll, Cmgl, StoreSms, CmglComplete, CmglFailed,
                CommandTimeout, ForceReinit, UpdatePath, SendMessage, history
  <2> QED
    BY <1>3, <1>4, <2>1, ManagerForgetsNone
<1>5. ASSUME NEW i \in DOMAIN jobs, Execute(i) \/ Refuse(i) \/ LoseAnswer(i)
      PROVE  AnsweredIsSent' /\ (written \ Accounted)' \subseteq written \ Accounted
  <2>1. written' = written
    BY <1>5 DEF Execute, Refuse, LoseAnswer, modem
  <2> QED
    BY <1>3, <1>5, <2>1, ModemForgetsNone
<1>6. ASSUME NEW i \in DOMAIN jobs, Resolve(i) \/ Fail(i) \/ Timeout(i)
      PROVE  AnsweredIsSent' /\ (written \ Accounted)' \subseteq written \ Accounted
  <2>1. written' = written
    BY <1>6 DEF Resolve, Fail, Timeout, Outcome, history
  <2> QED
    BY <1>3, <1>6, <2>1, ThroughForgetsNone
<1>7. CASE \/ Timer
           \/ \E c \in [c : {"reinit"}] \cup [c : {"path"}, to : BOOLEAN] : Order(c)
  <2>1. /\ [c |-> "cmgl"] \in Command
        /\ \A c \in [c : {"reinit"}] \cup [c : {"path"}, to : BOOLEAN] : c \in Command
    BY DEF Command
  <2>2. PICK c \in Command : Queue(c) /\ written' = written
    BY <1>7, <2>1 DEF Timer, Order
  <2> QED
    BY <1>3, <2>2, QueueForgetsNone
<1>8. ASSUME NEW m \in Sms, SmsArrives(m)
      PROVE  AnsweredIsSent' /\ (written \ Accounted)' \subseteq written \ Accounted
  <2>1. written' = written
    BY <1>8 DEF SmsArrives
  <2> QED
    BY <1>3, <1>8, <2>1, QueueForgetsNone
<1>9. CASE Works \/ TimesOut \/ ListFails \/ SendFails
  BY <1>5, <1>6, <1>9 DEF Works, TimesOut, ListFails, SendFails, Listings
<1> QED
  BY <1>1, <1>2, <1>4, <1>5, <1>7, <1>8, <1>9 DEF Next

\* Whatever happens to the connection, a text that was written is sent, on its
\* way, or reported as failed; only the death of the process loses one.
THEOREM TextsAreTold == Spec => OnlyDeathForgets
<1>1. Init => AnsweredIsSent
  BY DEF Init, AnsweredIsSent
<1>2. TypeOK /\ AnsweredIsSent /\ [Next]_vars
        => AnsweredIsSent' /\ [Crash \/ (written \ Accounted)' \subseteq written \ Accounted]_vars
  <2> SUFFICES ASSUME TypeOK, AnsweredIsSent, [Next]_vars
               PROVE  AnsweredIsSent' /\ [Crash \/ (written \ Accounted)' \subseteq written \ Accounted]_vars
    OBVIOUS
  <2>1. CASE Next
    BY <2>1, StepForgetsNone
  <2>2. CASE UNCHANGED vars
    BY <2>2 DEF vars, device, AnsweredIsSent
  <2> QED
    BY <2>1, <2>2
<1> QED
  BY <1>1, <1>2, ModemTypes, PTL DEF Spec, OnlyDeathForgets
=============================================================================
