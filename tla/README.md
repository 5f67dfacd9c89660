# sms-irc in TLA+

sms-irc bridges SMS (through a 3G modem) and WhatsApp to IRC. In its main mode it
links to an InspIRCd server as a pseudo-server and introduces one IRC user, a
*ghost*, for every contact. This directory models the parts of it in which steps of
several actors meet, checks them with TLC and proves the invariants that matter most
with TLAPS. Source paths are relative to the repository (`src/*.rs`).

## 1. The system

One process, one thread: a tokio-core reactor polls the managers below, which talk
over unbounded channels (`comm.rs`) and share a PostgreSQL database (`store.rs`). A
handler runs to its end before anything else runs. An error that leaves a manager's
`poll` makes `main.rs` panic, so the whole process dies and starts again with the
database alone. Only media downloads run on threads of their own.

| Component | State | Operations | Interaction |
|---|---|---|---|
| InspIRCd link, `insp_s2s.rs` | link state, users, contacts, UUID map, next UUID, outbox | handshake and burst; UID, NICK, QUIT, KILL, SQUIT, PRIVMSG lines; ghosts set up, removed, renamed, switched; queued messages shown and deleted | reads `cf_rx` and `cb_rx` when linked; asks the managers for contacts and sends; owns what the others put into the database |
| Contact traits, `contact_common.rs` | none | setup, query, request, drop, by address or by nick | run by the link (and by the IRC-client mode) |
| Admin commands, `admin.rs`, `control_common.rs` | none | parse and dispatch GHOST, CONTACT, WHATSAPP, MODEM, GROUP, INSP, HELP | queue commands for the link and the managers |
| Presentation, `sender_common.rs` | none | one queued message to lines of IRC; puts fragments of an SMS together; deletes what was shown | run by the link |
| Store, `store.rs`, `schema.rs`, `models.rs` | recipients, messages, groups, WhatsApp session, message ids | one query per call | shared |
| Modem manager, `modem.rs` | state of the modem, path | listing of SMS, their storing and deletion, sending, resets, timeouts | fills messages; `ProcessMessages` and `SetupContact` to the link |
| WhatsApp manager, `whatsapp.rs`, `whatsapp_msg.rs` | session flags, contacts, chats, outbox | messages in and out, contacts, groups, media | fills messages and recipients; `SetupContact`, `ProcessMessages`, `ForwardCommand` to the link |
| WhatsApp connection, `whatsapp_conn.rs` | disabled, waiting, initializing, running | connect, back off, send | wrapped by the manager |
| Acknowledgements, `whatsapp_ack.rs` | outgoing messages | register, ack, alert, expire | part of the manager |
| Media, `whatsapp_media.rs` | a thread per download | download, decrypt, answer | `MediaFinished` to the manager |
| IRC-client mode, `contact_factory.rs`, `contact.rs`, `control.rs` | one IRC client per contact | as the link | alternative to the link |
| IRC server mode, `irc_s2c*.rs` | pending and registered connections | registration, messages | alternative to the link |

What is hard in it, and what makes each part correct:

* **Link.** Three maps and two tables describe a ghost and change in a dozen places;
  the server's view follows with a delay. Messages wait in the database until *events*
  make the link look at the queue. Correct means: maps, database and server agree; no
  nick twice; a private message never reaches the wrong person, whatever happened to
  ghosts while it was on its way; a message is shown at most once across restarts, in
  order, and does not wait for ever while the administrator is there.
* **WhatsApp, sending.** `connected`, the state of the connection and the tracker
  change at different times; messages written while it is away are sent at the next
  session. Correct means: at most once, never silently lost, alerts once.
* **WhatsApp, receiving.** Backlog, live messages and downloads may bring the same
  message twice; crashes fall between storing a message and storing its id; groups are
  bridged, removed and bridged again while files and answers are on their way. Correct
  means: what counts as seen was stored, once, and for the right chat, and a bridged
  group gets its metadata.
* **Modem.** Listing marks messages as read *at the modem*; answers get lost; timeouts
  are reported on a channel and may be stale when read.
* **Presentation.** Lines are split at 350 bytes; fragments arrive in any order, and
  their references are used again. Correct means: an SMS is shown whole, in order, once.

PROJECT.json lists every hazard with its line and with the property that covers it,
or the reason why none does yet.

## 2. Modules

| Module | What it is |
|---|---|
| `InspLink` | the link: one action per line of the server, per ContactFactoryCommand and per iteration of a loop |
| `InspNetwork` | the link with the managers as it sees them, the IRC server and the users of the network; the properties |
| `MCInspNetwork` | constants for TLC |
| `WaSend`, `MCWaSend` | sending through WhatsApp: the manager's poll loop, the connection wrapper, the acknowledgement tracker |
| `WaReceive`, `MCWaReceive` | receiving from WhatsApp: messages, their ids and receipts, downloads, groups and their metadata |
| `ModemSms`, `MCModemSms` | SMS through the modem: the manager, its spawned commands, and the modem |
| `Presentation`, `MCPresentation` | fragments put together, split into lines and chunks, and handed to the socket |
| `AtMostOnce` | what the bridge promises for a message it has taken over; implemented by `InspNetwork`, `WaSend` and `ModemSms` |
| `Maps` | functions that grow and shrink, for HashMaps and tables |
| `MapsProofs` | lemmas about maps, queues and their elements |
| `InspProofs`, `InspShownProofs` | the theorems about `InspNetwork` |
| `WaSendProofs`, `WaReceiveProofs`, `ModemSmsProofs`, `PresentationProofs` | the theorems about these modules |
| `AtMostOnceProofs` | that this specification conveys nothing twice |

`InspLink` shares `recipients`, `messages` and the two channels with what stands for the
managers in `InspNetwork`; the managers themselves (`WaSend`, `WaReceive`, `ModemSms`)
are modules of their own, since they meet the link only in these. What a manager
promises the link (it answers a request, stores and says `ProcessMessages`) is an action
of `InspNetwork`, mapped to the manager's code.

### InspLink and InspNetwork

The variables `state`, `users`, `contacts`, `contacts_uuid_pdua`, `next_user_id` and
`outbox` are the fields of `InspLink` of the same names; `recipients` and `messages`
are tables; `cf_rx` and `mgr_rx` are channels. A handler that loops (do_quasiburst,
process_messages) is a sequence of actions, and `todo` holds what is left of it, so
that `Crash` may fall between two database operations; nothing else of the bridge runs
while `todo` is not empty. `Bridge` is one step of `InspLink::poll`.

The other side is not under `src/` and is modelled from what the code expects of it:
`inbound` is the connection from the server, `net` the users of the network, `seen` the
users of ours the server knows, `got` what the administrator was shown. The server
reads our lines in order (`ServerReads`) and passes on what its users do (`Tell`) once
it has accepted the link. A command of the administrator names a nick of a ghost that
existed when he typed it; a private message names a UUID, and `meant` remembers, for
the property only, whose ghost it was.

Abstracted: a nick is a sequence of numbers (the chosen name and the numbers that
check_nick_for_collisions appends), a message is its id, timestamp, sender and kind;
"partial" is an SMS that cannot be shown (yet). A manager answers a request in one step
(`ManagerStep`), as `make_contact` does. HashMap order is nondeterministic choice.
The outbox is a queue: `sink_outbox!` keeps its order as long as the socket takes
lines. Channels, groups, topics, AWAY, hosts and PING are left out.

### WaSend

`WhatsappManager::poll` is one Rust function, but what it does depends on the order of
its phases, so `at` says where it is: it drains the *events* of the connection, then
the *commands*, hands the *outbox* over, starts again if there was a command (`cont`),
and checks the *acks*. `inner` and `persist` are the fields of the wrapper, `connected`,
`rx`, `outbox` and `outgoing_messages` those of the manager and its tracker. `polled`
says that the connection was polled since it last changed: only then is the task
registered to be woken by it, and `Wake` depends on it. `timer` is the interval of the
tracker, which wakes the manager in any case.

An id is a message and a number: 1 when it is written, 2 when it is sent after having
waited, for `extract_unsent` throws the first id away. Ages are counted in ticks up to
`MaxAge`; `DeltaMs` models the cast of a negative age to `u64`. From outside come the
sessions (`session`), what WhatsApp got (`server`), and its acknowledgements, of any
level, at any time, repeated or never. A connection without a session may swallow what
it is handed. Receiving is in `WaReceive`; presence, and commands that change none of
this, are left out.

### WaReceive

`rx` and `outbox` are the manager's; `wa_msgids`, `messages` and `groups` are tables, the
last one with its serial `next_gid`. `on_message` and the handlers of events of a group
become the list of what they still do, `todo`: rows of the message (a quotation, the
text, the file), its id, the update of a group, a request pushed to the outbox. They run
one after the other without anything of the process in between, except its death.
`Rejected` is the test that decides whether a message is looked at. `downloads` are the
threads, each of which ends at any time by `MediaFinished`. `autocreate` and `mark_read`
are settings and have any value. `groups` maps an id to its group, its channel, and
whether metadata has come (the topic and the participants, which are left out).

WhatsApp is outside `src/`. It tells of a message as new once per connection until it
was marked as read (and of one of ours once), and repeats any as backlog, at any time;
it may answer a question about a group as long as the connection lasts.
Three histories hold what the properties make exceptions of: `cut`, the messages that a
restart caught between their rows and their id, or that were told again while their file
was on its way or as new while they count as trusted; `killed`, those whose download
died with the process; `lost`, the groups of which a question was lost. Who
sent a message, and the contact made for him, are in `InspNetwork`.

### Presentation

`ProcessMessages` takes the rows of the table (`process_messages`), `ProcessMsgPdu` is one
iteration of its loop, with `get_all_concatenated` and `send_raw_message`, and
`DeleteMessage` is one query of the deletion, so that the process may die between two.
`Sink`, `StartSend`, `StartSendNotReady` and `SinkEnds` are the loop of `sink_outbox!`.
`Chunks` is the iterator of `send_raw_message` with its two variables. A character is its place
in the SMS and its width in bytes; a newline has width 0. `MaxLen` is 3 for TLC, where a
character of two bytes meets the limit in every way it can meet 350.

`Selected` picks elements of a sequence (the chunks that are not empty, the rows that are in
the table) and `SortByPart` is `sort_by_key`: the permutation whose parts ascend.

Assumed: each fragment comes once (which `ModemSms` shows of one SMS) and no two SMS of
several fragments share a sender and a reference (`ReferencesDiffer`). Without that the
comparison of `sender_common.rs:98` may never come true, and the fragments wait for ever; the
hazard is listed without a property. An SMS of one fragment has no header, so what
`Reference` gives for it is not assumed to be anything.

### ModemSms

`inner`, `path` (modem_path) and `rx` are the manager's; `jobs` are the futures it
spawned, with what they came to; `polling` is true while `poll` works through its
commands, since nothing else runs meanwhile. `Polled` is `ModemInner::poll`, `Reset` is
`report_error` and the `poll_modem` that follows. `Failure` is what `command_timeout!`
and the future behind it tell the manager: *every* error of a listing is reported
as a timeout and then as a failure, so the manager resets twice.

huawei_modem and the modem are outside `src/`, and assumed to behave as the code
expects: a listing marks as read what it lists and shows what was unread before;
`DeleteReadAndOutgoing` deletes what is read; commands are executed one by one; a
command that gets no answer blocks those behind it as long as the connection lasts; and
dropping the connection fails the commands that are still waiting. An SMS is one
message: the parts of a long one are left out.

### AtMostOnce

The abstract specification has three variables: the messages that came, those that may
still be conveyed, those that were. Three refinement mappings implement it.
`ShownAtMostOnce` (`InspNetwork`): a message waits in the table or as a line in the
outbox, and is conveyed when the administrator sees it. `ConveyedAtMostOnce` (`WaSend`):
it waits as a command, as an unsent entry of the tracker or in the outbox, and is
conveyed when it reaches WhatsApp; ids are forgotten by the mapping, so that a message
sent again under a new id would violate it. `StoredAtMostOnce` and `SentAtMostOnce`
(`ModemSms`): an SMS waits unread at the modem or in the result of a listing, and is
conveyed when it is stored; one of ours waits as a command or a spawned future.

## 3. Runs

Deadlock is not checked in any run: outside events are bounded by `MaxInputs`, and when
they are over and everything is handled the system rightly stops. `Events` names the
kinds of events a run has. Runs named `insp_` are of `MCInspNetwork`, `wa_receiving` of
`MCWaReceive`, the other `wa_` of `MCWaSend`, `modem_` of `MCModemSms`, and `presenting` and
`line_cut` of `MCPresentation`.

| Run | Shows |
|---|---|
| `insp_registry` | `TypeOK`, `Handshake`, `RegistryConsistent`, `GhostsMatchDatabase`, `NicksUnique`, `ServerAgrees`, `GhostForRecipient`: contacts that like the same nick are killed, dropped, renamed and set up again, the control user is killed, a user of the network takes their nick, the bridge restarts, and UUIDs run out (4 of them) |
| `insp_routing` | `RightContact`: messages to and from ghosts that are dropped, killed, set up again and switched between SMS and WhatsApp |
| `insp_liveness` | `NotForgotten`, `OnceInOrder`, `AdminReceivesAll`, `ShownAtMostOnce`: messages of contacts and strangers, backlog with old timestamps, an administrator who leaves, renames himself and is split off, restarts at any step; no message waits without something queued that will look at it, each is shown once and in order, and what can be shown is shown in the end, if the administrator comes and stays |
| `insp_nick_return` | violation of `AdminReceivesAll`: he comes back by a nick change, and nothing looks at the queue |
| `wa_sending` | `TypeOK`, `SessionFlushes`, `PolledAgain`, `NotGivenUp`, `ConveyedAtMostOnce`: connections fail, are replaced, removed, set up and logged on again, `start_send` fails or is not ready, the group of a message is removed, the process restarts |
| `wa_liveness` | `AlertedOnce`, `NotLostSilently`, `TriesAgain`: late, repeated and failing acknowledgements, failures of every kind, and a clock that is set back; one of the two messages goes to what is no phone number |
| `wa_receiving` | `TypeOK`, `SeenIsStored`, `StoredOnce`, `RightChat`, `AskedUntilReady`, `MediaIsStored`: five kinds of messages, as new and as backlog, two groups with the same subject that are bridged by hand and by themselves, removed and changed, lost questions, errors and restarts, with every combination of the two settings |
| `presenting` | `TypeOK`, `OnceInOrder`, `OnlyEndCut`, `CompleteIsShown`, `ChunksFit`: every text of up to four characters of 0, 1 and 2 bytes in one or two fragments, beside another sender's with the same reference, a socket that refuses lines, restarts |
| `line_cut` | violation of `NothingCut`: the end of a line is not sent |
| `modem_receiving` | `TypeOK`, `OnlyMissedLost`, `StoredAtMostOnce`: two SMS, overlapping listings and deletions, lost answers, errors, an unplugged modem, restarts |
| `modem_sending` | `SentAtMostOnce`, `OnlyDeathForgets`, `SendAnswered`: an SMS of ours, resets, lost answers and errors |
| `modem_lost` | violation of `NothingLost`: the answer of a listing is lost |

Bounds of `insp_`. Two contacts are enough for every collision (nicks, UUIDs, modes); four events
let a ghost be killed, dropped, asked for and written to again in one behaviour, and three let a
message be stored, delayed by the administrator's absence, and crashed upon. The
properties compare pairs of contacts or messages, so two of each are needed and show
the shape. `insp_registry` uses symmetry of the contacts, which have equal rows in the
database there; runs with liveness properties do not use
symmetry. In `insp_liveness` one contact is known and one is a stranger, whose
messages wait until a manager has made a contact.

Fairness. `Bridge`, `ServerReads` and `ManagerStep` are weakly fair: the reactor polls
a future whose input is ready, handlers do not block, and a server reads its
connection. No outside event is fair. `AdminReceivesAll` is claimed without two kinds of
events that refute it: nick changes *to* the administrator's nick (`insp_nick_return`),
and contacts that WhatsApp stores by itself, without a message (see below).

Bounds of `wa_sending` and `wa_liveness`. Two messages show the order of the outbox and what one failure does to
the others. Three outside events let a connection fail, be set up again and fail under
the message that waited. Ages up to 2 separate `ack_warn` from `ack_warn_pending` and
`ack_expiry`; one more tick would change nothing, since ages are only compared with
these. `wa_sending` has restarts and no acknowledgements, which change nothing but the
tracker; `wa_liveness` has the acknowledgements and no restarts, which forget everything.

Fairness of these two. The reactor polls what is ready (`WF(Poll)`). Time passes and a delay
that has elapsed is seen when the connection is polled (`SF(Tick)`, `SF(DelayElapsed)`,
strong since both are possible only at some places of the loop, which may turn for
ever). Nothing is assumed of WhatsApp: it may never establish a session or acknowledge.
`NotLostSilently` therefore says "acknowledged or reported", and it leaves out messages
to a group that was removed, which are dropped with a log line.

Bounds of `wa_receiving`. Four events are a message, its repetition, and a failure or a
removal between them, or a group that is bridged, removed, and bridged again under a
message; the two groups compete for one channel. Fairness: the manager runs when it can
(`WF(Manager)`), and a download ends (its requests have timeouts), so that
`MediaIsStored` holds. Of WhatsApp nothing is assumed.

Bounds of `presenting`. A line is longer than the limit, has its limit in the middle of
a character, or ends on it; a fragment is complete before, between and after the other
sender's; two disturbing events are two refusals, or one and a restart. There
is no fairness: what should be complete is stated of states in which nothing is left to do
(`CompleteIsShown`).

Bounds of `modem_`. `MaxJobs` bounds listings and deletions that the timer and new
connections add to (an indication always adds one), which is enough for a listing before
and one behind a deletion. Two disturbing events may happen in all. In `modem_receiving`
the SMS are symmetric.

Fairness of `modem_`. `WF(Manager)` as above. Commands that can be executed are, those
answered are resolved, timeouts elapse, failures are told, and the timer fires; these
happen between polls, hence `SF`. `SendAnswered` rests on the timer: `send_message` has no
`command_timeout!`, and what ends a stuck sending is the timeout of a listing behind it.

The three violations are listed as findings, with the lines they contradict. In short:
the administrator may come back by a nick change and is not shown what waited
(`insp_s2s.rs:509`); the end of a line that does not fit is not sent if its last character
begins at the limit, nor is a last chunk whose last character begins before the limit and
ends behind it (`sender_common.rs:47`); and an SMS whose listing was not answered in time is
marked as read at the modem, skipped by the next listing and deleted by it (`modem.rs:333`
and `364`). `OnlyEndCut` and `OnlyMissedLost` show that characters and SMS are lost in no
other way: `missed` is the history of what a listing took and the manager never got to store.

More divergences between code and comments are plain from the models and have no
run of their own:

* an SMS of a stranger whom WhatsApp makes a contact first is not looked at again:
  `make_contact` (`modem.rs:216`) sends `ProcessMessages` only when it stores the recipient,
  and `get_wa_recipient` (`whatsapp.rs:495`) sends `SetupContact` alone;
* a KILL of the control user removes it until the link is made again (`insp_s2s.rs:372`);
* SETUP does not erase the stored credentials, as `admin.rs:144` says, so that LOGON or a
  restart uses them;
* entries acknowledged at Error level expire although the comment at `whatsapp_ack.rs:153`
  wants failures retained;
* a message without any content is marked as read, though nothing is shown for it, which
  the comment at `whatsapp.rs:413` may or may not mean;
* metadata of a group that is not bridged, and cannot be, updates no row, and this error
  ends the process (`whatsapp.rs:544`); `UpdateGroupFails` has it;
* a chunk may be longer than `MESSAGE_MAX_LEN` by a part of a character (`ChunksFit`).

## 4. Proofs

`InspProofs` proves for any contacts, users, numbers of UUIDs and events
(`LinkAssumption`: the users of the network are finitely many and their UUIDs are not
ours; the administrator's nick is not the control user's):

* `LinkInvariant`: `Spec => []LinkInv`, the inductive invariant;
* from it `TypeCorrect`, `HandshakeTheorem`, `RegistryTheorem`, `DatabaseTheorem`,
  `NicksTheorem`: `TypeOK`, `Handshake`, `RegistryConsistent`,
  `GhostsMatchDatabase` and `NicksUnique` are invariants.

The argument. `RegistryConsistent` alone is not inductive: a new ghost must get a UUID
that no ghost has, so `FreshUuids` (all UUIDs in use are below `next_user_id`) is
needed, and `GhostsMatchDatabase` needs the maps to be inverse to each other. That no
ghost has the administrator's nick (`NicksUnique`) is needed for types: it is what
makes the target of a shown message a user of the network. The control user is
introduced when the server's SERVER line is read; that this replaces no user, and that
nothing but the handshake happens before, is `Handshake`, which says what is on the
wire in each state of the link. Lemmas about maps (`PutType`, `WithoutType`) and queues
(`SeqType`) are in `MapsProofs`; then one lemma per group of actions shows that types
are kept, one per kind of change of the registry (`RegistryNewRecipient`,
`RegistrySetupGhost`, `RegistryRemoveUser`, ...) that the registry is kept, and one per
group of actions that the handshake is.

It builds three more invariants on `LinkInv`.

* `RightContactTheorem`. The invariant `StandsForOne` says that a UUID stands for one
  address, wherever it occurs: in the link's map, in the server's, in a line to the
  server (an introduction or a message) and in what a user wrote to the ghost; and that
  it is below the next one. A new ghost gets a UUID that stands for nobody.
* `GhostsTheorem`: `GhostForRecipient`. It speaks of an idle link, so that `GhostInv` has to
  say who will set up a recipient while a handler runs: a queued command, a task of the
  handler, or the loop over all recipients, which ends before the link becomes linked.
* `AgreementTheorem`: `ServerAgrees`, an equation between five sets: our users, those in UID and
  in QUIT lines to the server, those in KILL lines from it, and those it knows. It is not
  inductive: a UID that was read a second time, or behind its own QUIT, would bring a user
  back. `AgreeInv` adds which of the sets are disjoint (`Agreed`), that a user is introduced
  once and before it quits (`Orderly`), and that a UUID somebody may still speak of is below
  the next one, so that a ghost which is set up again disturbs none of them.

`InspShownProofs`: `ShowsAtMostOnce`, that `InspNetwork` implements `AtMostOnce`. The invariant
`OneRow` says that a message is a row of the table or one line of the outbox, never both, and
that its id was given out; every step then accepts a message, delivers one, or loses some.
`ShownOnce` draws the conclusion with `AtMostOnceProofs`. With `WaSendProofs` and
`ModemSmsProofs` below, all four uses of `AtMostOnce` are proved. Two more theorems follow:

* `OrderTheorem`: `OnceInOrder`. What is in the table must not be overtaken by what is shown,
  but `process_messages` goes through the rows it read at its start, and messages of a
  stranger are passed over. `LoopHasAll` says that a message the loop is not going to show
  is of somebody without a recipient, for whom nothing is shown in this loop either, since
  nothing interrupts it; with it the order of what was shown, is on its way and waits
  (`OrderInv`) is inductive. A late message of WhatsApp has an old timestamp, but the highest id.
* `NoneForgotten`: `NotForgotten`. `Awaited` says of every message that can be shown what makes
  the link come to it: a queued `ProcessMessages`, a request to a manager for a recipient
  that is not there, or a task of the handler that runs. The theorem assumes that the events
  `nickback` and `waseen` do not happen (`Unnoticed`), because with them the property is false of
  the code: `ReadNick` looks at nothing (the run `insp_nick_return`), and a recipient that
  WhatsApp's contact list brings, while the modem manager is asked for it, makes that
  manager answer with nothing. All other events, crashes included, are allowed.

`WaSendProofs`: `SenderTypes`, `SessionsFlush`, `PollsAgain` and `NeverGivenUp`, each with the
order of the phases of `poll` as part of its invariant (`WillBePolled`: between a command
and the end of `poll` there is a phase that polls the connection), and `SendsAtMostOnce`:
every behaviour of `WaSend` is one of `AtMostOnce`. Its invariant `OnePlace` says that a message waits
at one place only, as a command, as an unsent entry, or in the outbox, and there once;
each step of `WaSend` is then shown to be a step of the abstract queue or a stutter.
`SentOnce` draws the conclusion with `AtMostOnceProofs`. `AlertsOnce` (`AlertedOnce`) rests on it: the
flags of an entry say what was reported of its id (`Marked`), but entries come and go, so
that `AlertInv` also says that an id which was given out is `Spent`: its message is no queued
command any more and, once it has its second id, waits for no session.

`WaReceiveProofs`: `ReceiveTypes`, `GroupsAreAsked`, and three invariants about what a handler
has still to do. `ChatsAreRight` needs that an id of a group that was removed is no other
group's (`Fits`). `SeenMessagesAreStored` needs that in `todo`, in the outbox and behind a
download whatever seals a message comes after its rows (`RowsFirst`, `Captioned`).
`MessagesAreStoredOnce` needs that a message which was stored is known, or somebody will make it so
(`KnownOf`), and that a job ends once (`FreshJobs`, `FreshQueue`).

`ModemSmsProofs`: `ModemTypes`, `OnlyMissedAreLost` (what is read at the modem and not
stored is in the hands of the manager or missed), and the refinements `StoresAtMostOnce` and
`SendsAtMostOnce`, whose invariants `OneHand` and `OneOrder` say that an SMS is unread, in a
result, or stored, and that a text is ordered once; a text that is at the modem when its
answer is lost may have been sent, which the mapping has to allow for. `OnceEach` draws the
conclusion. `TextsAreTold` (`OnlyDeathForgets`) is the safety half of `SendAnswered`: no step but
the death of the process makes a text of the user neither wait, nor be at the modem, nor sent,
nor reported as failed. It needs `AnsweredIsSent`: a sending that is through leaves `jobs`
without a report if the modem answered it, and then the text was sent. This
covers a timeout that a connection which is gone has left in `rx`, and which resets the
present one (`modem.rs:236`): every sending that it fails is reported. Whether such resets
ever end depends on the time a modem takes to be opened, and the model has no clock.

`PresentationProofs`, for any texts, senders, limit and number of disturbing events. It has two
halves.

* What `send_raw_message` makes of a text (`LinesOfText`). `Lines`, `Chunks`, `Offsets`,
  `Selected` and `FlattenSeq` are recursive functions over sequences; each is shown to be the
  loop it looks like (`FoldExists`), and what holds in the loop is carried along it
  (`LinesSoFar`, `ChunksSoFar`), by the argument that a set of numbers with a number missing
  has a least one missing (`LeastElement`), which the library proves of `<`. The parts of a
  line are described by where they begin and end (`IsCut`), so that the chunks are in order,
  disjoint, and leave nothing out but what is behind the last one: `Chunks` may end with a
  rest that it never yields. `ChunksSoFar` says which rest that is: the last character
  alone, or one whose last character begins before the limit and ends behind it, so that this
  character takes more than a byte.
* What becomes of it in steps. `PresentationInv` is the conjunction of five invariants:
  types, `TableInv` (no row comes twice in a queue, deletions are those of the row at hand),
  `WholeInv` (an SMS that is spoken came as a whole, and what is left of it in the table is
  being deleted; one that is complete in the table is going to be looked at), `SaidInv` (every
  line is of an SMS that was or is being deleted, and all lines of an SMS that is spoken are
  there) and `OrderInv` (no line twice, those waiting in order, and those shown before them
  unless a line was overtaken). `TableInv` uses `ReferencesDiffer`: as many fragments as there
  are parts are then all the parts (`RowIsWhole`).

From these follow `PresentationTypeOK`, `OnceInOrderShown`, `OnlyEndsCut`, `CompleteShown` and
`LinesFit`: all properties of the run `presenting`.

`AtMostOnceProofs` proves `ConveyedOnce`: `AtMostOnce!Spec => []OnceInv`, for any set of
messages. `OnceInv` adds to `Once` (nothing twice, and what was conveyed does not wait)
that both are among the messages that came, without which a message that comes might
be one that was conveyed already.

The proofs assume nothing but the named assumptions on the constants of each module
(`LinkAssumption`, `ReceiveAssumption`, ...), which TLC evaluates in the runs.

Every invariant and every refinement that a passing run checks is the subject of a theorem,
`NotForgotten` under the assumption named above. Model-checked only: the liveness properties
`AdminReceivesAll`, `NotLostSilently`, `TriesAgain`, `MediaIsStored` and `SendAnswered`:
liveness under fairness is out of the prover's reach, as is ENABLED.

## 5. Plan

1. `NickSync`: nick sources and automatic renames, of which one may undo a rename by the
   administrator that came between (`whatsapp.rs:718`).
2. Channels in the link: groups, their participants and topics, and the removal of groups.
3. Servers behind a server that splits (`insp_s2s.rs:483`), and nicks that differ in case.
4. `ClientRegistration` and the IRC-client mode (`contact_factory.rs`).

## 6. Not modelled

* The IRC-client mode, its control bot and the IRC server mode are alternatives to the
  link, of which only one runs. The server mode is a stub; the client mode runs the same
  traits (`contact_common.rs`, `sender_common.rs`) over one connection per contact, and is
  left to later work.
* Configuration, logging and the reading of UID lines (`insp_user.rs`) compute data that
  no property tells apart.
* Cryptography and files of downloads, the wire formats of IRC and WhatsApp, and the
  protocol of the modem below a command are outside `src/` or out of TLC's reach.
* Queries that only read, signal strength and registration of the modem, presence, and
  the commands that print something.
