----------------------------- MODULE WaReceive ------------------------------
(***************************************************************************)
(* Receiving from WhatsApp: the events WhatsappManager handles (whatsapp.rs, *)
(* whatsapp_msg.rs), its media downloads (whatsapp_media.rs), the groups   *)
(* it bridges, and the tables it writes (store.rs).                        *)
(*                                                                         *)
(* A handler runs to its end before the next one starts; todo is what is   *)
(* left of it, so that the process may die between two of its queries.     *)
(* From outside src/: WhatsApp repeats messages as backlog at any time, and *)
(* tells of one as new once in a connection, until it is marked as read.   *)
(*                                                                         *)
(* Left out: who sent a message and the contact made for him (InspNetwork), *)
(* texts, presence, and sending and reconnecting (WaSend).                 *)
(***************************************************************************)
EXTENDS Naturals, FiniteSets, SequencesExt, Maps

CONSTANTS
  Groups,   \* WhatsApp groups
  Channels, \* IRC channels
  Subject,  \* the channel that autocreation makes of the subject of a group
  Msgs,     \* the messages of WhatsApp (records, see Message)
  Events,   \* the kinds of outside events that may happen
  MaxInputs \* bound: outside events in a behaviour

Person == "person"  \* the chat of a message that is not in a group
Status == "status"  \* the chat of status updates, a group by its form

\* A message: has it a text or a caption, a quotation, a file; is it ours;
\* was it sent before backlog_start
Message == [id : Nat, chat : Groups \cup {Person, Status}, text : BOOLEAN, quoted : BOOLEAN,
            file : BOOLEAN, ours : BOOLEAN, old : BOOLEAN]

ASSUME ReceiveAssumption ==
  /\ Person \notin Groups /\ Status \notin Groups
  /\ Subject \in [Groups -> Channels]
  /\ Msgs \subseteq Message
  /\ MaxInputs \in Nat

VARIABLES
  mark_read,  \* configured: messages are marked as read
  autocreate, \* configured: groups are bridged by themselves
  up,         \* the connection is there
  connected,  \* there is a session, and our_jid is known
  chats,      \* the groups of the chat list
  rx,         \* WhatsappCommands
  outbox,     \* WaRequests
  todo,       \* what the present handler has still to do
  downloads,  \* the threads that download
  wa_msgids,  \* table: ids of messages
  messages,   \* table: every row that was stored -> how often
  groups,     \* table: id -> jid, channel, and whether its metadata is there
  next_gid,   \* the next id of a group
  heard,      \* of which messages WhatsApp has told us as new
  read,       \* what WhatsApp knows to be read
  asked,      \* the groups whose metadata WhatsApp is to answer
  cut,        \* the messages that a restart or WhatsApp repeated untimely
  killed,     \* the messages whose download died with the process
  lost,       \* the groups a request for whose metadata was lost
  inputs      \* how many outside events have happened

config   == <<mark_read, autocreate>>
session  == <<up, connected, chats>>
database == <<wa_msgids, messages, groups, next_gid>>
whatsapp == <<heard, read, asked>>
history  == <<cut, killed, lost>>
vars == <<config, session, rx, outbox, todo, downloads, database, whatsapp, history, inputs>>

-----------------------------------------------------------------------------
MessageRead(m)  == [req |-> "read", m |-> m]
GetMetadata(g)  == [req |-> "metadata", group |-> g]
MediaFinished(d) == [c |-> "media", job |-> d]

\* What a handler still does
Row(m, part, gid) == [op |-> "row", m |-> m, part |-> part, gid |-> gid]
Id(m)             == [op |-> "id", m |-> m]
Update(g)         == [op |-> "update", group |-> g]
Push(r)           == [op |-> "push", req |-> r]

Parts    == {"quote", "text", "file"}
NoGroup  == 0
Notices  == [id : {0}, chat : Groups, text : {TRUE}, quoted : {FALSE}, file : {FALSE},
             ours : {FALSE}, old : {FALSE}]
Notice(g) == [id |-> 0, chat |-> g, text |-> TRUE, quoted |-> FALSE, file |-> FALSE,
              ours |-> FALSE, old |-> FALSE]

Job     == [m : Msgs, gid : Nat, n : Nat]
Request == [req : {"read"}, m : Msgs] \cup [req : {"metadata"}, group : Groups]
Orders  == [c : {"associate"}, group : Groups, channel : Channels]
      \cup [c : {"remove"}, channel : Channels] \cup [c : {"updateall"}]
Command == [c : {"media"}, job : Job] \cup Orders
Task    == [op : {"row"}, m : Msgs \cup Notices, part : Parts, gid : Nat]
      \cup [op : {"id"}, m : Msgs] \cup [op : {"update"}, group : Groups]
      \cup [op : {"push"}, req : Request]
Stored  == [m : Msgs \cup Notices, part : Parts, to : Groups \cup {Person}]
Bridge  == [jid : Groups, channel : Channels, ready : BOOLEAN]

TypeOK ==
  /\ mark_read \in BOOLEAN /\ autocreate \in BOOLEAN
  /\ up \in BOOLEAN /\ connected \in BOOLEAN /\ chats \subseteq Groups
  /\ rx \in Seq(Command) /\ outbox \in Seq(Request) /\ todo \in Seq(Task)
  /\ downloads \subseteq Job
  /\ wa_msgids \subseteq Msgs /\ IsPartial(messages, Stored, Nat \ {0})
  /\ next_gid \in Nat \ {0} /\ IsPartial(groups, 1 .. next_gid - 1, Bridge)
  /\ heard \in [Msgs -> {"never", "before", "now"}] /\ read \subseteq Msgs /\ asked \subseteq Groups
  /\ cut \subseteq Msgs /\ killed \subseteq Msgs /\ lost \subseteq Groups
  /\ inputs \in Nat
  /\ connected => up

Init ==
  /\ mark_read \in BOOLEAN /\ autocreate \in BOOLEAN
  /\ up = FALSE /\ connected = FALSE /\ chats = {}
  /\ rx = <<>> /\ outbox = <<>> /\ todo = <<>> /\ downloads = {}
  /\ wa_msgids = {} /\ messages = Empty /\ groups = Empty /\ next_gid = 1
  /\ heard = [m \in Msgs |-> "never"] /\ read = {} /\ asked = {}
  /\ cut = {} /\ killed = {} /\ lost = {} /\ inputs = 0

Input(e) == e \in Events /\ inputs < MaxInputs /\ inputs' = inputs + 1

Bridged(g)     == \E i \in DOMAIN groups : groups[i].jid = g
ChannelUsed(c) == \E i \in DOMAIN groups : groups[i].channel = c
GidOf(g)       == CHOOSE i \in DOMAIN groups : groups[i].jid = g
Unready        == {groups[i].jid : i \in {j \in DOMAIN groups : ~groups[j].ready}}

IsStored(m, part) == \E r \in DOMAIN messages : r.m = m /\ r.part = part
Kept(m)           == \E part \in Parts : IsStored(m, part)

\* The messages whose media is being downloaded, or waits for the manager
Media    == {c.job : c \in {d \in Elements(rx) : d.c = "media"}}
InFlight == {d.m : d \in downloads \cup Media}
Files    == {m \in Msgs : m.file}
Asks(s)  == {r.group : r \in {q \in Elements(s) : q.req = "metadata"}}

-----------------------------------------------------------------------------
(* The process, the connection and the chat list *)

\* An error that leaves poll ends the process: main panics, and the process
\* is started again
Restarted ==
  /\ up' = FALSE /\ connected' = FALSE /\ chats' = {}
  /\ rx' = <<>> /\ outbox' = <<>> /\ todo' = <<>> /\ downloads' = {}
  /\ heard' = [m \in Msgs |-> IF heard[m] = "now" THEN "before" ELSE heard[m]]
  /\ asked' = {}
  /\ cut' = cut \cup {m \in Msgs \ wa_msgids : Kept(m)}
  /\ killed' = killed \cup InFlight \cup {t.m : t \in {u \in Elements(todo) : u.op = "id"}}
  /\ lost' = lost \cup Unready
  /\ UNCHANGED <<config, database, read>>

Crash == Input("crash") /\ Restarted

Connects ==
  /\ todo = <<>> /\ ~up
  /\ up' = TRUE
  /\ UNCHANGED <<config, connected, chats, rx, outbox, todo, downloads, database, whatsapp, history, inputs>>

OnEstablished ==
  /\ todo = <<>> /\ up /\ ~connected
  /\ connected' = TRUE
  /\ UNCHANGED <<config, up, chats, rx, outbox, todo, downloads, database, whatsapp, history, inputs>>

\* Mutant: the session outlives its connection
OnWaErrorInSession ==
  /\ todo = <<>> /\ up
  /\ Input("error")
  /\ up' = FALSE
  /\ heard' = [m \in Msgs |-> IF heard[m] = "now" THEN "before" ELSE heard[m]]
  /\ asked' = {} /\ lost' = lost \cup asked
  /\ UNCHANGED <<config, connected, chats, rx, outbox, todo, downloads, database, read, cut, killed>>

\* What WhatsApp was asked on this connection is not answered any more
OnWaError ==
  /\ todo = <<>> /\ up
  /\ Input("error")
  /\ up' = FALSE /\ connected' = FALSE
  /\ heard' = [m \in Msgs |-> IF heard[m] = "now" THEN "before" ELSE heard[m]]
  /\ asked' = {} /\ lost' = lost \cup asked
  /\ UNCHANGED <<config, chats, rx, outbox, todo, downloads, database, read, cut, killed>>

\* InitialChats, and the removal of a chat
OnChats ==
  /\ todo = <<>> /\ up
  /\ Input("chats")
  /\ \/ chats' = Groups
     \/ \E g \in chats : chats' = chats \ {g}
  /\ UNCHANGED <<config, up, connected, rx, outbox, todo, downloads, database, whatsapp, history>>

-----------------------------------------------------------------------------
(* Groups *)

\* What group_associate asks for before it bridges a group
CanBridge(g, c) == ~Bridged(g) /\ ~ChannelUsed(c) /\ connected

\* Mutant: the id of a group that was removed is used again
StoreGroupReusing(g, c) ==
  LET id == CHOOSE i \in 1 .. next_gid : i \notin DOMAIN groups IN
  /\ groups' = Put(groups, id, [jid |-> g, channel |-> c, ready |-> FALSE])
  /\ next_gid' = IF id = next_gid THEN next_gid + 1 ELSE next_gid
  /\ lost' = lost \ {g}

\* store_group: the group has no metadata yet
StoreGroup(g, c) ==
  /\ groups' = Put(groups, next_gid, [jid |-> g, channel |-> c, ready |-> FALSE])
  /\ next_gid' = next_gid + 1
  /\ lost' = lost \ {g}
NoNewGroup == UNCHANGED <<groups, next_gid, lost>>

GroupsOnly == UNCHANGED <<config, session, downloads, wa_msgids, messages, heard, read, cut, killed>>

\* Mutant: bridged for the administrator, and no metadata is requested
GroupAssociateUnasked ==
  LET com == Head(rx) IN
  /\ todo = <<>> /\ rx # <<>> /\ com.c = "associate"
  /\ rx' = Tail(rx)
  /\ IF CanBridge(com.group, com.channel)
     THEN StoreGroup(com.group, com.channel)
     ELSE NoNewGroup
  /\ UNCHANGED <<todo, outbox, asked, inputs>>
  /\ GroupsOnly

GroupAssociate ==
  LET com == Head(rx) IN
  /\ todo = <<>> /\ rx # <<>> /\ com.c = "associate"
  /\ rx' = Tail(rx)
  /\ IF CanBridge(com.group, com.channel)
     THEN /\ StoreGroup(com.group, com.channel)
          /\ outbox' = Append(outbox, GetMetadata(com.group))
     ELSE NoNewGroup /\ UNCHANGED outbox
  /\ UNCHANGED <<todo, asked, inputs>>
  /\ GroupsOnly

\* Messages of the group that were not shown go with it (ON DELETE CASCADE);
\* messages remembers them
GroupRemove ==
  /\ todo = <<>> /\ rx # <<>> /\ Head(rx).c = "remove"
  /\ rx' = Tail(rx)
  /\ groups' = Without(groups, {i \in DOMAIN groups : groups[i].channel = Head(rx).channel})
  /\ UNCHANGED <<next_gid, lost, todo, outbox, asked, inputs>>
  /\ GroupsOnly

GroupUpdateAll ==
  /\ todo = <<>> /\ rx # <<>> /\ Head(rx).c = "updateall"
  /\ rx' = Tail(rx)
  /\ outbox' = outbox \o SetToSeq({GetMetadata(groups[i].jid) : i \in DOMAIN groups})
  /\ NoNewGroup
  /\ UNCHANGED <<todo, asked, inputs>>
  /\ GroupsOnly

\* Metadata of a group.  One that is not bridged is, if that is configured and
\* possible; if not, there is no row for the update that follows all the same.
OnGotGroupMetadata(g) ==
  /\ todo = <<>> /\ up /\ g \in asked
  /\ asked' = asked \ {g}
  /\ IF autocreate /\ CanBridge(g, Subject[g])
     THEN StoreGroup(g, Subject[g]) /\ todo' = <<Update(g), Update(g)>>
     ELSE NoNewGroup /\ todo' = <<Update(g)>>
  /\ UNCHANGED <<rx, outbox, inputs>>
  /\ GroupsOnly

\* The query for the metadata failed
OnNoGroupMetadata(g) ==
  /\ todo = <<>> /\ up /\ g \in asked
  /\ Input("nometadata")
  /\ asked' = asked \ {g} /\ lost' = lost \cup {g}
  /\ UNCHANGED <<groups, next_gid, rx, outbox, todo>>
  /\ GroupsOnly

\* A group that was newly created: its metadata comes with it
OnGroupIntroduce(g) ==
  /\ todo = <<>> /\ up
  /\ Input("introduce")
  /\ IF autocreate /\ CanBridge(g, Subject[g])
     THEN StoreGroup(g, Subject[g]) /\ todo' = <<Update(g)>>
     ELSE NoNewGroup /\ UNCHANGED todo
  /\ UNCHANGED <<rx, outbox, asked>>
  /\ GroupsOnly

\* The subject or the participants change, which a notice tells if it is known
\* by whom
OnGroupChange(g, known) ==
  /\ todo = <<>> /\ up
  /\ Input("change")
  /\ todo' = IF ~Bridged(g) THEN <<>>
             ELSE (IF known THEN <<Row(Notice(g), "text", GidOf(g))>> ELSE <<>>)
                  \o <<Push(GetMetadata(g))>>
  /\ NoNewGroup
  /\ UNCHANGED <<rx, outbox, asked>>
  /\ GroupsOnly

-----------------------------------------------------------------------------
(* Messages *)

\* Mutant: messages told as new are always trusted
RejectedTrusting(m, is_new) == ~is_new /\ (m \in wa_msgids \/ m.old)

\* New messages are trusted if we mark them as read, for then they are told once
Rejected(m, is_new) ==
  \/ (~mark_read \/ ~is_new) /\ m \in wa_msgids
  \/ ~is_new /\ m.old

\* WhatsApp tells of a message: as new, or as backlog
Tells(m, is_new) ==
  /\ todo = <<>> /\ up
  /\ Input("message")
  /\ is_new => heard[m] # "now" /\ m \notin read /\ (m.ours => heard[m] = "never")

\* It is repeated untimely when its file is on its way, or when it is told as
\* new again and trusted.
Told(m, is_new) ==
  /\ Tells(m, is_new)
  /\ heard' = IF is_new THEN [heard EXCEPT ![m] = "now"] ELSE heard
  /\ cut' = IF m \in InFlight \/ (is_new /\ mark_read /\ Kept(m)) THEN cut \cup {m} ELSE cut
  /\ UNCHANGED <<config, session, rx, outbox, wa_msgids, messages, read, asked>>

\* process_wa_incoming: what is stored at once
Texts(m) ==
  IF ~m.text THEN <<>> ELSE IF m.quoted THEN <<"quote", "text">> ELSE <<"text">>
Rows(m, gid) == [i \in DOMAIN Texts(m) |-> Row(m, Texts(m)[i], gid)]
Receipt(m)   == IF mark_read /\ ~m.ours THEN <<Push(MessageRead(m))>> ELSE <<>>

\* Mutant: the id of a message is stored first
TasksIdFirst(m, gid) ==
  (IF m.text /\ ~m.file THEN <<Id(m)>> ELSE <<>>)
  \o Rows(m, gid)
  \o (IF m.file THEN <<>> ELSE Receipt(m))

\* The rows, the id if there are any, and the receipt: the last two come when
\* the download has ended if there is one
Tasks(m, gid) ==
  Rows(m, gid)
  \o (IF m.text /\ ~m.file THEN <<Id(m)>> ELSE <<>>)
  \o (IF m.file THEN <<>> ELSE Receipt(m))

StartDownload(m, gid) ==
  /\ downloads' = IF m.file THEN downloads \cup {[m |-> m, gid |-> gid, n |-> inputs']} ELSE downloads
  /\ killed' = IF m.file THEN killed \ {m} ELSE killed

Ignore(m, is_new) ==
  /\ Told(m, is_new)
  /\ \/ Rejected(m, is_new)
     \/ /\ m.ours => connected
        /\ m.chat = Status \/ (m.chat \in Groups /\ ~Bridged(m.chat) /\ ~autocreate)
  /\ UNCHANGED <<todo, downloads, killed>>
  /\ NoNewGroup

\* A message of ours before the session is established is an error
OnMessageTooEarly(m, is_new) ==
  /\ Tells(m, is_new)
  /\ m.ours /\ ~connected /\ ~Rejected(m, is_new)
  /\ Restarted

OnMessageOfOurs(m, is_new) ==
  /\ Told(m, is_new) /\ ~Rejected(m, is_new)
  /\ m.ours /\ connected /\ m.chat = Person
  /\ todo' = <<Id(m)>>
  /\ UNCHANGED <<downloads, killed>>
  /\ NoNewGroup

OnMessage(m, is_new) ==
  /\ Told(m, is_new) /\ ~Rejected(m, is_new)
  /\ m.ours => connected
  /\ \E gid \in {NoGroup} \cup DOMAIN groups :
       /\ IF gid = NoGroup THEN m.chat = Person /\ ~m.ours ELSE groups[gid].jid = m.chat
       /\ todo' = Tasks(m, gid)
       /\ StartDownload(m, gid)
  /\ NoNewGroup

\* A message of a group that is not bridged, but can be: its name is known
ToAutocreate(m, is_new) ==
  /\ Told(m, is_new) /\ ~Rejected(m, is_new)
  /\ m.ours => connected
  /\ m.chat \in Groups /\ ~Bridged(m.chat) /\ autocreate

OnMessageAutocreates(m, is_new) ==
  /\ ToAutocreate(m, is_new)
  /\ m.chat \in chats /\ CanBridge(m.chat, Subject[m.chat])
  /\ StoreGroup(m.chat, Subject[m.chat])
  /\ todo' = <<Push(GetMetadata(m.chat))>> \o Tasks(m, next_gid)
  /\ StartDownload(m, next_gid)

\* ... or cannot: its metadata is requested, and the message is dropped
OnMessageNotAutocreated(m, is_new) ==
  /\ ToAutocreate(m, is_new)
  /\ m.chat \notin chats \/ ~CanBridge(m.chat, Subject[m.chat])
  /\ todo' = <<Push(GetMetadata(m.chat))>>
  /\ UNCHANGED <<downloads, killed>>
  /\ NoNewGroup

\* Mutant: a download that fails says nothing
DownloadEndsSilently(d) ==
  /\ downloads' = downloads \ {d}
  /\ rx' \in {rx, Append(rx, MediaFinished(d))}
  /\ UNCHANGED <<config, session, outbox, todo, database, whatsapp, history, inputs>>

\* A thread is through with its download, or has failed, and says so
DownloadEnds(d) ==
  /\ downloads' = downloads \ {d}
  /\ rx' = Append(rx, MediaFinished(d))
  /\ UNCHANGED <<config, session, outbox, todo, database, whatsapp, history, inputs>>

FileTasks(d) == <<Row(d.m, "file", d.gid), Id(d.m)>> \o Receipt(d.m)

TakeMediaFinished ==
  LET d == Head(rx).job IN
  /\ todo = <<>> /\ rx # <<>> /\ Head(rx).c = "media"
  /\ rx' = Tail(rx)
  /\ todo' = FileTasks(d)
  /\ UNCHANGED <<config, session, outbox, downloads, database, whatsapp, history, inputs>>

-----------------------------------------------------------------------------
(* The tasks of a handler, and the outbox *)

TasksOnly == UNCHANGED <<config, session, rx, downloads, whatsapp, history, next_gid, inputs>>

\* store_wa_message: where the row will be shown is fixed by the id of its group
StoreRow ==
  LET task == Head(todo)
      row  == [m |-> task.m, part |-> task.part,
               to |-> IF task.gid = NoGroup THEN Person ELSE groups[task.gid].jid] IN
  /\ todo # <<>> /\ task.op = "row"
  /\ task.gid \in {NoGroup} \cup DOMAIN groups
  /\ messages' = Put(messages, row, IF row \in DOMAIN messages THEN messages[row] + 1 ELSE 1)
  /\ todo' = Tail(todo)
  /\ UNCHANGED <<wa_msgids, groups, outbox>>
  /\ TasksOnly

\* ... the foreign key of a group that was removed: the query fails
StoreRowFails ==
  /\ todo # <<>> /\ Head(todo).op = "row"
  /\ Head(todo).gid \notin {NoGroup} \cup DOMAIN groups
  /\ Restarted
  /\ UNCHANGED inputs

StoreId ==
  /\ todo # <<>> /\ Head(todo).op = "id"
  /\ wa_msgids' = wa_msgids \cup {Head(todo).m}
  /\ todo' = Tail(todo)
  /\ UNCHANGED <<messages, groups, outbox>>
  /\ TasksOnly

UpdateGroup ==
  LET g == Head(todo).group IN
  /\ todo # <<>> /\ Head(todo).op = "update"
  /\ Bridged(g)
  /\ groups' = [groups EXCEPT ![GidOf(g)].ready = TRUE]
  /\ todo' = Tail(todo)
  /\ UNCHANGED <<wa_msgids, messages, outbox>>
  /\ TasksOnly

\* ... no row was updated, which is an error
UpdateGroupFails ==
  /\ todo # <<>> /\ Head(todo).op = "update"
  /\ ~Bridged(Head(todo).group)
  /\ Restarted
  /\ UNCHANGED inputs

PushRequest ==
  /\ todo # <<>> /\ Head(todo).op = "push"
  /\ outbox' = Append(outbox, Head(todo).req)
  /\ todo' = Tail(todo)
  /\ UNCHANGED <<wa_msgids, messages, groups>>
  /\ TasksOnly

OutboxOnly ==
  UNCHANGED <<config, session, rx, todo, downloads, database, heard, cut, killed>>

HandOver ==
  LET r == Head(outbox) IN
  /\ todo = <<>> /\ outbox # <<>> /\ up
  /\ outbox' = Tail(outbox)
  /\ IF r.req = "read"
     THEN read' = read \cup {r.m} /\ UNCHANGED asked
     ELSE asked' = asked \cup {r.group} /\ UNCHANGED read
  /\ UNCHANGED <<lost, inputs>>
  /\ OutboxOnly

\* The connection does not take it, or does not bring it to WhatsApp
HandOverFails ==
  /\ todo = <<>> /\ outbox # <<>> /\ up
  /\ Input("lose")
  /\ outbox' = Tail(outbox)
  /\ lost' = lost \cup Asks(<<Head(outbox)>>)
  /\ UNCHANGED <<read, asked>>
  /\ OutboxOnly

Discard ==
  /\ todo = <<>> /\ outbox # <<>> /\ ~up
  /\ outbox' = <<>>
  /\ lost' = lost \cup Asks(outbox)
  /\ UNCHANGED <<read, asked, inputs>>
  /\ OutboxOnly

\* The link or the control bot passes a command on
Order(c) ==
  /\ Input(c.c)
  /\ rx' = Append(rx, c)
  /\ UNCHANGED <<config, session, outbox, todo, downloads, database, whatsapp, history>>

-----------------------------------------------------------------------------
Manager ==
  \/ StoreRow \/ StoreRowFails \/ StoreId \/ UpdateGroup \/ UpdateGroupFails \/ PushRequest
  \/ TakeMediaFinished \/ GroupAssociate \/ GroupRemove \/ GroupUpdateAll
  \/ HandOver \/ Discard

OnMessages ==
  \E m \in Msgs, is_new \in BOOLEAN :
    \/ Ignore(m, is_new) \/ OnMessageTooEarly(m, is_new) \/ OnMessageOfOurs(m, is_new)
    \/ OnMessage(m, is_new)
    \/ OnMessageAutocreates(m, is_new) \/ OnMessageNotAutocreated(m, is_new)

OnGroups ==
  \E g \in Groups :
    \/ OnGotGroupMetadata(g) \/ OnNoGroupMetadata(g) \/ OnGroupIntroduce(g)
    \/ \E known \in BOOLEAN : OnGroupChange(g, known)

Next ==
  \/ Manager
  \/ OnMessages \/ OnGroups
  \/ Connects \/ OnEstablished \/ OnWaError \/ OnChats
  \/ HandOverFails
  \/ \E d \in downloads : DownloadEnds(d)
  \/ \E c \in Orders : Order(c)
  \/ Crash

\* The reactor polls the manager when there is work for it; a download ends,
\* for its requests time out.  WhatsApp owes us nothing.
Spec ==
  /\ Init /\ [][Next]_vars
  /\ WF_vars(Manager)
  /\ \A m \in Files : WF_vars(\E d \in downloads : d.m = m /\ DownloadEnds(d))

-----------------------------------------------------------------------------
(* Properties *)

Complete(m) ==
  /\ \A i \in DOMAIN Texts(m) : IsStored(m, Texts(m)[i])
  /\ m.file => IsStored(m, "file")

\* The comment at on_message: something is sent for each message that is
\* marked as seen.  A message whose id is stored, so that it is rejected from
\* now on, or that WhatsApp knows to be read, was stored with all its parts,
\* whatever died in between.
SeenIsStored ==
  \A m \in wa_msgids \cup read : Complete(m) \/ (m.ours /\ m.chat = Person)

\* A message is stored once, however often WhatsApp tells of it, unless the
\* process died between storing it and its id, or it was told again while its
\* file was on its way, or again as new.
StoredOnce ==
  \A r \in DOMAIN messages : messages[r] > 1 => r.m \in cut \cup Notices

\* A message is stored for the chat that it was sent to: the id of a group
\* that was removed while a file was on its way is no other group's.
RightChat == \A r \in DOMAIN messages : r.to = r.m.chat

\* The groups that a task will update, or ask the metadata of
Wants(t) ==
  IF t.op = "update" THEN {t.group} ELSE IF t.op = "push" THEN Asks(<<t.req>>) ELSE {}

\* A group that was bridged gets its metadata ("setup in progress"), or still
\* waits for an answer, unless WhatsApp or the connection has lost the question.
AskedUntilReady ==
  Unready \subseteq lost \cup asked \cup Asks(outbox) \cup UNION {Wants(t) : t \in Elements(todo)}

\* Every download is stored in the end, as a file or as one that failed,
\* unless the process dies before.
MediaIsStored == \A m \in Files : m \in InFlight ~> m \in wa_msgids \cup killed
=============================================================================
