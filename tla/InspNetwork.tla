---------------------------- MODULE InspNetwork ----------------------------
(***************************************************************************)
(* The link (InspLink) among what it works with: the modem and WhatsApp    *)
(* managers that fill the database and the queues, the IRC server at the   *)
(* other end of the connection, and the users of the IRC network.          *)
(***************************************************************************)
EXTENDS InspLink

(* The rest of the bridge, as the link sees it: the modem and the WhatsApp  *)
(* manager share the thread, the database and the queues                    *)

CfSend(commands) == cf_rx' = cf_rx \o commands
ProcessMessages  == [c |-> "messages"]
SetupContact(a)  == [c |-> "setup", addr |-> a]

\* Mutant: the new recipient's messages are not looked at
SmsMakeContactQuietly(a) ==
  IF a \in DOMAIN recipients THEN UNCHANGED <<recipients, cf_rx>>
  ELSE \E n \in Nicks :
       /\ recipients' = Put(recipients, a, [nick |-> n, wa |-> FALSE])
       /\ CfSend(<<SetupContact(a)>>)

\* make_contact of ModemManager: nothing for a recipient that exists by now
SmsMakeContact(a) ==
  IF a \in DOMAIN recipients THEN UNCHANGED <<recipients, cf_rx>>
  ELSE \E n \in Nicks :
       /\ recipients' = Put(recipients, a, [nick |-> n, wa |-> FALSE])
       /\ CfSend(<<SetupContact(a), ProcessMessages>>)

\* get_wa_recipient, followed by the sending of more commands
GetWaRecipient(a, more) ==
  IF a \in DOMAIN recipients THEN CfSend(more) /\ UNCHANGED recipients
  ELSE \E n \in Nicks :
       /\ recipients' = Put(recipients, a, [nick |-> n, wa |-> TRUE])
       /\ CfSend(<<SetupContact(a)>> \o more)

\* A manager takes its next request; a message to send leaves the model
ManagerStep(src) ==
  /\ Idle
  /\ mgr_rx[src] # <<>>
  /\ mgr_rx' = [mgr_rx EXCEPT ![src] = Tail(@)]
  /\ LET q == Head(mgr_rx[src]) IN
     CASE q.r = "send" -> UNCHANGED <<recipients, cf_rx>>
       [] q.r = "make" /\ src = "sms" -> SmsMakeContact(q.addr)
       [] q.r = "make" /\ src = "wa" -> GetWaRecipient(q.addr, <<ProcessMessages>>)
  /\ UNCHANGED <<state, registry, outbox, todo, messages, inbound, network, inputs>>

-----------------------------------------------------------------------------
(* Outside events.  At most MaxInputs of them happen. *)

Input(e) == e \in Events /\ inputs < MaxInputs /\ inputs' = inputs + 1

NewMessage(a, k, ts) ==
  messages' = messages \cup {[id |-> inputs, ts |-> ts, addr |-> a, kind |-> k]}

\* cmgl_complete stores an SMS
SmsArrives(a) ==
  /\ Input("sms") /\ Idle
  /\ \E k \in {"sms", "partial"} : (k = "partial" => "partial" \in Events) /\ NewMessage(a, k, inputs)
  /\ CfSend(<<ProcessMessages>>)
  /\ UNCHANGED <<state, registry, outbox, todo, recipients, mgr_rx, inbound, network>>

\* store_message stores a message of WhatsApp; one from the backlog, or whose
\* media had to be downloaded, was sent earlier
WaArrives(a) ==
  /\ Input("wa") /\ Idle
  /\ \E ts \in (IF "late" \in Events THEN {0, inputs} ELSE {inputs}) : NewMessage(a, "wa", ts)
  /\ GetWaRecipient(a, <<ProcessMessages>>)
  /\ UNCHANGED <<state, registry, outbox, todo, mgr_rx, inbound, network>>

\* get_wa_recipient for the member of a group, or for a contact
WaContactSeen(a) ==
  /\ Input("waseen") /\ Idle
  /\ GetWaRecipient(a, <<>>)
  /\ UNCHANGED <<state, registry, outbox, todo, messages, mgr_rx, inbound, network>>

\* on_contact_change: the stored nick differs from WhatsApp's
WaContactRenamed(a, n) ==
  /\ Input("autonick") /\ Idle
  /\ a \in DOMAIN recipients
  /\ recipients[a].nick # n
  /\ CfSend(<<[c |-> "autonick", addr |-> a, new |-> n]>>)
  /\ UNCHANGED <<state, registry, outbox, todo, store, mgr_rx, inbound, network>>

\* The bridge is killed, its database fails, or the server breaks the link
Crash ==
  /\ Input("crash")
  /\ Restarted
  /\ UNCHANGED store

-----------------------------------------------------------------------------
(* The IRC server and its users *)

local == <<state, registry, todo, store, cf_rx, mgr_rx>>
Tell(line) == inbound' = IF accepted THEN Append(inbound, line) ELSE inbound

\* The server's netburst: its users, in any order
Netbursts ==
  LET n == Cardinality(DOMAIN net)
      line(u) == [l |-> "UID", uuid |-> u, nick |-> net[u]]
      orders == {f \in [1 .. n -> DOMAIN net] : \A i, j \in 1 .. n : f[i] = f[j] => i = j}
  IN {<<[l |-> "SERVER"]>> \o [i \in 1 .. n |-> line(f[i])] \o <<[l |-> "ENDBURST"]>> : f \in orders}

\* The server handles our next line
ServerReads ==
  /\ outbox # <<>>
  /\ outbox' = Tail(outbox)
  /\ LET line == Head(outbox) IN
     CASE line.l = "SERVER" ->
            /\ accepted' = TRUE
            /\ inbound' \in Netbursts
            /\ UNCHANGED <<seen, got>>
       [] line.l = "UID" ->
            /\ seen' = Put(seen, line.uuid, line.addr)
            /\ UNCHANGED <<accepted, inbound, got>>
       [] line.l = "QUIT" ->
            /\ seen' = Without(seen, {line.uuid})
            /\ UNCHANGED <<accepted, inbound, got>>
       [] line.l = "MSG" ->
            /\ got' = IF line.uuid \in DOMAIN seen /\ line.to \in DOMAIN net
                      THEN Append(got, [msg |-> line.msg, as |-> seen[line.uuid]]) ELSE got
            /\ UNCHANGED <<accepted, inbound, seen>>
  /\ UNCHANGED <<local, net, departed, inputs>>

Free(n) == n \notin {net[u] : u \in DOMAIN net}

Connect(u, n) ==
  /\ Input(IF n = AdminNick THEN "admin" ELSE "user")
  /\ u \notin DOMAIN net \cup departed
  /\ Free(n)
  /\ net' = Put(net, u, n)
  /\ Tell([l |-> "UID", uuid |-> u, nick |-> n])
  /\ UNCHANGED <<local, outbox, accepted, departed, seen, got>>

Rename(u, n) ==
  /\ Input(IF n = AdminNick THEN "nickback" ELSE "nickaway")
  /\ u \in DOMAIN net
  /\ Free(n)
  /\ net' = [net EXCEPT ![u] = n]
  /\ Tell([l |-> "NICK", uuid |-> u, nick |-> n])
  /\ UNCHANGED <<local, outbox, accepted, departed, seen, got>>

Quit(u) ==
  /\ Input("quit")
  /\ u \in DOMAIN net
  /\ net' = Without(net, {u})
  /\ departed' = departed \cup {u}
  /\ Tell([l |-> "QUIT", uuid |-> u])
  /\ UNCHANGED <<local, outbox, accepted, seen, got>>

Split ==
  /\ Input("split")
  /\ Leaf \cap DOMAIN net # {}
  /\ net' = Without(net, Leaf)
  /\ departed' = departed \cup (Leaf \cap DOMAIN net)
  /\ Tell([l |-> "SQUIT"])
  /\ UNCHANGED <<local, outbox, accepted, seen, got>>

\* An operator kills one of our users
Kill(u) ==
  /\ Input(IF u = Control THEN "killcontrol" ELSE "kill")
  /\ u \in DOMAIN seen
  /\ seen' = Without(seen, {u})
  /\ Tell([l |-> "KILL", uuid |-> u])
  /\ UNCHANGED <<local, outbox, accepted, net, departed, got>>

\* A user writes to a ghost, or to the control user
WriteToGhost(u, g) ==
  /\ Input("dm")
  /\ u \in DOMAIN net
  /\ g \in DOMAIN seen \ {Control}
  /\ Tell([l |-> "DM", from |-> u, uuid |-> g, meant |-> seen[g]])
  /\ UNCHANGED <<local, outbox, network>>

AdminCommands ==
  LET ghosts == {users[g] : g \in DOMAIN users \cap DOMAIN contacts_uuid_pdua} IN
       [c : {"drop"} \cap Events, nick : ghosts]
  \cup [c : {"nick"} \cap Events, nick : ghosts, new : Nicks]
  \cup [c : {"mode"} \cap Events, nick : ghosts, wa : BOOLEAN]
  \cup [c : {"query"} \cap Events, addr : Addrs, src : Sources]

WriteToControl(u, cmd) ==
  /\ Input("command")
  /\ u \in DOMAIN net
  /\ Control \in DOMAIN seen
  /\ Tell([l |-> "CMD", from |-> u, cmd |-> cmd])
  /\ UNCHANGED <<local, outbox, network>>


-----------------------------------------------------------------------------
(* The whole *)

Outside ==
  \/ Crash \/ Split
  \/ \E a \in Addrs : SmsArrives(a) \/ WaArrives(a) \/ WaContactSeen(a)
  \/ \E a \in Addrs, n \in Nicks : WaContactRenamed(a, n)
  \/ \E u \in Remotes, n \in Nicks \cup {AdminNick} : Connect(u, n) \/ Rename(u, n)
  \/ \E u \in Remotes : Quit(u)
  \/ \E u \in DOMAIN seen : Kill(u)
  \/ \E u \in Remotes, g \in DOMAIN seen : WriteToGhost(u, g)
  \/ \E u \in Remotes, cmd \in AdminCommands : WriteToControl(u, cmd)

Next ==
  \/ Bridge
  \/ ServerReads
  \/ \E src \in Sources : ManagerStep(src)
  \/ Outside

\* The reactor polls the link and the managers as long as they have input;
\* the server reads what it is sent.  Nothing outside has to happen.
Spec ==
  /\ Init /\ [][Next]_vars
  /\ WF_vars(Bridge)
  /\ WF_vars(ServerReads)
  /\ \A src \in Sources : WF_vars(ManagerStep(src))

-----------------------------------------------------------------------------
(* Properties *)

Ghosts == DOMAIN contacts_uuid_pdua

\* The two maps of the link are inverse to each other, and the bridge knows
\* every ghost as a user.  The unwrap() of forward_cmd and process_messages,
\* and the error of contact_message for an unknown UUID, rest on this.
RegistryConsistent ==
  /\ \A a \in DOMAIN contacts : /\ contacts[a].uuid \in Ghosts
                               /\ contacts_uuid_pdua[contacts[a].uuid] = a
  /\ \A u \in Ghosts : /\ contacts_uuid_pdua[u] \in DOMAIN contacts
                      /\ contacts[contacts_uuid_pdua[u]].uuid = u
                      /\ u \in DOMAIN users

\* A ghost has a recipient in the database, and shows its nick and its mode.
\* Otherwise delete_recipient_with_addr or get_groups_for_recipient fails and
\* the bridge goes down, or a restart brings back another nick.
GhostsMatchDatabase ==
  \A a \in DOMAIN contacts :
    /\ a \in DOMAIN recipients
    /\ recipients[a].wa = contacts[a].wa
    /\ recipients[a].nick = users[contacts[a].uuid]

\* No two of our users bear the same nick, and none bears the
\* administrator's: the server would kill one, and the bridge would write
\* the administrator's messages to its own ghost.
NicksUnique ==
  \A u \in DOMAIN users \cap OwnUuids :
    /\ users[u] # AdminNick
    /\ \A v \in DOMAIN users \cap OwnUuids : users[u] = users[v] => u = v

\* The server knows the users the bridge thinks it has, except for what is
\* on its way: UID and QUIT lines to the server, KILLs from it.
ServerAgrees ==
  LET lines(s, l) == {x.uuid : x \in {y \in Elements(s) : y.l = l}}
      onServer    == DOMAIN seen \cup lines(outbox, "UID")
  IN /\ (DOMAIN users \cap OwnUuids) \ lines(inbound, "KILL")
          = onServer \ lines(outbox, "QUIT")
     /\ \A u \in Ghosts \cap DOMAIN seen : seen[u] = contacts_uuid_pdua[u]

NoServer(lines) == \A i \in DOMAIN lines : lines[i].l # "SERVER"

\* The handshake: what is on the wire in each state of the link.  Nothing of
\* ours is introduced before the server has answered, and its SERVER line is
\* read once and first.
Handshake ==
  /\ state = "TcpConnected" =>
       ~accepted /\ users = Empty /\ todo = <<>> /\ outbox = <<>> /\ inbound = <<>>
  /\ state = "ServerSent" =>
       /\ users = Empty /\ todo = <<>>
       /\ IF accepted
          THEN /\ outbox = <<>>
               /\ inbound # <<>> /\ Head(inbound).l = "SERVER"
               /\ NoServer(Tail(inbound))
          ELSE outbox = <<[l |-> "SERVER"]>> /\ inbound = <<>>
  /\ state \in {"BurstSent", "Linked"} =>
       /\ accepted
       /\ NoServer(outbox)
       /\ NoServer(inbound)

\* UUIDs of ghosts are below the next one
FreshUuids == \A u \in DOMAIN users \cap Ids : u < next_user_id

\* The inductive invariant of the link
LinkInv ==
  /\ TypeOK /\ Handshake /\ FreshUuids
  /\ RegistryConsistent /\ GhostsMatchDatabase /\ NicksUnique

\* When the link is up, every recipient in the database has a ghost, or the
\* command that sets one up is queued.
GhostForRecipient ==
  state = "Linked" /\ Idle =>
    \A a \in DOMAIN recipients \ DOMAIN contacts : SetupContact(a) \in Elements(cf_rx)

\* A message that was stored is shown to the administrator at most once, and
\* not after it was lost: neither a restart between its deletion and its
\* sending, nor a second look at the queue, shows it again (AtMostOnce).
Queued == {m.id : m \in messages} \cup {l.msg.id : l \in {k \in Elements(outbox) : k.l = "MSG"}}
Shown  == INSTANCE AtMostOnce
            WITH used <- 0 .. inputs - 1, waiting <- Queued,
                 delivered <- [i \in DOMAIN got |-> got[i].msg.id]
ShownAtMostOnce == Shown!Spec

\* A message is shown at most once, even if the bridge restarts, and never
\* before one of the same sender that is as old and was stored earlier.
Overtaken(m, by) == m.addr = by.addr /\ m.id <= by.id /\ m.ts <= by.ts
OnceInOrder ==
  LET line     == got \o outbox
      Shows(i) == i \in DOMAIN got \/ line[i].l = "MSG"
  IN \A i \in DOMAIN line : Shows(i) =>
       /\ \A j \in i + 1 .. Len(line) : Shows(j) => ~Overtaken(line[j].msg, line[i].msg)
       /\ \A m \in messages : m.kind # "partial" => ~Overtaken(m, line[i].msg)

\* The administrator sees a message under the name of its sender, and what
\* is written to a ghost goes to the contact the ghost stood for, however
\* ghosts are dropped, killed and set up in the meantime.
RightContact ==
  /\ \A i \in DOMAIN got : got[i].as = got[i].msg.addr
  /\ \A src \in Sources : \A i \in DOMAIN mgr_rx[src] :
       mgr_rx[src][i].r = "send" => mgr_rx[src][i].addr = mgr_rx[src][i].meant

\* While the administrator is there, a message that can be shown only waits
\* when something is queued that makes the link look at it again.
NotForgotten ==
  state = "Linked" /\ Idle /\ Admins # {} =>
    \A m \in messages :
      \/ m.kind = "partial"
      \/ ProcessMessages \in Elements(cf_rx)
      \/ [r |-> "make", addr |-> m.addr] \in Elements(mgr_rx[m.kind])

AdminOnline == \E u \in DOMAIN net : net[u] = AdminNick

\* The administrator receives all messages: when he is there to stay,
\* nothing that can be shown stays in the queue.
AdminReceivesAll ==
  <>[]AdminOnline => <>[](\A m \in messages : m.kind = "partial")
=============================================================================
