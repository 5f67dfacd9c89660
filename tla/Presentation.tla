---------------------------- MODULE Presentation ----------------------------
(***************************************************************************)
(* How SMS become lines of IRC (sender_common.rs): the fragments of a long *)
(* one are put together, its text is split into lines and these into       *)
(* chunks; and how the lines get to the socket (sink_outbox!, util.rs).    *)
(*                                                                         *)
(* A character is the position it has in an SMS and the bytes it takes; a  *)
(* newline takes none.  The administrator is there and the contacts are    *)
(* known; who is addressed is in InspLink.  Fragments come once (ModemSms), *)
(* and a sender does not use a reference twice for what is still waiting.  *)
(***************************************************************************)
EXTENDS Naturals, FiniteSets, SequencesExt, Maps

CONSTANTS
  Sms,       \* the SMS that are sent to us
  Sender,    \* SMS -> phone number
  Reference, \* SMS -> reference of its fragments
  Texts,     \* SMS -> the texts it may have: sequences of fragments, which
             \* are sequences of widths; one of one fragment has no header
  MaxLen,    \* MESSAGE_MAX_LEN
  Events,    \* the kinds of outside events that may happen
  MaxInputs  \* bound: outside events in a behaviour

\* MESSAGE_MAX_LEN is 350.
ASSUME PresentationAssumption ==
  /\ Texts \in [Sms -> SUBSET Seq(Seq(Nat))]
  /\ MaxLen \in Nat \ {0} /\ MaxInputs \in Nat

\* Two SMS of several fragments do not share a sender and a reference: their
\* fragments would count as those of one (sender_common.rs:98).
ASSUME ReferencesDiffer ==
  \A s, t \in Sms :
    /\ Sender[s] = Sender[t] /\ Reference[s] = Reference[t]
    /\ \E x \in Texts[s], y \in Texts[t] : Len(x) > 1 /\ Len(y) > 1
    => s = t

Newline == 0

VARIABLES
  text,     \* SMS -> its text
  arrived,  \* the fragments <<sms, part>> that have come, in this order
  messages, \* table: the fragments that are waiting
  asked,    \* ProcessMessages is queued
  todo,     \* the rows that process_messages has still to look at
  deletes,  \* the rows that process_msg_pdu has still to delete
  outbox,   \* lines
  batch,    \* the lines that sink_outbox! is handing over
  sinking,  \* it is at work
  shown,    \* the lines that the server got, in this order
  overtaken, \* a line was handed over after a later one
  torn,     \* the SMS of which a restart has left parts, or nothing
  inputs    \* how many outside events have happened

pass == <<todo, deletes>>
sink == <<batch, sinking, shown, overtaken>>
vars == <<text, arrived, messages, asked, pass, outbox, sink, torn, inputs>>

Fragments == UNION {{<<s, p>> : p \in DOMAIN text[s]} : s \in Sms}
Char      == [at : Sms \X Nat \X Nat, w : Nat]

TypeOK ==
  /\ DOMAIN text = Sms /\ \A s \in Sms : text[s] \in Texts[s]
  /\ arrived \in Seq(Fragments) /\ messages \subseteq Elements(arrived)
  /\ asked \in BOOLEAN /\ sinking \in BOOLEAN /\ overtaken \in BOOLEAN
  /\ todo \in Seq(Fragments) /\ deletes \in Seq(messages)
  /\ \A q \in {outbox, batch, shown} : q \in Seq(Seq(Char) \ {<<>>})
  /\ torn \subseteq Sms /\ inputs \in 0 .. MaxInputs
  /\ deletes # <<>> => todo # <<>>
  /\ sinking => todo = <<>>

Init ==
  /\ text \in {t \in [Sms -> UNION {Texts[s] : s \in Sms}] : \A s \in Sms : t[s] \in Texts[s]}
  /\ arrived = <<>> /\ messages = {} /\ asked = FALSE
  /\ todo = <<>> /\ deletes = <<>> /\ outbox = <<>>
  /\ batch = <<>> /\ sinking = FALSE /\ shown = <<>> /\ overtaken = FALSE
  /\ torn = {} /\ inputs = 0

Input(e) == e \in Events /\ inputs < MaxInputs /\ inputs' = inputs + 1

-----------------------------------------------------------------------------
(* Splitting: send_raw_message *)

\* The bytes before each character of a line, and all its bytes
Offsets(line) ==
  LET off[k \in 1 .. Len(line) + 1] == IF k = 1 THEN 0 ELSE off[k - 1] + line[k - 1].w
  IN  off
Bytes(line) == Offsets(line)[Len(line) + 1]

\* The elements of a sequence that are in a set, in their order
Selected(seq, S) ==
  LET at[k \in 0 .. Len(seq)] ==
        IF k = 0 THEN <<>>
        ELSE IF seq[k] \in S THEN Append(at[k - 1], seq[k]) ELSE at[k - 1]
  IN  at[Len(seq)]

Lines(chars) ==
  LET at[k \in 0 .. Len(chars)] ==
        IF k = 0 THEN [last |-> 1, parts |-> <<>>]
        ELSE LET acc == at[k - 1] IN
             IF chars[k].w = Newline
             THEN [last |-> k + 1, parts |-> Append(acc.parts, SubSeq(chars, acc.last, k - 1))]
             ELSE acc
      end == at[Len(chars)]
  IN  Append(end.parts, SubSeq(chars, end.last, Len(chars)))

\* Mutant: a chunk ends one byte too late
ChunksTooLong(line) ==
  LET off == Offsets(line)
      at[k \in 0 .. Len(line)] ==
        IF k = 0 THEN [last |-> 1, parts |-> <<>>]
        ELSE LET acc == at[k - 1] IN
             IF off[k] > off[acc.last] + MaxLen
             THEN [last |-> k, parts |-> Append(acc.parts, SubSeq(line, acc.last, k - 1))]
             ELSE IF off[acc.last] + MaxLen >= off[Len(line) + 1]
             THEN [last  |-> Len(line) + 1, parts |-> Append(acc.parts, SubSeq(line, acc.last, Len(line)))]
             ELSE acc
  IN  Selected(at[Len(line)].parts, Elements(at[Len(line)].parts) \ {<<>>})

\* At every character: a full chunk ends before it, or what is left fits, or
\* nothing.  So nothing is looked at behind the last character.
Chunks(line) ==
  LET off == Offsets(line)
      at[k \in 0 .. Len(line)] ==
        IF k = 0 THEN [last |-> 1, parts |-> <<>>]
        ELSE LET acc == at[k - 1] IN
             IF off[k] >= off[acc.last] + MaxLen
             THEN [last |-> k, parts |-> Append(acc.parts, SubSeq(line, acc.last, k - 1))]
             ELSE IF off[acc.last] + MaxLen >= off[Len(line) + 1]
             THEN [last  |-> Len(line) + 1, parts |-> Append(acc.parts, SubSeq(line, acc.last, Len(line)))]
             ELSE acc
  IN  Selected(at[Len(line)].parts, Elements(at[Len(line)].parts) \ {<<>>})

SendRawMessage(chars) == FlattenSeq([i \in DOMAIN Lines(chars) |-> Chunks(Lines(chars)[i])])

-----------------------------------------------------------------------------
(* Fragments: process_messages, process_msg_pdu *)

Chars(f) == [i \in DOMAIN text[f[1]][f[2]] |-> [at |-> <<f[1], f[2], i>>, w |-> text[f[1]][f[2]][i]]]

IsConcatenated(f) == Len(text[f[1]]) > 1

\* Mutant: all that has the reference, from whomever
GetAllConcatenatedAnySender(f) ==
  SetToSeq({g \in messages : IsConcatenated(g) /\ Reference[g[1]] = Reference[f[1]]})

GetAllConcatenated(f) ==
  SetToSeq({g \in messages : /\ IsConcatenated(g)
                             /\ Reference[g[1]] = Reference[f[1]] /\ Sender[g[1]] = Sender[f[1]]})

SortByPart(msgs) ==
  CHOOSE t \in [DOMAIN msgs -> Elements(msgs)] :
    /\ Elements(t) = Elements(msgs)
    /\ \A i, j \in DOMAIN msgs : i < j => t[i][2] <= t[j][2]

\* No handler is at work
Idle == todo = <<>> /\ ~sinking

\* A fragment arrives and is stored
Arrives(f) ==
  /\ Idle
  /\ f \notin Elements(arrived)
  /\ arrived' = Append(arrived, f)
  /\ messages' = messages \cup {f}
  /\ asked' = TRUE
  /\ UNCHANGED <<text, pass, outbox, sink, torn, inputs>>

ProcessMessages ==
  /\ Idle /\ asked
  /\ asked' = FALSE
  /\ todo' = Selected(arrived, messages)
  /\ UNCHANGED <<text, arrived, messages, deletes, outbox, sink, torn, inputs>>

\* Mutant: the fragments are not sorted
ProcessMsgPduUnsorted ==
  LET f    == Head(todo)
      msgs == IF IsConcatenated(f) THEN GetAllConcatenated(f) ELSE <<f>> IN
  /\ todo # <<>> /\ deletes = <<>>
  /\ IF Len(msgs) = Len(text[f[1]])
     THEN LET sorted == Selected(arrived, Elements(msgs)) IN
          /\ outbox' = outbox \o SendRawMessage(FlattenSeq([i \in DOMAIN sorted |-> Chars(sorted[i])]))
          /\ deletes' = msgs
          /\ UNCHANGED todo
     ELSE todo' = Tail(todo) /\ UNCHANGED <<outbox, deletes>>
  /\ UNCHANGED <<text, arrived, messages, asked, sink, torn, inputs>>

\* A row, or all the fragments of its SMS if there are as many as it has parts
ProcessMsgPdu ==
  LET f    == Head(todo)
      msgs == IF IsConcatenated(f) THEN GetAllConcatenated(f) ELSE <<f>> IN
  /\ todo # <<>> /\ deletes = <<>>
  /\ IF Len(msgs) = Len(text[f[1]])
     THEN LET sorted == SortByPart(msgs) IN
          /\ outbox' = outbox \o SendRawMessage(FlattenSeq([i \in DOMAIN sorted |-> Chars(sorted[i])]))
          /\ deletes' = msgs
          /\ UNCHANGED todo
     ELSE todo' = Tail(todo) /\ UNCHANGED <<outbox, deletes>>
  /\ UNCHANGED <<text, arrived, messages, asked, sink, torn, inputs>>

\* Mutant: the next row is looked at before all fragments are deleted
DeleteMessageLate ==
  /\ deletes # <<>>
  /\ messages' = messages \ {Head(deletes)}
  /\ deletes' = Tail(deletes)
  /\ todo' = Tail(todo)
  /\ UNCHANGED <<text, arrived, asked, outbox, sink, torn, inputs>>

\* The last deletion ends the handling of the row
DeleteMessage ==
  /\ deletes # <<>>
  /\ messages' = messages \ {Head(deletes)}
  /\ deletes' = Tail(deletes)
  /\ todo' = IF Len(deletes) = 1 THEN Tail(todo) ELSE todo
  /\ UNCHANGED <<text, arrived, asked, outbox, sink, torn, inputs>>

-----------------------------------------------------------------------------
(* The outbox *)

\* sink_outbox! takes the whole outbox; it is run when the link is polled
Sink ==
  /\ Idle /\ outbox # <<>>
  /\ sinking' = TRUE /\ batch' = outbox /\ outbox' = <<>>
  /\ UNCHANGED <<text, arrived, messages, asked, pass, shown, overtaken, torn, inputs>>

StartSend ==
  /\ sinking /\ batch # <<>>
  /\ shown' = Append(shown, Head(batch)) /\ batch' = Tail(batch)
  /\ overtaken' = (overtaken \/ outbox # <<>>)
  /\ UNCHANGED <<text, arrived, messages, asked, pass, outbox, sinking, torn, inputs>>

\* Mutant: what is not taken is not kept
StartSendNotReadyDropped ==
  /\ Input("busy")
  /\ sinking /\ batch # <<>>
  /\ batch' = Tail(batch) /\ outbox' = outbox
  /\ UNCHANGED <<text, arrived, messages, asked, pass, sinking, shown, overtaken, torn>>

\* The socket does not take the line, and the loop goes on with the next
StartSendNotReady ==
  /\ Input("busy")
  /\ sinking /\ batch # <<>>
  /\ batch' = Tail(batch) /\ outbox' = Append(outbox, Head(batch))
  /\ UNCHANGED <<text, arrived, messages, asked, pass, sinking, shown, overtaken, torn>>

SinkEnds ==
  /\ sinking /\ batch = <<>>
  /\ sinking' = FALSE
  /\ UNCHANGED <<text, arrived, messages, asked, pass, outbox, batch, shown, overtaken, torn, inputs>>

\* The process dies: what the server has not got is lost, and at the start all
\* that is in the table is looked at
Crash ==
  /\ Input("crash")
  /\ todo' = <<>> /\ deletes' = <<>> /\ outbox' = <<>> /\ batch' = <<>> /\ sinking' = FALSE
  /\ asked' = TRUE
  /\ torn' = torn \cup {f[1] : f \in Elements(arrived) \ messages}
  /\ UNCHANGED <<text, arrived, messages, shown, overtaken>>

Link == ProcessMessages \/ ProcessMsgPdu \/ DeleteMessage \/ Sink \/ StartSend \/ SinkEnds

Next ==
  \/ \E f \in Fragments : Arrives(f)
  \/ Link \/ StartSendNotReady
  \/ Crash

Spec == Init /\ [][Next]_vars

-----------------------------------------------------------------------------
(* Properties *)

\* The characters of an SMS that are to be seen, and those that were
Visible(s) == {c.at : c \in {d \in UNION {Elements(Chars(<<s, p>>)) : p \in DOMAIN text[s]} : d.w # Newline}}
Shown(s)   == {a \in {c.at : c \in UNION {Elements(l) : l \in Elements(shown)}} : a[1] = s}

Before(a, b) == a[2] < b[2] \/ (a[2] = b[2] /\ a[3] < b[3])

\* What is shown of an SMS is shown once and in order, however its fragments
\* arrived and whatever died, and no line mixes two; lines only change places
\* when the socket refused one and then took a later one.
OnceInOrder ==
  LET all == FlattenSeq(shown) IN
  /\ ~overtaken => \A i, j \in DOMAIN all : i < j /\ all[i].at[1] = all[j].at[1] => Before(all[i].at, all[j].at)
  /\ \A i, j \in DOMAIN all : all[i].at = all[j].at => i = j
  /\ \A l \in Elements(shown) : \A i, j \in DOMAIN l : l[i].at[1] = l[j].at[1]

\* Two characters of an SMS that are on one line
SameLine(s, a, b) ==
  ~\E p \in DOMAIN text[s] : \E i \in DOMAIN text[s][p] :
     text[s][p][i] = Newline /\ Before(a, <<s, p, i>>) /\ Before(<<s, p, i>>, b)

Wide(s) == \E p \in DOMAIN text[s] : \E i \in DOMAIN text[s][p] : text[s][p][i] > 1

\* The lines of an SMS that wait for the socket
Underway(s) == {a \in {c.at : c \in UNION {Elements(l) : l \in Elements(outbox \o batch)}} : a[1] = s}

\* What is neither shown nor waiting is the end of a line, and but one character
\* of it unless some take more than a byte.
EndsMissing(s) ==
  LET missing == Visible(s) \ (Shown(s) \cup Underway(s)) IN
  \A a \in missing, b \in Visible(s) :
    Before(a, b) /\ SameLine(s, a, b) => b \in missing /\ Wide(s)

\* An SMS is shown as a whole or not at all, but for the ends of its lines, when
\* no restart came between the deletion of a fragment and the sending.
OnlyEndCut ==
  \A s \in Sms : s \notin torn /\ Shown(s) \cup Underway(s) # {} => EndsMissing(s)

AtRest == Idle /\ ~asked /\ outbox = <<>>

\* README.md: "Deals with concatenated (longer) SMS messages as well!".  When
\* nothing is left to do, every SMS all of whose fragments are there was shown,
\* in whatever order they came, and none of its fragments is left in the table.
CompleteIsShown ==
  AtRest => \A s \in Sms :
    LET fragments == {<<s, p>> : p \in DOMAIN text[s]} IN
    fragments \subseteq Elements(arrived) /\ s \notin torn =>
      EndsMissing(s) /\ messages \cap fragments = {}

\* No chunk is longer than the limit by more than a part of a character.
ChunksFit ==
  \A l \in Elements(shown) : Bytes(l) < MaxLen + l[Len(l)].w

\* sender_common.rs:34: "We need to split messages that are too long to send on
\* IRC up into fragments".  Nothing of an SMS is missing when it was split.
NothingCut ==
  \A s \in Sms : s \notin torn /\ Shown(s) \cup Underway(s) # {} =>
    Visible(s) \subseteq Shown(s) \cup Underway(s)
=============================================================================
