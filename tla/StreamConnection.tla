-------------------------- MODULE StreamConnection --------------------------
(***************************************************************************)
(* One connection of the TAK stream (rustak-server/src/stream): the task   *)
(* that replays, offers the protocol and reads (connection.rs), the writer *)
(* task behind its bounded queue (writer.rs), the handle others deliver     *)
(* through (subscription.rs), the negotiation (negotiation.rs) and the      *)
(* cause of its end (liveness.rs), with the client of rustak-client/src/    *)
(* stream at the other end; a TAK client of another make asks for what       *)
(* that one does not (`Requests`).                                           *)
(*                                                                         *)
(* A message is what it means to the connection; its contents are left out. *)
(* A frame is a message in the encoding it was written in.  Timeouts fire   *)
(* when what they watch makes no progress: a peer that is "stalled" takes no *)
(* bytes for longer than any of them.                                       *)
(***************************************************************************)
EXTENDS Naturals, Sequences

CONSTANTS
    QueueLen,      \* `[stream.limits] queue_len`
    DropLimit,     \* `[stream.limits] close_after_drops`
    Peers,         \* how many peers' positions are replayed
    MaxRouted,     \* bound: messages routed to the connection
    MaxSaid        \* bound: messages its client sends

ASSUME ConnectionConstants ==
    /\ QueueLen \in Nat \ {0} /\ DropLimit \in Nat \ {0}
    /\ Peers \in Nat /\ MaxRouted \in Nat /\ MaxSaid \in Nat

VARIABLES
    task,          \* how far the connection's own task has come
    toReplay,      \* positions it has yet to replay
    negotiation,   \* NegState
    reader,        \* the encoding its decoder expects
    queue,         \* the writer's queue
    drops,         \* `dropped_consecutive`
    reason,        \* the cause `Liveness` holds
    cancelled,     \* its token, `closing`
    writer,        \* where the writer task is
    batch,         \* what it took off the queue
    encoder,       \* the encoding it writes
    buffer,        \* frames fed and not flushed
    aborted,       \* whether the writer was aborted
    closers,       \* who is inside `ConnHandle::close`, and how far
    routed,        \* messages routed so far
    stopping,      \* the server is stopping
    peer, client, said, wire, inbound   \* the client's end, and the socket

taskVars == <<task, toReplay, negotiation, reader>>
handleVars == <<queue, drops, reason, cancelled>>
writerVars == <<writer, batch, encoder, buffer, aborted>>
otherVars == <<closers, routed, stopping>>
clientVars == <<peer, client, said, wire, inbound>>
vars == <<taskVars, handleVars, writerVars, otherVars, clientVars>>

Encodings == {"Xml", "Proto"}
Kinds == {"event", "offer", "accept", "refuse", "close"}
Callers == {"router", "outside"}
Causes == {"ClientGone", "Idle", "WriteFailed", "SlowConsumer", "Revoked", "Shutdown"}

\* `late`: queued once the connection was already ending.
Message == [kind: Kinds, late: BOOLEAN]
Requests == {"request", "otherVersion", "unreadable"}
Frame == [kind: Kinds \cup Requests, in: Encodings]

TypeOK ==
    /\ task \in {"replaying", "reading", "leaving", "unregistered", "draining", "gone"}
    /\ toReplay \in 0..Peers
    /\ negotiation \in {"Disabled", "Offered", "Proto", "Xml"}
    /\ reader \in Encodings /\ encoder \in Encodings
    /\ cancelled \in BOOLEAN /\ aborted \in BOOLEAN /\ stopping \in BOOLEAN
    /\ queue \in Seq(Message) /\ Len(queue) <= QueueLen
    /\ batch \in Seq(Message)
    /\ drops \in Nat
    /\ reason \in Causes \cup {"none"}
    /\ writer \in {"waiting", "writing", "failing", "finishing", "gone"}
    /\ buffer \in Seq(Frame) /\ wire \in Seq(Frame) /\ inbound \in Seq(Frame)
    /\ closers \in [Callers -> {"idle", "named"}]
    /\ routed \in 0..MaxRouted /\ said \in 0..MaxSaid
    /\ peer \in {"up", "stalled", "closed"}
    /\ client \in {"new", "asked", "proto", "xml", "gaveUp"}

\* The hub knows the connection, and hands its handle to whoever routes.
Registered == task \in {"replaying", "reading", "leaving"}

Ending == reason # "none" \/ cancelled

-----------------------------------------------------------------------------
(* The handle.                                                              *)

\* The first cause stands.
Ended(cause) == IF reason = "none" THEN cause ELSE reason

Queued(kind) == Append(queue, [kind |-> kind, late |-> Ending])

Room == writer # "gone" /\ Len(queue) < QueueLen

Overflows == writer # "gone" /\ Len(queue) = QueueLen /\ drops + 1 >= DropLimit

\* `send`, up to the decision that a slow consumer is to be closed.
Send(kind) ==
    \/ Room /\ queue' = Queued(kind) /\ drops' = 0
    \/ /\ writer # "gone" /\ Len(queue) = QueueLen
       /\ drops' = drops + 1 /\ UNCHANGED queue
    \/ writer = "gone" /\ UNCHANGED <<queue, drops>>

\* `send` by the connection's own task, which closes itself in the same step.
SendOwn(kind) ==
    /\ Send(kind)
    /\ reason' = IF Overflows THEN Ended("SlowConsumer") ELSE reason
    /\ cancelled' = (cancelled \/ Overflows)

-----------------------------------------------------------------------------
Init ==
    /\ task = "replaying" /\ toReplay \in 0..Peers
    /\ negotiation \in {"Disabled", "Xml"}
    /\ reader = "Xml" /\ encoder = "Xml"
    /\ queue = <<>> /\ batch = <<>> /\ buffer = <<>> /\ wire = <<>> /\ inbound = <<>>
    /\ drops = 0 /\ reason = "none"
    /\ cancelled = FALSE /\ aborted = FALSE /\ stopping = FALSE
    /\ writer = "waiting"
    /\ closers = [c \in Callers |-> "idle"]
    /\ routed = 0 /\ said = 0
    /\ peer = "up" /\ client = "new"

-----------------------------------------------------------------------------
(* The connection's task.                                                   *)

\* Waits for room, and counts nothing.
Replay ==
    /\ task = "replaying" /\ toReplay > 0
    /\ Room
    /\ queue' = Queued("event")
    /\ toReplay' = toReplay - 1
    /\ UNCHANGED <<task, negotiation, reader, drops, reason,
                   cancelled, writerVars, otherVars, clientVars>>

\* The replay gives up: its budget is spent waiting, or the connection is ending.
CutReplayShort ==
    /\ task = "replaying" /\ toReplay > 0
    /\ cancelled \/ ~Room
    /\ toReplay' = 0
    /\ UNCHANGED <<task, negotiation, reader, handleVars,
                   writerVars, otherVars, clientVars>>

Offer ==
    /\ task = "replaying" /\ toReplay = 0
    /\ task' = "reading"
    /\ \/ negotiation = "Xml" /\ negotiation' = "Offered" /\ SendOwn("offer")
       \/ negotiation = "Disabled" /\ UNCHANGED <<negotiation, handleVars>>
    /\ UNCHANGED <<toReplay, reader, 
                   writerVars, otherVars, clientVars>>

\* What `on_event` makes of a request, and `answer` of that.  Any request is
\* refused where the installation refuses them all, as one for another version.
Answer(kind) ==
    \/ /\ negotiation # "Offered" \/ kind = "unreadable"
       /\ UNCHANGED <<negotiation, reader, handleVars>>
    \/ /\ negotiation = "Offered" /\ kind = "otherVersion"
       /\ negotiation' = "Xml" /\ SendOwn("refuse")
       /\ UNCHANGED reader
    \/ /\ negotiation = "Offered" /\ kind = "request"
       /\ negotiation' = "Proto" /\ SendOwn("accept")
       /\ reader' = "Proto"

(* One frame is read.  Bytes of the other encoding are skipped, and count as *)
(* nothing heard.                                                            *)
Read ==
    /\ task = "reading" /\ ~cancelled
    /\ inbound # <<>>
    /\ inbound' = Tail(inbound)
    /\ LET frame == Head(inbound) IN
       IF frame.in = reader /\ frame.kind # "event"
       THEN Answer(frame.kind)
       ELSE UNCHANGED <<negotiation, reader, handleVars>>
    /\ UNCHANGED <<task, toReplay, writerVars, otherVars,
                   peer, client, said, wire>>

Leave(cause) ==
    /\ task = "reading"
    /\ task' = "leaving"
    /\ reason' = Ended(cause)
    /\ UNCHANGED <<toReplay, negotiation, reader, queue, drops,
                   cancelled, writerVars, otherVars, clientVars>>

\* The token is asked first, then the clock, then the socket.
LeaveCancelled == cancelled /\ Leave("Shutdown")

\* Mutant: whether the connection is idle is asked only when a frame arrives.
LeaveIdleOnFrame == ~cancelled /\ inbound # <<>> /\ Leave("Idle")

\* Neither direction has carried anything for `idle_timeout`.
LeaveIdle == ~cancelled /\ Leave("Idle")

LeaveEnded == ~cancelled /\ peer = "closed" /\ inbound = <<>> /\ Leave("ClientGone")

Unregister ==
    /\ task = "leaving"
    /\ task' = "unregistered"
    /\ UNCHANGED <<toReplay, negotiation, reader, handleVars, writerVars,
                   otherVars, clientVars>>

CloseOwn ==
    /\ task = "unregistered"
    /\ task' = "draining"
    /\ queue' = IF Room THEN Queued("close") ELSE queue
    /\ cancelled' = TRUE
    /\ UNCHANGED <<toReplay, negotiation, reader, drops, reason,
                   writerVars, otherVars, clientVars>>

Report ==
    /\ task = "draining" /\ writer = "gone"
    /\ task' = "gone"
    /\ UNCHANGED <<toReplay, negotiation, reader, handleVars, writerVars,
                   otherVars, clientVars>>

-----------------------------------------------------------------------------
(* The writer's task.                                                       *)

Take ==
    /\ writer = "waiting" /\ queue # <<>>
    /\ writer' = "writing"
    /\ batch' = queue /\ queue' = <<>>
    /\ UNCHANGED <<taskVars, drops, reason, cancelled, encoder, buffer, aborted,
                   otherVars, clientVars>>

\* Mutant: cancellation ends the writer whatever is queued.
NothingMoreAtOnce == cancelled

\* What is queued is still written; what cancellation ends is the wait.
NothingMore == cancelled /\ queue = <<>>

StopWaiting ==
    /\ writer = "waiting" /\ NothingMore
    /\ writer' = "finishing"
    /\ UNCHANGED <<taskVars, handleVars, batch, encoder, buffer, aborted,
                   otherVars, clientVars>>

NextKind == IF batch = <<>> THEN "none" ELSE Head(batch).kind
Framed == Append(buffer, [kind |-> NextKind, in |-> encoder])

Feed ==
    /\ writer = "writing" /\ NextKind \in {"event", "offer", "refuse"}
    /\ buffer' = Framed
    /\ batch' = Tail(batch)
    /\ UNCHANGED <<taskVars, handleVars, writer, encoder, aborted,
                   otherVars, clientVars>>

\* Mutant: the encoder is switched before the answer is fed to it.
SwitchThenAnswer ==
    /\ writer = "writing" /\ NextKind = "accept"
    /\ peer = "up"
    /\ wire' = wire \o Append(buffer, [kind |-> "accept", in |-> "Proto"])
    /\ buffer' = <<>> /\ batch' = Tail(batch)
    /\ encoder' = "Proto"
    /\ UNCHANGED <<taskVars, handleVars, writer, aborted, otherVars,
                   peer, client, said, inbound>>

\* Mutant: the answer is written at once, ahead of what was fed before it.
AnswerAtOnce ==
    /\ writer = "writing" /\ NextKind = "accept"
    /\ peer = "up"
    /\ wire' = Append(wire, [kind |-> "accept", in |-> "Xml"])
    /\ batch' = Tail(batch)
    /\ encoder' = "Proto"
    /\ UNCHANGED <<taskVars, handleVars, writer, buffer, aborted, otherVars,
                   peer, client, said, inbound>>

\* The answer is fed and flushed before the encoder is switched.
SwitchToProto ==
    /\ writer = "writing" /\ NextKind = "accept"
    /\ peer = "up"
    /\ wire' = wire \o Framed
    /\ buffer' = <<>> /\ batch' = Tail(batch)
    /\ encoder' = "Proto"
    /\ UNCHANGED <<taskVars, handleVars, writer, aborted, otherVars,
                   peer, client, said, inbound>>

Flush ==
    /\ writer = "writing" /\ batch = <<>>
    /\ peer = "up"
    /\ wire' = wire \o buffer /\ buffer' = <<>>
    /\ writer' = "waiting"
    /\ UNCHANGED <<taskVars, handleVars, batch, encoder, aborted, otherVars,
                   peer, client, said, inbound>>

MeetClose ==
    /\ writer = "writing" /\ NextKind = "close"
    /\ writer' = "finishing"
    /\ UNCHANGED <<taskVars, handleVars, batch, encoder, buffer, aborted,
                   otherVars, clientVars>>

\* Mutant: a write that fails ends the connection without saying why.
WriteFailsUnnamed ==
    /\ writer = "writing" /\ NextKind # "close"
    /\ peer # "up"
    /\ writer' = "failing"
    /\ UNCHANGED <<taskVars, handleVars, batch, encoder, buffer, aborted,
                   otherVars, clientVars>>

\* The peer takes no bytes for `write_timeout`, or the socket is gone.
WriteFails ==
    /\ writer = "writing" /\ NextKind # "close"
    /\ peer # "up"
    /\ reason' = Ended("WriteFailed")
    /\ writer' = "failing"
    /\ UNCHANGED <<taskVars, queue, drops, cancelled, batch, encoder, buffer, aborted,
                   otherVars, clientVars>>

\* The writer returns: its queue goes with it, and whatever was not flushed.
WriterGone ==
    /\ writer' = "gone"
    /\ queue' = <<>> /\ batch' = <<>> /\ buffer' = <<>>
    /\ UNCHANGED <<taskVars, drops, reason, encoder, otherVars,
                   peer, client, said, inbound>>

FailedStop ==
    /\ writer = "failing"
    /\ cancelled' = TRUE
    /\ WriterGone
    /\ UNCHANGED <<aborted, wire>>

\* Closing flushes what was fed, within the write timeout.
Finish ==
    /\ writer = "finishing"
    /\ wire' = IF peer = "up" THEN wire \o buffer ELSE wire
    /\ cancelled' = TRUE
    /\ WriterGone
    /\ UNCHANGED aborted

Parked ==
    \/ writer \in {"writing", "finishing"} /\ peer = "stalled"
    \/ writer = "waiting" /\ queue = <<>> /\ ~NothingMore

\* The writer has had its drain and is still here.
Abort ==
    /\ task = "draining" /\ Parked
    /\ aborted' = TRUE
    /\ WriterGone
    /\ UNCHANGED <<cancelled, wire>>

-----------------------------------------------------------------------------
(* Whoever delivers to the connection, or closes it.                        *)

\* A router may hold a clone of the handle for long after the hub has let go of it.
Route ==
    /\ closers["router"] = "idle" /\ routed < MaxRouted
    /\ routed' = routed + 1
    /\ Send("event")
    /\ reason' = IF Overflows THEN Ended("SlowConsumer") ELSE reason
    /\ closers' = [closers EXCEPT !["router"] = IF Overflows THEN "named" ELSE "idle"]
    /\ UNCHANGED <<taskVars, cancelled, writerVars, stopping, clientVars>>

\* A revocation, a disabled account, an administrator.
CloseFromOutside ==
    /\ Registered /\ closers["outside"] = "idle" /\ ~cancelled
    /\ reason' = Ended("Revoked")
    /\ closers' = [closers EXCEPT !["outside"] = "named"]
    /\ UNCHANGED <<taskVars, queue, drops, cancelled, writerVars, routed,
                   stopping, clientVars>>

\* The message, if there is room for it, and the token.
Close(c) ==
    /\ closers[c] = "named"
    /\ closers' = [closers EXCEPT ![c] = "idle"]
    /\ queue' = IF Room THEN Queued("close") ELSE queue
    /\ cancelled' = TRUE
    /\ UNCHANGED <<taskVars, drops, reason, writerVars, routed, stopping, clientVars>>

StopServer ==
    /\ ~stopping
    /\ stopping' = TRUE /\ cancelled' = TRUE
    /\ UNCHANGED <<taskVars, queue, drops, reason, writerVars, closers,
                   routed, clientVars>>

-----------------------------------------------------------------------------
(* The client, and time.                                                    *)

Speaks == IF client = "proto" THEN "Proto" ELSE "Xml"

\* What its user hands it while it waits for an answer is held back.
ClientSays ==
    /\ peer = "up" /\ client # "asked" /\ said < MaxSaid
    /\ said' = said + 1
    /\ inbound' = Append(inbound, [kind |-> "event", in |-> Speaks])
    /\ UNCHANGED <<taskVars, handleVars, writerVars, otherVars, peer, client, wire>>

\* The offer is answered in the step that reads it, or declined for good.
ClientIsOffered(kind) ==
    /\ peer = "up" /\ client = "new"
    /\ wire # <<>> /\ Head(wire).kind = "offer"
    /\ wire' = Tail(wire)
    /\ \/ /\ kind = "none" /\ client' = "xml"
          /\ UNCHANGED inbound
       \/ /\ kind # "none" /\ client' = "asked"
          /\ inbound' = Append(inbound, [kind |-> kind, in |-> "Xml"])
    /\ UNCHANGED <<taskVars, handleVars, writerVars, otherVars, peer, said>>

ClientReads ==
    /\ peer = "up" /\ wire # <<>> /\ Head(wire).kind # "offer"
    /\ wire' = Tail(wire)
    /\ client' = CASE client = "asked" /\ Head(wire).kind = "accept" -> "proto"
                   [] client = "asked" /\ Head(wire).kind = "refuse" -> "xml"
                   [] OTHER -> client
    /\ UNCHANGED <<taskVars, handleVars, writerVars, otherVars, peer, said, inbound>>

(* Sixty seconds are up: XML for good.  The timer is asked before the socket, *)
(* so an answer may be on its way, or there already, unread.                  *)
ClientGivesUp ==
    /\ peer = "up" /\ client = "asked"
    /\ client' = "gaveUp"
    /\ UNCHANGED <<taskVars, handleVars, writerVars, otherVars, peer, said, wire, inbound>>

\* The client takes no more bytes, or its socket is closed: what is on its way to it
\* is lost.
LosePeer(how) ==
    /\ peer # "closed" /\ peer # how
    /\ peer' = how /\ wire' = <<>>
    /\ UNCHANGED <<taskVars, handleVars, writerVars, otherVars, client, said, inbound>>

-----------------------------------------------------------------------------
TaskStep ==
    \/ Replay \/ CutReplayShort \/ Offer \/ Read
    \/ LeaveCancelled \/ LeaveEnded
    \/ Unregister \/ CloseOwn \/ Report

WriterStep ==
    \/ Take \/ StopWaiting \/ Feed \/ SwitchToProto \/ Flush \/ MeetClose
    \/ WriteFails \/ FailedStop \/ Finish

ClientStep ==
    \/ ClientSays \/ ClientReads \/ ClientGivesUp
    \/ \E kind \in Requests \cup {"none"} : ClientIsOffered(kind)
    \/ LosePeer("stalled") \/ LosePeer("closed")

Next ==
    \/ TaskStep \/ LeaveIdle \/ WriterStep \/ Abort
    \/ Route \/ CloseFromOutside
    \/ \E c \in Callers : Close(c)
    \/ StopServer \/ ClientStep

Spec == Init /\ [][Next]_vars

(* tokio polls every ready task and fires every timer; a peer that is lost   *)
(* stays silent, so its connection does turn idle.  Nothing is asked of the  *)
(* client, of those who route to it or close it, or of the network.          *)
Fairness ==
    /\ WF_vars(TaskStep) /\ WF_vars(WriterStep) /\ WF_vars(Abort)
    /\ \A c \in Callers : WF_vars(Close(c))
    /\ WF_vars(LeaveIdle /\ peer # "up")

FairSpec == Spec /\ Fairness

-----------------------------------------------------------------------------
Outgoing == wire \o buffer

AfterAnswer(frames, i) == \E j \in 1..(i - 1) : frames[j].kind = "accept"

Carries(frames, kinds) == \E i \in DOMAIN frames : frames[i].kind \in kinds

(* Whatever the client has yet to read is in the encoding it will expect when *)
(* it gets there: XML up to and with the answer, protobuf behind it           *)
(* (negotiation.rs, writer.rs write); what the client sends in protobuf is     *)
(* read as protobuf (connection.rs answer); and no XML is ever written behind  *)
(* protobuf.  A client that gave up waiting is excepted from the first: it     *)
(* ignores an answer that comes after all.                                    *)
EncodingsAgree ==
    /\ peer = "up" /\ client # "gaveUp" =>
          \A i \in DOMAIN Outgoing :
             Outgoing[i].in = IF client = "proto" \/ AfterAnswer(Outgoing, i)
                              THEN "Proto" ELSE "Xml"
    /\ \A i, j \in DOMAIN Outgoing :
          i < j /\ Outgoing[i].in = "Proto" => Outgoing[j].in = "Proto"
    /\ Carries(inbound, Requests) => reader = "Xml"
    /\ \A i \in DOMAIN inbound : inbound[i].in = "Proto" => reader = "Proto"

(* A close is a statement about the future: the writer of a client that still *)
(* reads does not end before everything queued ahead of the close is on the    *)
(* wire (writer.rs next, run), whatever the queue's length when it was asked.  *)
OwedIsWritten ==
    [][writer # "gone" /\ writer' = "gone" /\ peer = "up" =>
          /\ \A i \in DOMAIN (batch \o queue) : (batch \o queue)[i].late
          /\ wire' = Outgoing]_vars

(* The writer is aborted only for a peer that stopped reading: a handle that   *)
(* somebody still holds does not keep it waiting (writer.rs run).  And a         *)
(* connection is counted as having left for the server's shutdown only when    *)
(* the server is stopping: every other end names its cause before it cancels   *)
(* the token (subscription.rs close, writer.rs flush, liveness.rs).            *)
EndIsWhatItSays ==
    /\ aborted => peer # "up"
    /\ reason = "Shutdown" => stopping

Reclaimed == task = "gone" /\ writer = "gone"

(* Once anything has named a cause or cancelled the token, the connection      *)
(* ends: its task and its writer are gone, though its queue is full, its peer    *)
(* takes no bytes and somebody holds its handle for ever.  And a peer that takes  *)
(* no bytes, or is gone, does not get to keep a socket, whether or not anything   *)
(* is written to it (connection.rs run, read_loop, writer.rs run).              *)
EndingEnds == Ending \/ peer # "up" ~> Reclaimed

-----------------------------------------------------------------------------
(* The promise of MessagePipe, as this connection keeps it: what is accepted is   *)
(* on the wire, fed, in the batch or in the queue.                              *)
Sent(frames) == [i \in DOMAIN frames |-> [kind |-> frames[i].kind, late |-> FALSE]]

Pending == Sent(Outgoing) \o (batch \o queue)

Pipe == INSTANCE MessagePipe WITH
    Contents <- Kinds, pending <- Pending, ending <- Ending,
    open <- writer # "gone", taking <- peer = "up"

(* The client reads what was queued for it in the order in which it was queued,     *)
(* each once and with nothing left out, through the queue, the batch and the       *)
(* buffer, around the switch of the encoding and up to the end of the connection    *)
(* (subscription.rs send, writer.rs write, run).                                 *)
DeliversInOrder == Pipe!Spec

=============================================================================
