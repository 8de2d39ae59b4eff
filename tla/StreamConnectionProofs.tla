----------------------- MODULE StreamConnectionProofs -----------------------
(***************************************************************************)
(* What a connection's end says, what is still written at that end, and that  *)
(* both ends agree on the encoding of every frame, for any length of queue,   *)
(* any number of peers and any number of messages either way.               *)
(***************************************************************************)
EXTENDS StreamConnection, SequenceTheorems, TLAPS

\* A sequence of messages, of which the late ones come last.
SomeLate(s) == \E i \in DOMAIN s : s[i].late
AllLate(s) == \A i \in DOMAIN s : s[i].late
LateLast(s) == \A i, j \in DOMAIN s : i < j /\ s[i].late => s[j].late

\* Every end has named its cause before it cancels the token.
Named ==
    /\ task \in {"leaving", "unregistered", "draining", "gone"} => reason # "none"
    /\ \A c \in Callers : closers[c] = "named" => reason # "none"
    /\ Carries(batch, {"close"}) \/ Carries(queue, {"close"}) => reason # "none"
    /\ writer = "failing" => reason # "none" /\ peer # "up"
    /\ writer = "finishing" => Ending
    /\ cancelled /\ reason = "none" => stopping
    /\ task \in {"draining", "gone"} => cancelled

\* What was queued before the end stands ahead of what was queued since, and a
\* close is never ahead of what is owed.
Owed ==
    /\ LateLast(batch) /\ LateLast(queue)
    /\ SomeLate(batch) => AllLate(queue)
    /\ SomeLate(batch) \/ SomeLate(queue) => Ending
    /\ \A i \in DOMAIN batch : batch[i].kind = "close" => batch[i].late
    /\ \A i \in DOMAIN queue : queue[i].kind = "close" => queue[i].late
    /\ writer = "waiting" => batch = <<>>
    /\ writer = "finishing" => AllLate(batch) /\ AllLate(queue)

\* On its way to the client.
InPipe(kinds) ==
    Carries(wire, kinds) \/ Carries(buffer, kinds) \/ Carries(batch, kinds)
    \/ Carries(queue, kinds)

\* A client asks once, and is answered once: what the server made of the request
\* is what the answer on its way says.
Asked ==
    /\ negotiation = "Proto" <=> reader = "Proto"
    /\ InPipe({"accept"}) => negotiation = "Proto"
    /\ InPipe({"refuse"}) => negotiation = "Xml" /\ task # "replaying"
    /\ \A i, j \in DOMAIN inbound :
          inbound[i].kind \in Requests /\ inbound[j].kind \in Requests => i = j
    /\ Carries(inbound, Requests) =>
          /\ client \in {"asked", "gaveUp"} /\ negotiation # "Proto"
          /\ ~InPipe({"accept"}) /\ ~InPipe({"refuse"})
    /\ client = "new" => ~InPipe({"accept"}) /\ ~InPipe({"refuse"})
    /\ client \in {"new", "xml"} => negotiation # "Proto"
    /\ client = "proto" => negotiation = "Proto"
    /\ \A i \in DOMAIN inbound : inbound[i].in = "Proto" => client = "proto"

\* Frames in protobuf come last, and the encoder is switched where they begin.
ProtoLast(frames) ==
    \A i, j \in DOMAIN frames :
        i < j /\ frames[i].in = "Proto" => frames[j].in = "Proto"

InProto(frames) == \E i \in DOMAIN frames : frames[i].in = "Proto"

\* As a client reads frames that expects protobuf from the first, or from the
\* answer on.
AsExpected(frames, proto) ==
    \A i \in DOMAIN frames :
        frames[i].in = IF proto \/ AfterAnswer(frames, i) THEN "Proto" ELSE "Xml"

Encoded ==
    /\ ProtoLast(Outgoing)
    /\ InProto(Outgoing) => encoder = "Proto"
    /\ peer = "up" /\ client # "gaveUp" =>
          /\ AsExpected(Outgoing, client = "proto")
          /\ encoder = IF client = "proto" \/ Carries(Outgoing, {"accept"})
                       THEN "Proto" ELSE "Xml"

IInv == TypeOK /\ Named /\ EndIsWhatItSays /\ Owed /\ Asked /\ Encoded

-----------------------------------------------------------------------------
(* What adding to, taking from and joining sequences leaves.                 *)

(* What appending does to a sequence.                                        *)
LEMMA Grown ==
    ASSUME NEW S, NEW s \in Seq(S), NEW e \in S
    PROVE  /\ Append(s, e) \in Seq(S) /\ Len(Append(s, e)) = Len(s) + 1
           /\ DOMAIN Append(s, e) = 1..(Len(s) + 1) /\ DOMAIN s = 1..Len(s)
           /\ Len(s) \in Nat
           /\ \A i \in 1..Len(s) : Append(s, e)[i] = s[i]
           /\ Append(s, e)[Len(s) + 1] = e
OBVIOUS

(* What taking its head does to a sequence.                                  *)
LEMMA Shrunk ==
    ASSUME NEW S, NEW s \in Seq(S), s # <<>>
    PROVE  /\ Tail(s) \in Seq(S) /\ Head(s) = s[1] /\ Head(s) \in S
           /\ Len(s) \in Nat \ {0} /\ Len(Tail(s)) = Len(s) - 1
           /\ DOMAIN Tail(s) = 1..(Len(s) - 1) /\ DOMAIN s = 1..Len(s)
           /\ \A i \in 1..(Len(s) - 1) : Tail(s)[i] = s[i + 1]
BY HeadTailProperties, EmptySeq, LenProperties

(* What joining does to two sequences.                                       *)
LEMMA Joined ==
    ASSUME NEW S, NEW s \in Seq(S), NEW t \in Seq(S)
    PROVE  /\ s \o t \in Seq(S) /\ Len(s) \in Nat /\ Len(t) \in Nat
           /\ DOMAIN (s \o t) = 1..(Len(s) + Len(t))
           /\ DOMAIN s = 1..Len(s) /\ DOMAIN t = 1..Len(t)
           /\ \A i \in 1..Len(s) : (s \o t)[i] = s[i]
           /\ \A i \in 1..Len(t) : (s \o t)[Len(s) + i] = t[i]
BY ConcatProperties, LenProperties

\* The last frame of what is joined is the last of the second part, and the first
\* that of the first.
LEMMA JoinedGrown ==
    ASSUME NEW S, NEW s \in Seq(S), NEW t \in Seq(S), NEW e \in S
    PROVE  s \o Append(t, e) = Append(s \o t, e)
<1> DEFINE u == s \o Append(t, e)
           v == Append(s \o t, e)
<1>1. /\ u \in Seq(S) /\ v \in Seq(S) /\ Len(u) = Len(v)
      /\ Len(v) = Len(s) + Len(t) + 1
  BY ConcatProperties
<1>2. ASSUME NEW i \in 1..Len(v) PROVE u[i] = v[i]
  <2>1. Len(s) \in Nat /\ Len(t) \in Nat
    OBVIOUS
  <2>2. CASE i <= Len(s)
    BY <1>1, <2>1, <2>2, ConcatProperties
  <2>3. CASE i > Len(s) /\ i <= Len(s) + Len(t)
    BY <1>1, <2>1, <2>3, ConcatProperties
  <2>4. CASE i = Len(s) + Len(t) + 1
    BY <1>1, <2>1, <2>4, ConcatProperties
  <2> QED BY <1>1, <2>1, <2>2, <2>3, <2>4
<1> QED
  BY <1>1, <1>2, SeqEqual

(* The head of two sequences in a row is the first one's.                    *)
LEMMA JoinedShrunk ==
    ASSUME NEW S, NEW s \in Seq(S), NEW t \in Seq(S), s # <<>>
    PROVE  s \o t # <<>> /\ Head(s \o t) = Head(s) /\ Tail(s \o t) = Tail(s) \o t
<1> DEFINE u == Tail(s \o t)
           v == Tail(s) \o t
<1>1. /\ s \o t \in Seq(S) /\ Len(s) \in Nat \ {0} /\ Len(t) \in Nat
      /\ Len(s \o t) = Len(s) + Len(t)
  BY ConcatProperties, EmptySeq
<1>2. s \o t # <<>> /\ Head(s \o t) = Head(s)
  BY <1>1, ConcatProperties, Shrunk
<1>3. /\ u \in Seq(S) /\ v \in Seq(S) /\ Len(u) = Len(v)
      /\ Len(v) = Len(s) + Len(t) - 1
  BY <1>1, <1>2, ConcatProperties, Shrunk
<1>4. ASSUME NEW i \in 1..Len(v) PROVE u[i] = v[i]
  <2>1. /\ u[i] = (s \o t)[i + 1] /\ Tail(s) \in Seq(S)
        /\ Len(Tail(s)) = Len(s) - 1
        /\ \A k \in 1..(Len(s) - 1) : Tail(s)[k] = s[k + 1]
    BY <1>1, <1>2, <1>3, Shrunk
  <2>2. CASE i <= Len(s) - 1
    BY <1>1, <1>3, <2>1, <2>2, ConcatProperties
  <2>3. CASE i > Len(s) - 1
    BY <1>1, <1>3, <2>1, <2>3, ConcatProperties
  <2> QED BY <1>1, <1>3, <2>2, <2>3
<1> QED
  BY <1>2, <1>3, <1>4, SeqEqual

-----------------------------------------------------------------------------
(* What that means for what the invariants say of queues and of frames.      *)

(* A queue carries what it carried, and what was appended.                   *)
LEMMA CarriesGrown ==
    ASSUME NEW S, NEW s \in Seq(S), NEW e \in S, NEW K
    PROVE  Carries(Append(s, e), K) <=> Carries(s, K) \/ e.kind \in K
BY Grown DEF Carries

(* A queue carries its head, and what the rest carries.                      *)
LEMMA CarriesShrunk ==
    ASSUME NEW S, NEW s \in Seq(S), s # <<>>, NEW K
    PROVE  Carries(s, K) <=> Head(s).kind \in K \/ Carries(Tail(s), K)
<1>1. \A i \in DOMAIN s : i = 1 \/ (i - 1 \in DOMAIN Tail(s) /\ s[i] = Tail(s)[i - 1])
  BY Shrunk
<1>2. \A i \in DOMAIN Tail(s) : i + 1 \in DOMAIN s /\ Tail(s)[i] = s[i + 1]
  BY Shrunk
<1>3. 1 \in DOMAIN s /\ Head(s) = s[1]
  BY Shrunk
<1> QED
  BY <1>1, <1>2, <1>3 DEF Carries

(* Two queues in a row carry what either does.                               *)
LEMMA CarriesJoined ==
    ASSUME NEW S, NEW s \in Seq(S), NEW t \in Seq(S), NEW K
    PROVE  Carries(s \o t, K) <=> Carries(s, K) \/ Carries(t, K)
<1>1. \A i \in DOMAIN s : i \in DOMAIN (s \o t) /\ (s \o t)[i] = s[i]
  BY Joined
<1>2. \A i \in DOMAIN t : Len(s) + i \in DOMAIN (s \o t) /\ (s \o t)[Len(s) + i] = t[i]
  BY Joined
<1>3. \A i \in DOMAIN (s \o t) :
          i \in DOMAIN s \/ (i - Len(s) \in DOMAIN t /\ (s \o t)[i] = t[i - Len(s)])
  BY Joined
<1> QED
  BY <1>1, <1>2, <1>3 DEF Carries

(* An empty queue carries nothing.                                           *)
LEMMA CarriesNothing ==
    ASSUME NEW K PROVE ~Carries(<<>>, K)
BY DEF Carries

(* Which messages are late, when one is appended.                            *)
LEMMA LateGrown ==
    ASSUME NEW S, NEW s \in Seq(S), NEW e \in S
    PROVE  /\ SomeLate(Append(s, e)) <=> SomeLate(s) \/ e.late
           /\ AllLate(Append(s, e)) <=> AllLate(s) /\ e.late
           /\ LateLast(s) /\ (SomeLate(s) => e.late) => LateLast(Append(s, e))
<1>1. \A i \in DOMAIN Append(s, e) :
          (i \in DOMAIN s /\ Append(s, e)[i] = s[i]) \/ (i = Len(s) + 1 /\ Append(s, e)[i] = e)
  BY Grown
<1>2. /\ \A i \in DOMAIN s : i \in DOMAIN Append(s, e) /\ Append(s, e)[i] = s[i]
      /\ Len(s) + 1 \in DOMAIN Append(s, e) /\ Append(s, e)[Len(s) + 1] = e
      /\ \A i \in DOMAIN s : i \in Nat /\ i < Len(s) + 1
  BY Grown
<1>3. /\ SomeLate(Append(s, e)) <=> SomeLate(s) \/ e.late
      /\ AllLate(Append(s, e)) <=> AllLate(s) /\ e.late
  BY <1>1, <1>2 DEF SomeLate, AllLate
<1>4. ASSUME LateLast(s), SomeLate(s) => e.late PROVE LateLast(Append(s, e))
  BY <1>1, <1>2, <1>4 DEF SomeLate, LateLast
<1> QED
  BY <1>3, <1>4

(* Which messages are late, when the head is taken.                          *)
LEMMA LateShrunk ==
    ASSUME NEW S, NEW s \in Seq(S), s # <<>>
    PROVE  /\ SomeLate(Tail(s)) => SomeLate(s)
           /\ AllLate(s) => AllLate(Tail(s)) /\ Head(s).late
           /\ LateLast(s) => LateLast(Tail(s)) /\ (Head(s).late => AllLate(s))
<1>1. \A i \in DOMAIN Tail(s) : i + 1 \in DOMAIN s /\ Tail(s)[i] = s[i + 1] /\ i \in Nat
  BY Shrunk
<1>2. /\ \A i \in DOMAIN s : i = 1 \/ 1 < i
      /\ 1 \in DOMAIN s /\ Head(s) = s[1]
  BY Shrunk
<1>3. SomeLate(Tail(s)) => SomeLate(s)
  BY <1>1 DEF SomeLate
<1>4. AllLate(s) => AllLate(Tail(s)) /\ Head(s).late
  BY <1>1, <1>2 DEF AllLate
<1>5. ASSUME LateLast(s) PROVE LateLast(Tail(s)) /\ (Head(s).late => AllLate(s))
  <2>1. LateLast(Tail(s))
    BY <1>1, <1>5 DEF LateLast
  <2>2. Head(s).late => AllLate(s)
    BY <1>2, <1>5 DEF LateLast, AllLate
  <2> QED BY <2>1, <2>2
<1> QED
  BY <1>3, <1>4, <1>5

(* In an empty queue none is late.                                           *)
LEMMA LateNothing ==
    ~SomeLate(<<>>) /\ AllLate(<<>>) /\ LateLast(<<>>)
BY DEF SomeLate, AllLate, LateLast

(* How messages are encoded, when one is appended.                           *)
LEMMA EncodedGrown ==
    ASSUME NEW S, NEW s \in Seq(S), NEW e \in S
    PROVE  /\ InProto(Append(s, e)) <=> InProto(s) \/ e.in = "Proto"
           /\ ProtoLast(s) /\ (InProto(s) => e.in = "Proto") => ProtoLast(Append(s, e))
           /\ \A proto \in BOOLEAN :
                 /\ AsExpected(s, proto)
                 /\ e.in = IF proto \/ Carries(s, {"accept"}) THEN "Proto" ELSE "Xml"
                 => AsExpected(Append(s, e), proto)
<1>1. \A i \in DOMAIN Append(s, e) :
          (i \in DOMAIN s /\ Append(s, e)[i] = s[i]) \/ (i = Len(s) + 1 /\ Append(s, e)[i] = e)
  BY Grown
<1>2. /\ \A i \in DOMAIN s : i \in DOMAIN Append(s, e) /\ Append(s, e)[i] = s[i]
      /\ Len(s) + 1 \in DOMAIN Append(s, e) /\ Append(s, e)[Len(s) + 1] = e
      /\ \A i \in DOMAIN s : i \in Nat /\ i < Len(s) + 1
  BY Grown
<1>3. InProto(Append(s, e)) <=> InProto(s) \/ e.in = "Proto"
  BY <1>1, <1>2 DEF InProto
<1>4. ASSUME ProtoLast(s), InProto(s) => e.in = "Proto" PROVE ProtoLast(Append(s, e))
  BY <1>1, <1>2, <1>4 DEF InProto, ProtoLast
<1>5. \A i \in DOMAIN s : AfterAnswer(Append(s, e), i) <=> AfterAnswer(s, i)
  <2>1. \A i \in DOMAIN s : \A j \in 1..(i - 1) : j \in DOMAIN s
    BY Grown
  <2> QED BY <1>2, <2>1 DEF AfterAnswer
<1>6. AfterAnswer(Append(s, e), Len(s) + 1) <=> Carries(s, {"accept"})
  <2>1. 1..(Len(s) + 1 - 1) = DOMAIN s
    BY Grown
  <2> QED BY <1>2, <2>1 DEF AfterAnswer, Carries
<1>7. ASSUME NEW proto \in BOOLEAN, AsExpected(s, proto),
             e.in = IF proto \/ Carries(s, {"accept"}) THEN "Proto" ELSE "Xml"
      PROVE  AsExpected(Append(s, e), proto)
  BY <1>1, <1>5, <1>6, <1>7 DEF AsExpected
<1> QED
  BY <1>3, <1>4, <1>7

(* How messages are encoded, when the head is taken: past an acceptance the rest is*)
(* expected in protobuf.                                                     *)
LEMMA EncodedShrunk ==
    ASSUME NEW S, NEW s \in Seq(S), s # <<>>
    PROVE  /\ InProto(Tail(s)) => InProto(s)
           /\ ProtoLast(s) => ProtoLast(Tail(s))
           /\ \A proto \in BOOLEAN :
                 AsExpected(s, proto) =>
                     AsExpected(Tail(s), proto \/ Head(s).kind = "accept")
<1>1. \A i \in DOMAIN Tail(s) : i + 1 \in DOMAIN s /\ Tail(s)[i] = s[i + 1] /\ i \in Nat \ {0}
  BY Shrunk
<1>2. InProto(Tail(s)) => InProto(s)
  BY <1>1 DEF InProto
<1>3. ProtoLast(s) => ProtoLast(Tail(s))
  BY <1>1 DEF ProtoLast
<1>4. \A i \in DOMAIN Tail(s) :
          AfterAnswer(s, i + 1) <=> Head(s).kind = "accept" \/ AfterAnswer(Tail(s), i)
  <2> TAKE i \in DOMAIN Tail(s)
  <2>1. \A j \in 1..(i - 1) : j + 1 \in 1..(i + 1 - 1) /\ Tail(s)[j] = s[j + 1]
    BY Shrunk
  <2>2. \A j \in 1..(i + 1 - 1) : j = 1 \/ (j - 1 \in 1..(i - 1) /\ Tail(s)[j - 1] = s[j])
    BY Shrunk
  <2>3. 1 \in 1..(i + 1 - 1) /\ Head(s) = s[1]
    BY Shrunk
  <2> QED BY <2>1, <2>2, <2>3 DEF AfterAnswer
<1>5. ASSUME NEW proto \in BOOLEAN, AsExpected(s, proto)
      PROVE  AsExpected(Tail(s), proto \/ Head(s).kind = "accept")
  BY <1>1, <1>4, <1>5 DEF AsExpected
<1> QED
  BY <1>2, <1>3, <1>5

\* Losing what stands behind, or ahead, does not mix the encodings.
LEMMA EncodedParts ==
    ASSUME NEW S, NEW s \in Seq(S), NEW t \in Seq(S)
    PROVE  /\ InProto(s \o t) <=> InProto(s) \/ InProto(t)
           /\ ProtoLast(s \o t) => ProtoLast(s) /\ ProtoLast(t)
<1>1. \A i \in DOMAIN s : i \in DOMAIN (s \o t) /\ (s \o t)[i] = s[i]
  BY Joined
<1>2. \A i \in DOMAIN t : /\ Len(s) + i \in DOMAIN (s \o t) /\ (s \o t)[Len(s) + i] = t[i]
                          /\ i \in Nat /\ Len(s) \in Nat
  BY Joined
<1>3. \A i \in DOMAIN (s \o t) :
          \/ i \in DOMAIN s /\ (s \o t)[i] = s[i]
          \/ (i - Len(s) \in DOMAIN t /\ (s \o t)[i] = t[i - Len(s)])
  BY Joined
<1>4. InProto(s \o t) <=> InProto(s) \/ InProto(t)
  <2>1. InProto(s) => InProto(s \o t)
    BY <1>1, Zenon DEF InProto
  <2>2. InProto(t) => InProto(s \o t)
    BY <1>2, Zenon DEF InProto
  <2>3. InProto(s \o t) => InProto(s) \/ InProto(t)
    BY <1>3, Zenon DEF InProto
  <2> QED BY <2>1, <2>2, <2>3
<1>5. ProtoLast(s \o t) => ProtoLast(s)
  BY <1>1 DEF ProtoLast
<1>6. ProtoLast(s \o t) => ProtoLast(t)
  <2>1. ASSUME ProtoLast(s \o t), NEW i \in DOMAIN t, NEW j \in DOMAIN t, i < j,
               t[i].in = "Proto"
        PROVE  t[j].in = "Proto"
    <3>1. Len(s) + i < Len(s) + j
      BY <1>2, <2>1
    <3> QED BY <1>2, <2>1, <3>1 DEF ProtoLast
  <2> QED BY <2>1 DEF ProtoLast
<1> QED
  BY <1>4, <1>5, <1>6

(* In an empty queue nothing is encoded at all.                              *)
LEMMA EncodedNothing ==
    /\ ~InProto(<<>>) /\ ProtoLast(<<>>)
    /\ \A proto \in BOOLEAN : AsExpected(<<>>, proto)
BY DEF InProto, ProtoLast, AsExpected

-----------------------------------------------------------------------------
(* Types.                                                                    *)

\* What is queued is a message, and is late if the connection is ending.
LEMMA MessageQueued ==
    ASSUME TypeOK, NEW kind \in Kinds
    PROVE  /\ Queued(kind) \in Seq(Message) /\ Len(Queued(kind)) = Len(queue) + 1
           /\ \A K : Carries(Queued(kind), K) <=> Carries(queue, K) \/ kind \in K
           /\ SomeLate(Queued(kind)) <=> SomeLate(queue) \/ Ending
           /\ AllLate(Queued(kind)) <=> AllLate(queue) /\ Ending
           /\ LateLast(queue) /\ (SomeLate(queue) => Ending) => LateLast(Queued(kind))
           /\ \A i \in DOMAIN Queued(kind) :
                 \/ i \in DOMAIN queue /\ Queued(kind)[i] = queue[i]
                 \/ Queued(kind)[i].kind = kind /\ (Queued(kind)[i].late <=> Ending)
<1> DEFINE m == [kind |-> kind, late |-> Ending]
<1>1. m \in Message /\ m.kind = kind /\ (m.late <=> Ending) /\ queue \in Seq(Message)
  BY DEF Message, Ending, TypeOK
<1>2. Queued(kind) = Append(queue, m)
  BY DEF Queued
<1> HIDE DEF m
<1>3. Queued(kind) \in Seq(Message) /\ Len(Queued(kind)) = Len(queue) + 1
  BY <1>1, <1>2, Grown
<1>4. \A K : Carries(Queued(kind), K) <=> Carries(queue, K) \/ kind \in K
  BY <1>1, <1>2, CarriesGrown
<1>5. /\ SomeLate(Queued(kind)) <=> SomeLate(queue) \/ Ending
      /\ AllLate(Queued(kind)) <=> AllLate(queue) /\ Ending
      /\ LateLast(queue) /\ (SomeLate(queue) => Ending) => LateLast(Queued(kind))
  BY <1>1, <1>2, LateGrown
<1>6. \A i \in DOMAIN Queued(kind) :
          \/ i \in DOMAIN queue /\ Queued(kind)[i] = queue[i]
          \/ Queued(kind)[i] = m
  BY <1>1, <1>2, Grown
<1> QED
  BY <1>1, <1>3, <1>4, <1>5, <1>6

\* What anybody does to the queue: nothing, or one message more.
Handed(kind) ==
    \/ queue' = queue
    \/ queue' = Queued(kind) /\ writer # "gone" /\ Len(queue) < QueueLen

(* Sending hands a message to the queue, or drops it and counts (subscription.rs send).*)
LEMMA SendHands ==
    ASSUME TypeOK, NEW kind \in Kinds, Send(kind)
    PROVE  Handed(kind) /\ drops' \in Nat
BY DEF TypeOK, Send, Handed, Room

(* Closing hands its message to the queue where there is room (subscription.rs close).*)
LEMMA CloseHands ==
    ASSUME queue' = IF Room THEN Queued("close") ELSE queue
    PROVE  Handed("close")
BY DEF Handed, Room

(* Handing over a message keeps the queue's type and its bound.              *)
LEMMA HandedType ==
    ASSUME TypeOK, NEW kind \in Kinds, Handed(kind)
    PROVE  queue' \in Seq(Message) /\ Len(queue') <= QueueLen
BY ConnectionConstants, MessageQueued DEF TypeOK, Handed

(* The types are kept, and the queue never outgrows its length. *)
LEMMA TypeStep ==
    ASSUME TypeOK, [Next]_vars
    PROVE  TypeOK'
<1> USE ConnectionConstants DEF TypeOK, taskVars, handleVars, writerVars, otherVars,
        clientVars
<1>1. CASE Replay
  BY <1>1, HandedType
     DEF Replay, Handed, Room, Kinds
<1>2. CASE CutReplayShort
  BY <1>2 DEF CutReplayShort
<1>3. CASE Offer
  <2>1. CASE negotiation = "Xml" /\ negotiation' = "Offered" /\ SendOwn("offer")
    BY <1>3, <2>1, SendHands, HandedType DEF Offer, SendOwn, Ended, Kinds, Causes
  <2>2. CASE negotiation = "Disabled" /\ UNCHANGED <<negotiation, handleVars>>
    BY <1>3, <2>2 DEF Offer
  <2> QED BY <1>3, <2>1, <2>2 DEF Offer
<1>4. CASE Read
  <2>1. Tail(inbound) \in Seq(Frame)
    BY <1>4, Shrunk DEF Read
  <2>2. CASE UNCHANGED <<negotiation, reader, handleVars>>
    BY <1>4, <2>1, <2>2 DEF Read
  <2>3. ASSUME NEW kind \in {"refuse", "accept"}, SendOwn(kind),
               negotiation' \in {"Xml", "Proto"}, reader' \in Encodings
        PROVE  TypeOK'
    BY <1>4, <2>1, <2>3, SendHands, HandedType
       DEF Read, SendOwn, Ended, Kinds, Causes
  <2> QED BY <1>4, <2>2, <2>3 DEF Read, Answer, Encodings
<1>5. CASE LeaveCancelled
  BY <1>5
     DEF LeaveCancelled, Ended, Causes, Leave
<1>6. CASE LeaveEnded
  BY <1>6
     DEF LeaveEnded, Ended, Causes, Leave
<1>7. CASE Unregister
  BY <1>7 DEF Unregister
<1>8. CASE CloseOwn
  BY <1>8, CloseHands, HandedType
     DEF CloseOwn, Kinds
<1>9. CASE Report
  BY <1>9 DEF Report
<1>10. CASE LeaveIdle
  BY <1>10
     DEF LeaveIdle, Ended, Causes, Leave
<1>11. CASE Take
  BY <1>11 DEF Take
<1>12. CASE StopWaiting
  BY <1>12 DEF StopWaiting
<1>13. CASE Feed
  BY <1>13, Shrunk, Grown
     DEF Feed, Framed, NextKind, Frame, Kinds
<1>14. CASE SwitchToProto
  BY <1>14, Shrunk, Grown, Joined
     DEF SwitchToProto, Framed, NextKind, Frame, Kinds, Encodings
<1>15. CASE Flush
  BY <1>15, Joined
     DEF Flush
<1>16. CASE MeetClose
  BY <1>16 DEF MeetClose
<1>17. CASE WriteFails
  BY <1>17
     DEF WriteFails, Ended, Causes
<1>18. CASE FailedStop
  BY <1>18 DEF FailedStop, WriterGone
<1>19. CASE Finish
  BY <1>19, Joined
     DEF Finish, WriterGone
<1>20. CASE Abort
  BY <1>20 DEF Abort, WriterGone
<1>21. CASE Route
  BY <1>21, SendHands, HandedType
     DEF Route, Kinds, Ended, Causes, Callers
<1>22. CASE CloseFromOutside
  BY <1>22
     DEF CloseFromOutside, Ended, Causes, Callers
<1>23. ASSUME NEW c \in Callers, Close(c) PROVE TypeOK'
  BY <1>23, CloseHands, HandedType
     DEF Close, Kinds
<1>24. CASE StopServer
  BY <1>24 DEF StopServer
<1>25. CASE ClientSays
  <2>1. [kind |-> "event", in |-> Speaks] \in Frame
    BY DEF Speaks, Frame, Kinds, Encodings
  <2>2. inbound' \in Seq(Frame) /\ said' \in 0..MaxSaid
    BY <1>25, <2>1 DEF ClientSays
  <2> QED BY <1>25, <2>2 DEF ClientSays
<1>26. CASE ClientReads
  BY <1>26, Shrunk
     DEF ClientReads
<1>27. CASE ClientGivesUp
  BY <1>27 DEF ClientGivesUp
<1>28. ASSUME NEW kind \in Requests \cup {"none"}, ClientIsOffered(kind) PROVE TypeOK'
  <2>1. wire' \in Seq(Frame)
    BY <1>28, Shrunk DEF ClientIsOffered
  <2>2. inbound' \in Seq(Frame)
    <3> DEFINE f == [kind |-> kind, in |-> "Xml"]
    <3>1. kind # "none" => f \in Frame
      BY DEF Frame, Encodings
    <3>2. inbound' = inbound \/ (kind # "none" /\ inbound' = Append(inbound, f))
      BY <1>28 DEF ClientIsOffered
    <3> HIDE DEF f
    <3>3. inbound \in Seq(Frame) /\ (f \in Frame => Append(inbound, f) \in Seq(Frame))
      BY Grown
    <3> QED BY <3>1, <3>2, <3>3
  <2> QED BY <1>28, <2>1, <2>2 DEF ClientIsOffered
<1>29. ASSUME NEW how \in {"stalled", "closed"}, LosePeer(how) PROVE TypeOK'
  BY <1>29 DEF LosePeer
<1>30. CASE UNCHANGED vars
  BY <1>30 DEF vars
<1> QED
  BY <1>1, <1>2, <1>3, <1>4, <1>5, <1>6, <1>7, <1>8, <1>9, <1>10, <1>11, <1>12, <1>13,
     <1>14, <1>15, <1>16, <1>17, <1>18, <1>19, <1>20, <1>21, <1>22, <1>23, <1>24,
     <1>25, <1>26, <1>27, <1>28, <1>29, <1>30
     DEF Next, TaskStep, WriterStep, ClientStep


-----------------------------------------------------------------------------
(* The end, and its cause.                                                   *)

(* Handing over a message adds no other one.                                 *)
LEMMA HandedCarries ==
    ASSUME TypeOK, NEW kind \in Kinds, Handed(kind), NEW K
    PROVE  Carries(queue', K) => Carries(queue, K) \/ kind \in K
BY MessageQueued DEF Handed

(* Whoever ends the connection names a cause first, or the server is stopping. *)
LEMMA NamedStep ==
    ASSUME TypeOK, Named, [Next]_vars
    PROVE  Named'
<1> USE ConnectionConstants DEF Named, Ending, taskVars, handleVars, writerVars,
        otherVars, clientVars
<1>1. CASE Replay
  BY <1>1, HandedCarries
     DEF Replay, Handed, Room, Kinds
<1>2. CASE CutReplayShort
  BY <1>2 DEF CutReplayShort
<1>3. CASE Offer
  <2>1. CASE negotiation = "Xml" /\ negotiation' = "Offered" /\ SendOwn("offer")
    BY <1>3, <2>1, SendHands, HandedCarries
       DEF Offer, SendOwn, Ended, Kinds, TypeOK, Causes
  <2>2. CASE negotiation = "Disabled" /\ UNCHANGED <<negotiation, handleVars>>
    BY <1>3, <2>2 DEF Offer
  <2> QED BY <1>3, <2>1, <2>2 DEF Offer
<1>4. CASE Read
  <2>1. CASE UNCHANGED <<negotiation, reader, handleVars>>
    BY <1>4, <2>1 DEF Read
  <2>2. ASSUME NEW kind \in {"refuse", "accept"}, SendOwn(kind) PROVE Named'
    BY <1>4, <2>2, SendHands, HandedCarries DEF Read, SendOwn, Ended, Kinds
  <2> QED BY <1>4, <2>1, <2>2 DEF Read, Answer
<1>5. CASE LeaveCancelled
  BY <1>5
     DEF LeaveCancelled, Ended, Leave
<1>6. CASE LeaveEnded
  BY <1>6
     DEF LeaveEnded, Ended, Leave
<1>7. CASE Unregister
  BY <1>7 DEF Unregister
<1>8. CASE CloseOwn
  BY <1>8, CloseHands, HandedCarries
     DEF CloseOwn, Kinds
<1>9. CASE Report
  BY <1>9 DEF Report
<1>10. CASE LeaveIdle
  BY <1>10
     DEF LeaveIdle, Ended, Leave
<1>11. CASE Take
  BY <1>11, CarriesNothing
     DEF Take, TypeOK
<1>12. CASE StopWaiting
  BY <1>12 DEF StopWaiting, NothingMore
<1>13. CASE Feed
  BY <1>13, CarriesShrunk
     DEF Feed, TypeOK, NextKind
<1>14. CASE SwitchToProto
  BY <1>14, CarriesShrunk
     DEF SwitchToProto, TypeOK, NextKind
<1>15. CASE Flush
  BY <1>15 DEF Flush
<1>16. CASE MeetClose
  BY <1>16, CarriesShrunk
     DEF MeetClose, NextKind, TypeOK
<1>17. CASE WriteFails
  BY <1>17 DEF WriteFails, Ended
<1>18. CASE FailedStop
  BY <1>18, CarriesNothing
     DEF FailedStop, WriterGone
<1>19. CASE Finish
  BY <1>19, CarriesNothing
     DEF Finish, WriterGone
<1>20. CASE Abort
  BY <1>20, CarriesNothing
     DEF Abort, WriterGone
<1>21. CASE Route
  BY <1>21, SendHands, HandedCarries
     DEF Route, Kinds, Ended
<1>22. CASE CloseFromOutside
  BY <1>22 DEF CloseFromOutside, Ended
<1>23. ASSUME NEW c \in Callers, Close(c) PROVE Named'
  BY <1>23, CloseHands, HandedCarries
     DEF Close, Kinds
<1>24. CASE StopServer
  BY <1>24 DEF StopServer
<1>25. CASE ClientSays
  BY <1>25 DEF ClientSays
<1>26. CASE ClientReads
  BY <1>26 DEF ClientReads
<1>27. CASE ClientGivesUp
  BY <1>27 DEF ClientGivesUp
<1>28. ASSUME NEW kind \in Requests \cup {"none"}, ClientIsOffered(kind) PROVE Named'
  BY <1>28 DEF ClientIsOffered
<1>29. ASSUME NEW how \in {"stalled", "closed"}, LosePeer(how) PROVE Named'
  BY <1>29 DEF LosePeer
<1>30. CASE UNCHANGED vars
  BY <1>30 DEF vars
<1> QED
  BY <1>1, <1>2, <1>3, <1>4, <1>5, <1>6, <1>7, <1>8, <1>9, <1>10, <1>11, <1>12, <1>13,
     <1>14, <1>15, <1>16, <1>17, <1>18, <1>19, <1>20, <1>21, <1>22, <1>23, <1>24,
     <1>25, <1>26, <1>27, <1>28, <1>29, <1>30
     DEF Next, TaskStep, WriterStep, ClientStep

(* The writer is aborted for a peer that takes nothing, and an end is the server's
   only when it stops. *)
LEMMA EndStep ==
    ASSUME TypeOK, Named, EndIsWhatItSays, [Next]_vars
    PROVE  EndIsWhatItSays'
<1> USE ConnectionConstants DEF EndIsWhatItSays, taskVars, handleVars, writerVars,
        otherVars, clientVars
<1>1. CASE Replay
  BY <1>1 DEF Replay
<1>2. CASE CutReplayShort
  BY <1>2 DEF CutReplayShort
<1>3. CASE Offer
  BY <1>3
     DEF Offer, SendOwn, Ended
<1>4. CASE Read
  BY <1>4
     DEF Read, Answer, SendOwn, Ended
<1>5. CASE LeaveCancelled
  BY <1>5
     DEF LeaveCancelled, Ended, Named, Leave
<1>6. CASE LeaveEnded
  BY <1>6
     DEF LeaveEnded, Ended, Leave
<1>7. CASE Unregister
  BY <1>7 DEF Unregister
<1>8. CASE CloseOwn
  BY <1>8 DEF CloseOwn
<1>9. CASE Report
  BY <1>9 DEF Report
<1>10. CASE LeaveIdle
  BY <1>10
     DEF LeaveIdle, Ended, Leave
<1>11. CASE Take
  BY <1>11 DEF Take
<1>12. CASE StopWaiting
  BY <1>12 DEF StopWaiting
<1>13. CASE Feed
  BY <1>13 DEF Feed
<1>14. CASE SwitchToProto
  BY <1>14 DEF SwitchToProto
<1>15. CASE Flush
  BY <1>15 DEF Flush
<1>16. CASE MeetClose
  BY <1>16 DEF MeetClose
<1>17. CASE WriteFails
  BY <1>17 DEF WriteFails, Ended
<1>18. CASE FailedStop
  BY <1>18 DEF FailedStop, WriterGone
<1>19. CASE Finish
  BY <1>19 DEF Finish, WriterGone
<1>20. CASE Abort
  BY <1>20
     DEF Abort, Parked, NothingMore, Named, WriterGone
<1>21. CASE Route
  BY <1>21 DEF Route, Ended
<1>22. CASE CloseFromOutside
  BY <1>22 DEF CloseFromOutside, Ended
<1>23. ASSUME NEW c \in Callers, Close(c) PROVE EndIsWhatItSays'
  BY <1>23 DEF Close
<1>24. CASE StopServer
  BY <1>24 DEF StopServer
<1>25. CASE ClientSays
  BY <1>25 DEF ClientSays
<1>26. CASE ClientReads
  BY <1>26 DEF ClientReads
<1>27. CASE ClientGivesUp
  BY <1>27 DEF ClientGivesUp
<1>28. ASSUME NEW kind \in Requests \cup {"none"}, ClientIsOffered(kind)
      PROVE  EndIsWhatItSays'
  BY <1>28 DEF ClientIsOffered
<1>29. ASSUME NEW how \in {"stalled", "closed"}, LosePeer(how) PROVE EndIsWhatItSays'
  BY <1>29 DEF LosePeer
<1>30. CASE UNCHANGED vars
  BY <1>30 DEF vars
<1> QED
  BY <1>1, <1>2, <1>3, <1>4, <1>5, <1>6, <1>7, <1>8, <1>9, <1>10, <1>11, <1>12, <1>13,
     <1>14, <1>15, <1>16, <1>17, <1>18, <1>19, <1>20, <1>21, <1>22, <1>23, <1>24,
     <1>25, <1>26, <1>27, <1>28, <1>29, <1>30
     DEF Next, TaskStep, WriterStep, ClientStep


-----------------------------------------------------------------------------
(* What is owed.                                                             *)

Lateness ==
    /\ LateLast(queue)
    /\ SomeLate(queue) => Ending
    /\ \A i \in DOMAIN queue : queue[i].kind = "close" => queue[i].late

\* What is handed over goes behind what is owed, and a close once a cause stands.
LEMMA HandedLate ==
    ASSUME TypeOK, Lateness, NEW kind \in Kinds, Handed(kind),
           kind = "close" => Ending
    PROVE  /\ LateLast(queue')
           /\ SomeLate(queue') => SomeLate(queue) \/ Ending
           /\ AllLate(queue) /\ Ending => AllLate(queue')
           /\ \A i \in DOMAIN queue' : queue'[i].kind = "close" => queue'[i].late
<1>1. CASE queue' = queue
  BY <1>1 DEF Lateness
<1>2. CASE queue' = Queued(kind)
  BY <1>2, MessageQueued DEF Lateness
<1> QED
  BY <1>1, <1>2 DEF Handed

(* Nothing overtakes what is owed, and the writer finishes only when nothing is. *)
LEMMA OwedStep ==
    ASSUME TypeOK, Named, Owed, [Next]_vars
    PROVE  Owed'
<1> USE ConnectionConstants DEF Owed, Ending, taskVars, handleVars, writerVars,
        otherVars, clientVars
<1>1. CASE Replay
  BY <1>1, HandedLate
     DEF Replay, Handed, Room, Kinds, Lateness, Named
<1>2. CASE CutReplayShort
  BY <1>2 DEF CutReplayShort
<1>3. CASE Offer
  <2>1. CASE negotiation = "Xml" /\ negotiation' = "Offered" /\ SendOwn("offer")
    BY <1>3, <2>1, SendHands, HandedLate DEF Offer, SendOwn, Ended, Kinds, Lateness,
           Named
  <2>2. CASE negotiation = "Disabled" /\ UNCHANGED <<negotiation, handleVars>>
    BY <1>3, <2>2 DEF Offer
  <2> QED BY <1>3, <2>1, <2>2 DEF Offer
<1>4. CASE Read
  <2>1. CASE UNCHANGED <<negotiation, reader, handleVars>>
    BY <1>4, <2>1 DEF Read
  <2>2. ASSUME NEW kind \in {"refuse", "accept"}, SendOwn(kind) PROVE Owed'
    BY <1>4, <2>2, SendHands, HandedLate DEF Read, SendOwn, Ended, Kinds, Lateness,
           Named
  <2> QED BY <1>4, <2>1, <2>2 DEF Read, Answer
<1>5. CASE LeaveCancelled
  BY <1>5
     DEF LeaveCancelled, Ended, Leave
<1>6. CASE LeaveEnded
  BY <1>6
     DEF LeaveEnded, Ended, Leave
<1>7. CASE Unregister
  BY <1>7 DEF Unregister
<1>8. CASE CloseOwn
  BY <1>8, CloseHands, HandedLate
     DEF CloseOwn, Kinds, Lateness, Named
<1>9. CASE Report
  BY <1>9 DEF Report
<1>10. CASE LeaveIdle
  BY <1>10
     DEF LeaveIdle, Ended, Leave
<1>11. CASE Take
  BY <1>11, LateNothing
     DEF Take, TypeOK
<1>12. CASE StopWaiting
  BY <1>12, LateNothing
     DEF StopWaiting, NothingMore
<1>13. CASE Feed
  <2>1. batch # <<>> /\ batch' = Tail(batch) /\ batch \in Seq(Message)
    BY <1>13 DEF Feed, NextKind, TypeOK
  <2>2. LateLast(batch') /\ (SomeLate(batch') => SomeLate(batch))
    BY <2>1, LateShrunk
  <2>3. \A i \in DOMAIN batch' : batch'[i].kind = "close" => batch'[i].late
    BY <2>1, Shrunk
  <2> QED BY <1>13, <2>2, <2>3 DEF Feed
<1>14. CASE SwitchToProto
  <2>1. batch # <<>> /\ batch' = Tail(batch) /\ batch \in Seq(Message)
    BY <1>14 DEF SwitchToProto, NextKind, TypeOK
  <2>2. LateLast(batch') /\ (SomeLate(batch') => SomeLate(batch))
    BY <2>1, LateShrunk
  <2>3. \A i \in DOMAIN batch' : batch'[i].kind = "close" => batch'[i].late
    BY <2>1, Shrunk
  <2> QED BY <1>14, <2>2, <2>3 DEF SwitchToProto
<1>15. CASE Flush
  BY <1>15 DEF Flush
<1>16. CASE MeetClose
  <2>1. batch # <<>> /\ batch \in Seq(Message) /\ Head(batch).kind = "close"
    BY <1>16 DEF MeetClose, NextKind, TypeOK
  <2>2. 1 \in DOMAIN batch /\ Head(batch) = batch[1]
    BY <2>1, Shrunk
  <2>3. AllLate(batch) /\ SomeLate(batch)
    BY <2>1, <2>2, LateShrunk DEF SomeLate
  <2> QED BY <1>16, <2>3 DEF MeetClose
<1>17. CASE WriteFails
  BY <1>17 DEF WriteFails, Ended
<1>18. CASE FailedStop
  BY <1>18, LateNothing
     DEF FailedStop, WriterGone
<1>19. CASE Finish
  BY <1>19, LateNothing
     DEF Finish, WriterGone
<1>20. CASE Abort
  BY <1>20, LateNothing
     DEF Abort, WriterGone
<1>21. CASE Route
  BY <1>21, SendHands, HandedLate
     DEF Route, Kinds, Ended, Lateness, Named
<1>22. CASE CloseFromOutside
  BY <1>22 DEF CloseFromOutside, Ended
<1>23. ASSUME NEW c \in Callers, Close(c) PROVE Owed'
  BY <1>23, CloseHands, HandedLate
     DEF Close, Kinds, Lateness, Named
<1>24. CASE StopServer
  BY <1>24 DEF StopServer
<1>25. CASE ClientSays
  BY <1>25 DEF ClientSays
<1>26. CASE ClientReads
  BY <1>26 DEF ClientReads
<1>27. CASE ClientGivesUp
  BY <1>27 DEF ClientGivesUp
<1>28. ASSUME NEW kind \in Requests \cup {"none"}, ClientIsOffered(kind) PROVE Owed'
  BY <1>28 DEF ClientIsOffered
<1>29. ASSUME NEW how \in {"stalled", "closed"}, LosePeer(how) PROVE Owed'
  BY <1>29 DEF LosePeer
<1>30. CASE UNCHANGED vars
  BY <1>30 DEF vars
<1> QED
  BY <1>1, <1>2, <1>3, <1>4, <1>5, <1>6, <1>7, <1>8, <1>9, <1>10, <1>11, <1>12, <1>13,
     <1>14, <1>15, <1>16, <1>17, <1>18, <1>19, <1>20, <1>21, <1>22, <1>23, <1>24,
     <1>25, <1>26, <1>27, <1>28, <1>29, <1>30
     DEF Next, TaskStep, WriterStep, ClientStep

\* What OwedIsWritten says of a step.
Written ==
    writer # "gone" /\ writer' = "gone" /\ peer = "up" =>
        /\ \A i \in DOMAIN (batch \o queue) : (batch \o queue)[i].late
        /\ wire' = Outgoing

(* Every step writes what is owed, or leaves it to be written.               *)
LEMMA WrittenStep ==
    ASSUME TypeOK, Named, Owed, [Next]_vars
    PROVE  [Written]_vars
<1>1. CASE Finish
  <2>1. ASSUME AllLate(batch), AllLate(queue)
        PROVE  \A i \in DOMAIN (batch \o queue) : (batch \o queue)[i].late
    <3>1. batch \in Seq(Message) /\ queue \in Seq(Message)
      BY DEF TypeOK
    <3>2. \A i \in DOMAIN (batch \o queue) :
              \/ i \in DOMAIN batch /\ (batch \o queue)[i] = batch[i]
              \/ i - Len(batch) \in DOMAIN queue /\ (batch \o queue)[i] = queue[i - Len(batch)]
      BY <3>1, Joined
    <3> QED BY <2>1, <3>2 DEF AllLate
  <2> QED BY <1>1, <2>1 DEF Finish, Owed, Written, Outgoing
<1>2. CASE FailedStop
  BY <1>2 DEF FailedStop, Named, Written
<1>3. CASE Abort
  BY <1>3 DEF Abort, Parked, NothingMore, Named, Written
<1>4. CASE UNCHANGED writer \/ writer' # "gone"
  BY <1>4 DEF Written
<1>5. Finish \/ FailedStop \/ Abort \/ UNCHANGED writer \/ writer' # "gone"
  BY DEF Next, TaskStep, WriterStep, ClientStep, vars, taskVars, handleVars, writerVars,
         otherVars, clientVars, Replay, CutReplayShort, Offer, Read, LeaveCancelled,
         LeaveEnded, LeaveIdle, Leave, Unregister, CloseOwn, Report, Take, StopWaiting, Feed,
         SwitchToProto, Flush, MeetClose, WriteFails, Route, CloseFromOutside, Close,
         StopServer, ClientSays, ClientReads, ClientGivesUp, ClientIsOffered, LosePeer
<1> QED
  BY <1>1, <1>2, <1>3, <1>4, <1>5


-----------------------------------------------------------------------------
(* The negotiation.                                                          *)

(* A request is answered once, and what is read and written after agrees with it. *)
LEMMA AskedStep ==
    ASSUME TypeOK, Asked, [Next]_vars
    PROVE  Asked'
<1> USE ConnectionConstants DEF Asked, InPipe, taskVars, handleVars, writerVars,
        otherVars, clientVars
<1>1. CASE Replay
  BY <1>1, HandedCarries
     DEF Replay, Handed, Room, Kinds
<1>2. CASE CutReplayShort
  BY <1>2 DEF CutReplayShort
<1>3. CASE Offer
  <2>1. CASE negotiation = "Xml" /\ negotiation' = "Offered" /\ SendOwn("offer")
    BY <1>3, <2>1, SendHands, HandedCarries DEF Offer, SendOwn, Kinds, TypeOK, Encodings
  <2>2. CASE negotiation = "Disabled" /\ UNCHANGED <<negotiation, handleVars>>
    BY <1>3, <2>2 DEF Offer
  <2> QED BY <1>3, <2>1, <2>2 DEF Offer
<1>4. CASE Read
  <2> DEFINE frame == Head(inbound)
  <2>1. /\ inbound # <<>> /\ inbound \in Seq(Frame) /\ inbound' = Tail(inbound)
        /\ Carries(inbound, Requests) <=> frame.kind \in Requests \/ Carries(inbound', Requests)
    BY <1>4, CarriesShrunk DEF Read, TypeOK
  <2>2. /\ \A i \in DOMAIN inbound' : i + 1 \in DOMAIN inbound /\ inbound'[i] = inbound[i + 1]
        /\ \A i, j \in DOMAIN inbound' : i + 1 = j + 1 => i = j
        /\ \A i \in DOMAIN inbound' : i + 1 # 1
        /\ 1 \in DOMAIN inbound /\ frame = inbound[1]
    BY <2>1, Shrunk
  <2>3. /\ \A i, j \in DOMAIN inbound' :
               inbound'[i].kind \in Requests /\ inbound'[j].kind \in Requests => i = j
        /\ \A i \in DOMAIN inbound' : inbound'[i].in = "Proto" => client = "proto"
    BY <2>2
  <2>4. frame.kind \in Requests => ~Carries(inbound', Requests)
    BY <2>2 DEF Carries
  <2>5. CASE UNCHANGED <<negotiation, reader, handleVars>>
    BY <1>4, <2>1, <2>3, <2>5 DEF Read
  <2>6. CASE frame.kind \in Requests /\ negotiation = "Offered" /\ negotiation' = "Xml"
             /\ SendOwn("refuse") /\ UNCHANGED reader
    BY <1>4, <2>1, <2>3, <2>4, <2>6, SendHands, HandedCarries
       DEF Read, SendOwn, Kinds, TypeOK, Encodings
  <2>7. CASE frame.kind \in Requests /\ negotiation = "Offered" /\ negotiation' = "Proto"
             /\ SendOwn("accept") /\ reader' = "Proto"
    BY <1>4, <2>1, <2>3, <2>4, <2>7, SendHands, HandedCarries
       DEF Read, SendOwn, Kinds, TypeOK, Encodings
  <2> QED BY <1>4, <2>5, <2>6, <2>7 DEF Read, Answer, Requests
<1>5. CASE LeaveCancelled
  BY <1>5 DEF LeaveCancelled, Leave
<1>6. CASE LeaveEnded
  BY <1>6 DEF LeaveEnded, Leave
<1>7. CASE Unregister
  BY <1>7 DEF Unregister
<1>8. CASE CloseOwn
  BY <1>8, CloseHands, HandedCarries
     DEF CloseOwn, Kinds
<1>9. CASE Report
  BY <1>9 DEF Report
<1>10. CASE LeaveIdle
  BY <1>10 DEF LeaveIdle, Leave
<1>11. CASE Take
  BY <1>11, CarriesNothing
     DEF Take
<1>12. CASE StopWaiting
  BY <1>12 DEF StopWaiting
<1>13. CASE Feed
  <2>1. /\ batch # <<>> /\ batch \in Seq(Message) /\ buffer \in Seq(Frame)
        /\ [kind |-> NextKind, in |-> encoder] \in Frame /\ NextKind = Head(batch).kind
    BY <1>13 DEF Feed, NextKind, TypeOK, Frame, Kinds
  <2>2. \A K : Carries(buffer', K) \/ Carries(batch', K) => Carries(buffer, K) \/ Carries(batch, K)
    BY <1>13, <2>1, CarriesShrunk, CarriesGrown DEF Feed, Framed
  <2> QED BY <1>13, <2>2 DEF Feed
<1>14. CASE SwitchToProto
  <2>1. /\ batch # <<>> /\ batch \in Seq(Message) /\ buffer \in Seq(Frame) /\ wire \in Seq(Frame)
        /\ [kind |-> NextKind, in |-> encoder] \in Frame /\ NextKind = Head(batch).kind
        /\ Framed \in Seq(Frame)
    BY <1>14, Grown DEF SwitchToProto, NextKind, TypeOK, Frame, Kinds, Framed
  <2>2. \A K : Carries(Framed, K) => Carries(buffer, K) \/ NextKind \in K
    BY <2>1, CarriesGrown DEF Framed
  <2>3. \A K : Carries(wire', K) => Carries(wire, K) \/ Carries(Framed, K)
    BY <1>14, <2>1, CarriesJoined DEF SwitchToProto
  <2>4. \A K : Carries(batch, K) <=> NextKind \in K \/ Carries(batch', K)
    BY <1>14, <2>1, CarriesShrunk DEF SwitchToProto
  <2> QED BY <1>14, <2>2, <2>3, <2>4, CarriesNothing DEF SwitchToProto
<1>15. CASE Flush
  BY <1>15, CarriesJoined, CarriesNothing
     DEF Flush, TypeOK
<1>16. CASE MeetClose
  BY <1>16 DEF MeetClose
<1>17. CASE WriteFails
  BY <1>17 DEF WriteFails
<1>18. CASE FailedStop
  BY <1>18, CarriesNothing
     DEF FailedStop, WriterGone
<1>19. CASE Finish
  BY <1>19, CarriesJoined, CarriesNothing
     DEF Finish, TypeOK, WriterGone
<1>20. CASE Abort
  BY <1>20, CarriesNothing
     DEF Abort, WriterGone
<1>21. CASE Route
  BY <1>21, SendHands, HandedCarries
     DEF Route, Kinds
<1>22. CASE CloseFromOutside
  BY <1>22 DEF CloseFromOutside
<1>23. ASSUME NEW c \in Callers, Close(c) PROVE Asked'
  BY <1>23, CloseHands, HandedCarries
     DEF Close, Kinds
<1>24. CASE StopServer
  BY <1>24 DEF StopServer
<1>25. CASE ClientSays
  <2> DEFINE f == [kind |-> "event", in |-> Speaks]
  <2>1. f \in Frame /\ f.kind \notin Requests /\ inbound \in Seq(Frame)
        /\ (f.in = "Proto" => client = "proto")
    BY DEF Speaks, Frame, Kinds, Encodings, Requests, TypeOK
  <2>2. inbound' = Append(inbound, f)
    BY <1>25 DEF ClientSays
  <2> HIDE DEF f
  <2>3. \A i \in DOMAIN inbound' :
            \/ i \in DOMAIN inbound /\ inbound'[i] = inbound[i]
            \/ inbound'[i] = f
    BY <2>1, <2>2, Grown
  <2>4. Carries(inbound', Requests) => Carries(inbound, Requests)
    BY <2>1, <2>2, CarriesGrown
  <2> QED BY <1>25, <2>1, <2>3, <2>4 DEF ClientSays
<1>26. CASE ClientReads
  <2>1. /\ wire # <<>> /\ wire \in Seq(Frame)
        /\ \A K : Carries(wire, K) <=> Head(wire).kind \in K \/ Carries(wire', K)
    BY <1>26, CarriesShrunk DEF ClientReads, TypeOK
  <2>2. CASE client = "asked" /\ Head(wire).kind = "accept"
    BY <1>26, <2>1, <2>2 DEF ClientReads, TypeOK
  <2>3. CASE client = "asked" /\ Head(wire).kind = "refuse"
    BY <1>26, <2>1, <2>3 DEF ClientReads, TypeOK
  <2>4. CASE UNCHANGED client
    BY <1>26, <2>1, <2>4 DEF ClientReads
  <2> QED BY <1>26, <2>2, <2>3, <2>4 DEF ClientReads
<1>27. CASE ClientGivesUp
  BY <1>27 DEF ClientGivesUp
<1>28. ASSUME NEW kind \in Requests \cup {"none"}, ClientIsOffered(kind) PROVE Asked'
  <2> DEFINE f == [kind |-> kind, in |-> "Xml"]
  <2>1. \A K : Carries(wire', K) => Carries(wire, K)
    BY <1>28, CarriesShrunk DEF ClientIsOffered, TypeOK
  <2>2. CASE client' = "xml" /\ UNCHANGED inbound
    BY <1>28, <2>1, <2>2 DEF ClientIsOffered
  <2>3. CASE kind # "none" /\ client' = "asked" /\ inbound' = Append(inbound, f)
    <3>1. f \in Frame /\ f.in = "Xml" /\ inbound \in Seq(Frame)
      BY <2>3 DEF Frame, Encodings, TypeOK
    <3>2. ~Carries(inbound, Requests)
      BY <1>28 DEF ClientIsOffered
    <3> HIDE DEF f
    <3>3. \A i \in DOMAIN inbound' :
              \/ i \in DOMAIN inbound /\ inbound'[i] = inbound[i]
              \/ i = Len(inbound) + 1 /\ inbound'[i] = f
      BY <2>3, <3>1, Grown
    <3>4. \A i, j \in DOMAIN inbound' :
              inbound'[i].kind \in Requests /\ inbound'[j].kind \in Requests => i = j
      BY <3>2, <3>3 DEF Carries
    <3>5. \A i \in DOMAIN inbound' : inbound'[i].in = "Proto" => client = "proto"
      BY <3>1, <3>3
    <3> QED BY <1>28, <2>1, <2>3, <3>4, <3>5 DEF ClientIsOffered
  <2> QED BY <1>28, <2>2, <2>3 DEF ClientIsOffered
<1>29. ASSUME NEW how \in {"stalled", "closed"}, LosePeer(how) PROVE Asked'
  BY <1>29, CarriesNothing
     DEF LosePeer
<1>30. CASE UNCHANGED vars
  BY <1>30 DEF vars
<1> QED
  BY <1>1, <1>2, <1>3, <1>4, <1>5, <1>6, <1>7, <1>8, <1>9, <1>10, <1>11, <1>12, <1>13,
     <1>14, <1>15, <1>16, <1>17, <1>18, <1>19, <1>20, <1>21, <1>22, <1>23, <1>24,
     <1>25, <1>26, <1>27, <1>28, <1>29, <1>30
     DEF Next, TaskStep, WriterStep, ClientStep


-----------------------------------------------------------------------------
(* The encodings.                                                            *)

\* A frame is fed behind all that is on its way.
LEMMA FedBehind ==
    ASSUME TypeOK, Encoded, NextKind \in Kinds
    PROVE  /\ wire \o Framed = Append(Outgoing, [kind |-> NextKind, in |-> encoder])
           /\ wire \o Framed \in Seq(Frame)
           /\ ProtoLast(wire \o Framed)
           /\ InProto(wire \o Framed) => encoder = "Proto"
           /\ \A K : Carries(wire \o Framed, K) <=> Carries(Outgoing, K) \/ NextKind \in K
           /\ peer = "up" /\ client # "gaveUp" => AsExpected(wire \o Framed, client = "proto")
<1> DEFINE f == [kind |-> NextKind, in |-> encoder]
<1>1. f \in Frame /\ f.in = encoder /\ f.kind = NextKind
  BY DEF Frame, TypeOK
<1>2. wire \in Seq(Frame) /\ buffer \in Seq(Frame) /\ Outgoing \in Seq(Frame)
  BY Joined DEF TypeOK, Outgoing
<1>3. Framed = Append(buffer, f)
  BY DEF Framed
<1> HIDE DEF f
<1>4. wire \o Framed = Append(Outgoing, f)
  BY <1>1, <1>2, <1>3, JoinedGrown DEF Outgoing
<1>5. Append(Outgoing, f) \in Seq(Frame)
  BY <1>1, <1>2
<1>6. \A K : Carries(Append(Outgoing, f), K) <=> Carries(Outgoing, K) \/ NextKind \in K
  BY <1>1, <1>2, CarriesGrown
<1>7. /\ InProto(Append(Outgoing, f)) <=> InProto(Outgoing) \/ encoder = "Proto"
      /\ ProtoLast(Append(Outgoing, f))
  BY <1>1, <1>2, EncodedGrown DEF Encoded
<1>8. ASSUME peer = "up", client # "gaveUp"
      PROVE  AsExpected(Append(Outgoing, f), client = "proto")
  <2>1. /\ AsExpected(Outgoing, client = "proto") /\ (client = "proto") \in BOOLEAN
        /\ f.in = IF client = "proto" \/ Carries(Outgoing, {"accept"}) THEN "Proto" ELSE "Xml"
    BY <1>1, <1>8 DEF Encoded
  <2> QED BY <1>1, <1>2, <2>1, EncodedGrown
<1> QED
  BY <1>4, <1>5, <1>6, <1>7, <1>8 DEF Encoded, f

\* The client reads from the front.
LEMMA ReadInFront ==
    ASSUME TypeOK, Encoded, wire # <<>>
    PROVE  LET rest == Tail(wire) \o buffer IN
           /\ ProtoLast(rest)
           /\ InProto(rest) => encoder = "Proto"
           /\ \A K : Carries(Outgoing, K) <=> Head(wire).kind \in K \/ Carries(rest, K)
           /\ peer = "up" /\ client # "gaveUp" =>
                 AsExpected(rest, client = "proto" \/ Head(wire).kind = "accept")
<1>1. wire \in Seq(Frame) /\ buffer \in Seq(Frame) /\ Outgoing \in Seq(Frame)
  BY Joined DEF TypeOK, Outgoing
<1>2. Outgoing # <<>> /\ Head(Outgoing) = Head(wire) /\ Tail(Outgoing) = Tail(wire) \o buffer
  BY <1>1, JoinedShrunk DEF Outgoing
<1>3. /\ InProto(Tail(Outgoing)) => InProto(Outgoing)
      /\ ProtoLast(Outgoing) => ProtoLast(Tail(Outgoing))
      /\ AsExpected(Outgoing, client = "proto") =>
             AsExpected(Tail(Outgoing), client = "proto" \/ Head(Outgoing).kind = "accept")
  BY <1>1, <1>2, EncodedShrunk
<1>4. \A K : Carries(Outgoing, K) <=> Head(Outgoing).kind \in K \/ Carries(Tail(Outgoing), K)
  BY <1>1, <1>2, CarriesShrunk
<1> QED
  BY <1>2, <1>3, <1>4 DEF Encoded

(* What is on its way stays in order, whoever feeds, flushes, reads or drops it. *)
LEMMA EncodedStep ==
    ASSUME TypeOK, Named, Asked, Encoded, [Next]_vars
    PROVE  Encoded'
<1> USE ConnectionConstants DEF taskVars, handleVars, writerVars, otherVars, clientVars
<1>1. CASE Replay
  BY <1>1
     DEF Replay, Encoded, Outgoing
<1>2. CASE CutReplayShort
  BY <1>2
     DEF CutReplayShort, Encoded, Outgoing
<1>3. CASE Offer
  BY <1>3
     DEF Offer, Encoded, Outgoing
<1>4. CASE Read
  BY <1>4
     DEF Read, Encoded, Outgoing
<1>5. CASE LeaveCancelled
  BY <1>5
     DEF LeaveCancelled, Encoded, Outgoing, Leave
<1>6. CASE LeaveEnded
  BY <1>6
     DEF LeaveEnded, Encoded, Outgoing, Leave
<1>7. CASE Unregister
  BY <1>7
     DEF Unregister, Encoded, Outgoing
<1>8. CASE CloseOwn
  BY <1>8
     DEF CloseOwn, Encoded, Outgoing
<1>9. CASE Report
  BY <1>9
     DEF Report, Encoded, Outgoing
<1>10. CASE LeaveIdle
  BY <1>10
     DEF LeaveIdle, Encoded, Outgoing, Leave
<1>11. CASE Take
  BY <1>11
     DEF Take, Encoded, Outgoing
<1>12. CASE StopWaiting
  BY <1>12
     DEF StopWaiting, Encoded, Outgoing
<1>13. CASE Feed
  <2>1. Outgoing' = wire \o Framed /\ NextKind \in Kinds \ {"accept"}
    BY <1>13 DEF Feed, Outgoing, Kinds
  <2> QED BY <1>13, <2>1, FedBehind DEF Feed, Encoded
<1>14. CASE SwitchToProto
  <2>1. Outgoing' = (wire \o Framed) \o <<>> /\ NextKind = "accept" /\ NextKind \in Kinds
    BY <1>14 DEF SwitchToProto, Outgoing, Kinds
  <2>2. Outgoing' = wire \o Framed
    BY <2>1, FedBehind, ConcatEmptySeq
  <2> QED BY <1>14, <2>1, <2>2, FedBehind DEF SwitchToProto, Encoded
<1>15. CASE Flush
  <2>1. Outgoing' = (wire \o buffer) \o <<>> /\ wire \o buffer \in Seq(Frame)
    BY <1>15, Joined DEF Flush, Outgoing, TypeOK
  <2>2. Outgoing' = Outgoing
    BY <2>1, ConcatEmptySeq DEF Outgoing
  <2> QED BY <1>15, <2>2 DEF Flush, Encoded
<1>16. CASE MeetClose
  BY <1>16
     DEF MeetClose, Encoded, Outgoing
<1>17. CASE WriteFails
  BY <1>17
     DEF WriteFails, Encoded, Outgoing
<1>18. CASE FailedStop
  <2>1. wire \in Seq(Frame) /\ buffer \in Seq(Frame)
    BY DEF TypeOK
  <2>2. peer # "up"
    BY <1>18 DEF FailedStop, Named
  <2>3. Outgoing' = wire \o <<>>
    BY <1>18 DEF FailedStop, WriterGone, Outgoing
  <2>4. Outgoing' = wire
    BY <2>1, <2>3, ConcatEmptySeq
  <2> QED
    BY <1>18, <2>1, <2>2, <2>4, EncodedParts DEF FailedStop, WriterGone, Encoded, Outgoing
<1>19. CASE Finish
  <2>1. wire \in Seq(Frame) /\ buffer \in Seq(Frame) /\ wire \o buffer \in Seq(Frame)
    BY Joined DEF TypeOK
  <2>2. CASE peer = "up"
    <3>1. Outgoing' = (wire \o buffer) \o <<>>
      BY <1>19, <2>2 DEF Finish, WriterGone, Outgoing
    <3>2. Outgoing' = Outgoing
      BY <2>1, <3>1, ConcatEmptySeq DEF Outgoing
    <3> QED BY <1>19, <3>2 DEF Finish, WriterGone, Encoded
  <2>3. CASE peer # "up"
    <3>1. Outgoing' = wire \o <<>>
      BY <1>19, <2>3 DEF Finish, WriterGone, Outgoing
    <3>2. Outgoing' = wire
      BY <2>1, <3>1, ConcatEmptySeq
    <3> QED
      BY <1>19, <2>1, <2>3, <3>2, EncodedParts
         DEF Finish, WriterGone, Encoded, Outgoing
  <2> QED BY <2>2, <2>3
<1>20. CASE Abort
  <2>1. wire \in Seq(Frame) /\ buffer \in Seq(Frame)
    BY DEF TypeOK
  <2>2. peer # "up"
    BY <1>20 DEF Abort, Parked, NothingMore, Named
  <2>3. Outgoing' = wire \o <<>>
    BY <1>20 DEF Abort, WriterGone, Outgoing
  <2>4. Outgoing' = wire
    BY <2>1, <2>3, ConcatEmptySeq
  <2> QED
    BY <1>20, <2>1, <2>2, <2>4, EncodedParts DEF Abort, WriterGone, Encoded, Outgoing
<1>21. CASE Route
  BY <1>21
     DEF Route, Encoded, Outgoing
<1>22. CASE CloseFromOutside
  BY <1>22
     DEF CloseFromOutside, Encoded, Outgoing
<1>23. ASSUME NEW c \in Callers, Close(c) PROVE Encoded'
  BY <1>23
     DEF Close, Encoded, Outgoing
<1>24. CASE StopServer
  BY <1>24
     DEF StopServer, Encoded, Outgoing
<1>25. CASE ClientSays
  BY <1>25
     DEF ClientSays, Encoded, Outgoing
<1>26. CASE ClientReads
  <2>1. Outgoing' = Tail(wire) \o buffer /\ wire # <<>>
    BY <1>26 DEF ClientReads, Outgoing
  <2>2. CASE client = "asked" /\ Head(wire).kind = "accept"
    <3>1. client' = "proto" /\ UNCHANGED <<encoder, peer>>
      BY <1>26, <2>2 DEF ClientReads
    <3>2. Carries(Outgoing, {"accept"})
      BY <2>1, <2>2, ReadInFront
    <3> QED BY <2>1, <2>2, <3>1, <3>2, ReadInFront DEF Encoded
  <2>3. CASE client = "asked" /\ Head(wire).kind # "accept"
    <3>1. client' \in {"asked", "xml"} /\ UNCHANGED <<encoder, peer>>
      BY <1>26, <2>3 DEF ClientReads
    <3> QED BY <2>1, <2>3, <3>1, ReadInFront DEF Encoded
  <2>4. CASE client # "asked"
    <3>1. client' = client /\ UNCHANGED <<encoder, peer>>
      BY <1>26, <2>4 DEF ClientReads
    <3>2. client \in {"new", "xml"} => Head(wire).kind # "accept"
      <4>1. wire \in Seq(Frame)
        BY DEF TypeOK
      <4> QED BY <2>1, <4>1, CarriesShrunk DEF Asked, InPipe
    <3>3. client \in {"new", "xml", "proto", "gaveUp"}
      BY <2>4 DEF TypeOK
    <3> QED BY <2>1, <2>4, <3>1, <3>2, <3>3, ReadInFront DEF Encoded
  <2> QED BY <2>2, <2>3, <2>4
<1>27. CASE ClientGivesUp
  BY <1>27 DEF ClientGivesUp, Encoded, Outgoing
<1>28. ASSUME NEW kind \in Requests \cup {"none"}, ClientIsOffered(kind) PROVE Encoded'
  <2>1. Outgoing' = Tail(wire) \o buffer /\ wire # <<>> /\ Head(wire).kind = "offer"
    BY <1>28 DEF ClientIsOffered, Outgoing
  <2>2. client = "new" /\ client' \in {"asked", "xml"} /\ UNCHANGED <<encoder, peer>>
    BY <1>28 DEF ClientIsOffered
  <2> QED BY <2>1, <2>2, ReadInFront DEF Encoded
<1>29. ASSUME NEW how \in {"stalled", "closed"}, LosePeer(how) PROVE Encoded'
  <2>1. wire \in Seq(Frame) /\ buffer \in Seq(Frame)
    BY DEF TypeOK
  <2>2. Outgoing' = <<>> \o buffer
    BY <1>29 DEF LosePeer, Outgoing
  <2>3. Outgoing' = buffer
    BY <2>1, <2>2, ConcatEmptySeq
  <2> QED BY <1>29, <2>1, <2>3, EncodedParts DEF LosePeer, Encoded, Outgoing
<1>30. CASE UNCHANGED vars
  BY <1>30 DEF vars, Encoded, Outgoing
<1> QED
  BY <1>1, <1>2, <1>3, <1>4, <1>5, <1>6, <1>7, <1>8, <1>9, <1>10, <1>11, <1>12, <1>13,
     <1>14, <1>15, <1>16, <1>17, <1>18, <1>19, <1>20, <1>21, <1>22, <1>23, <1>24,
     <1>25, <1>26, <1>27, <1>28, <1>29, <1>30
     DEF Next, TaskStep, WriterStep, ClientStep

-----------------------------------------------------------------------------
(* The invariant holds where the server starts.                              *)
LEMMA Initially == Init => IInv
<1> SUFFICES ASSUME Init PROVE IInv
  OBVIOUS
<1>1. TypeOK
  <2>1. /\ <<>> \in Seq(Message) /\ <<>> \in Seq(Frame) /\ Len(<<>>) = 0
        /\ 0 <= QueueLen /\ 0 \in 0..MaxRouted /\ 0 \in 0..MaxSaid
    BY ConnectionConstants, EmptySeq
  <2>2. [c \in Callers |-> "idle"] \in [Callers -> {"idle", "named"}]
    OBVIOUS
  <2> QED BY <2>1, <2>2 DEF Init, TypeOK, Encodings
<1>2. Named /\ EndIsWhatItSays /\ Owed
  BY CarriesNothing, LateNothing DEF Init, Named, EndIsWhatItSays, Owed, Callers
<1>3. Asked
  BY CarriesNothing DEF Init, Asked, InPipe
<1>4. Outgoing = <<>>
  BY DEF Init, Outgoing
<1>5. Encoded
  BY <1>4, EncodedNothing, CarriesNothing DEF Init, Encoded
<1> QED
  BY <1>1, <1>2, <1>3, <1>5 DEF IInv

(* Every step keeps the invariant: one case per action.                      *)
LEMMA Kept == IInv /\ [Next]_vars => IInv'
BY TypeStep, NamedStep, EndStep, OwedStep, AskedStep, EncodedStep DEF IInv

(* The invariant holds in every reachable state.                             *)
LEMMA Always == Spec => []IInv
BY Initially, Kept, PTL DEF Spec

(* The types of both ends (StreamConnection.TypeOK): in particular the queue never  *)
(* outgrows its length (writer.rs).                                            *)
THEOREM Typed == Spec => []TypeOK
<1>1. IInv => TypeOK
  BY DEF IInv
<1> QED
  BY <1>1, Always, PTL

(* However many close a connection at once and whatever fails, its writer is        *)
(* aborted for a peer that takes nothing only, and shutdown is the cause of its end  *)
(* only when the server stops (writer.rs, subscription.rs, liveness.rs).          *)
THEOREM EndsAreNamed == Spec => []EndIsWhatItSays
<1>1. IInv => EndIsWhatItSays
  BY DEF IInv
<1> QED
  BY <1>1, Always, PTL

(* However long the queue and however late the close, what was owed to a client     *)
(* that reads is on the wire when its writer ends (writer.rs next, run).          *)
THEOREM NothingOwedIsLost == Spec => OwedIsWritten
<1>1. IInv /\ [Next]_vars => [Written]_vars
  BY WrittenStep DEF IInv
<1>2. OwedIsWritten <=> [][Written]_vars
  BY DEF OwedIsWritten, Written
<1> QED
  BY <1>1, <1>2, Always, PTL DEF Spec

(* Whatever is queued, dropped, refused or lost around the switch, both ends agree   *)
(* on the encoding of every frame on its way, except a client that gave up        *)
(* (negotiation.rs, writer.rs write, connection.rs answer).                       *)
THEOREM EndsAgree == Spec => []EncodingsAgree
<1>1. ASSUME IInv PROVE EncodingsAgree
  <2>1. /\ peer = "up" /\ client # "gaveUp" => AsExpected(Outgoing, client = "proto")
        /\ ProtoLast(Outgoing)
    BY <1>1 DEF IInv, Encoded
  <2>2. Carries(inbound, Requests) => reader = "Xml"
    BY <1>1 DEF IInv, TypeOK, Encodings, Asked
  <2>3. \A i \in DOMAIN inbound : inbound[i].in = "Proto" => reader = "Proto"
    BY <1>1 DEF IInv, Asked
  <2> QED BY <2>1, <2>2, <2>3 DEF EncodingsAgree, AsExpected, ProtoLast
<1> QED
  BY <1>1, Always, PTL
-----------------------------------------------------------------------------
(* What the promise of MessagePipe sees of the connection.                    *)

\* What is pending: a message, or a frame as the message it was.
Entry == [kind : Kinds \cup Requests, late : BOOLEAN]

\* What is accepted and not yet fed.
Rest == batch \o queue

(* What was sent is what was framed, and is not late.                        *)
LEMMA SentType ==
    ASSUME NEW s \in Seq(Frame)
    PROVE  /\ Sent(s) \in Seq(Entry) /\ Len(Sent(s)) = Len(s) /\ Len(s) \in Nat
           /\ \A i \in 1..Len(s) : Sent(s)[i] = [kind |-> s[i].kind, late |-> FALSE]
           /\ \A i \in 1..Len(s) : ~Sent(s)[i].late
<1>1. /\ Len(s) \in Nat /\ DOMAIN s = 1..Len(s)
      /\ \A i \in 1..Len(s) : [kind |-> s[i].kind, late |-> FALSE] \in Entry
  <2>1. Len(s) \in Nat /\ DOMAIN s = 1..Len(s) /\ \A i \in 1..Len(s) : s[i] \in Frame
    BY LenProperties, ElementOfSeq
  <2>2. \A f \in Frame : [kind |-> f.kind, late |-> FALSE] \in Entry
    BY DEF Frame, Entry
  <2> QED BY <2>1, <2>2
<1>2. Sent(s) = [i \in 1..Len(s) |-> [kind |-> s[i].kind, late |-> FALSE]]
  BY <1>1 DEF Sent
<1>3. Sent(s) \in Seq(Entry)
  BY <1>1, <1>2
<1>4. DOMAIN Sent(s) = 1..Len(s)
  BY <1>2
<1>5. Len(Sent(s)) = Len(s)
  BY <1>1, <1>3, <1>4, LenProperties
<1> QED
  BY <1>1, <1>2, <1>3, <1>5

(* Nothing sent is nothing pending.                                          *)
LEMMA SentNothing == Sent(<<>>) = <<>>
BY DEF Sent

(* Frames are sent one after the other.                                       *)
LEMMA SentJoined ==
    ASSUME NEW s \in Seq(Frame), NEW t \in Seq(Frame)
    PROVE  Sent(s \o t) = Sent(s) \o Sent(t)
<1> DEFINE u == Sent(s \o t)
           v == Sent(s) \o Sent(t)
<1>1. /\ s \o t \in Seq(Frame) /\ Len(s \o t) = Len(s) + Len(t)
      /\ Len(s) \in Nat /\ Len(t) \in Nat
      /\ Sent(s) \in Seq(Entry) /\ Sent(t) \in Seq(Entry)
      /\ Len(Sent(s)) = Len(s) /\ Len(Sent(t)) = Len(t)
  BY ConcatProperties, SentType
<1>2. /\ u \in Seq(Entry) /\ v \in Seq(Entry) /\ Len(u) = Len(v)
      /\ Len(v) = Len(s) + Len(t)
  <2>1. u \in Seq(Entry) /\ Len(u) = Len(s) + Len(t)
    <3>1. s \o t \in Seq(Frame)
      BY <1>1
    <3>2. Sent(s \o t) \in Seq(Entry) /\ Len(Sent(s \o t)) = Len(s \o t)
      BY <3>1, SentType, Zenon
    <3> QED BY <1>1, <3>2
  <2>2. v \in Seq(Entry) /\ Len(v) = Len(Sent(s)) + Len(Sent(t))
    <3>1. Sent(s) \in Seq(Entry) /\ Sent(t) \in Seq(Entry)
      BY <1>1
    <3> QED BY <3>1, ConcatProperties, Zenon
  <2>3. Len(v) = Len(s) + Len(t)
    BY <1>1, <2>2
  <2> QED BY <2>1, <2>2, <2>3
<1>3. ASSUME NEW i \in 1..Len(v) PROVE u[i] = v[i]
  <2>1. u[i] = [kind |-> (s \o t)[i].kind, late |-> FALSE]
    BY <1>1, <1>2, <1>3, SentType
  <2>2. CASE i \in 1..Len(s)
    BY <1>1, <2>1, <2>2, Joined, SentType
  <2>3. CASE i \notin 1..Len(s)
    <3>1. i - Len(s) \in 1..Len(t) /\ i = Len(s) + (i - Len(s))
      BY <1>1, <1>2, <1>3, <2>3
    <3>2. PICK k \in 1..Len(t) : i = Len(s) + k
      BY <3>1
    <3>3. (s \o t)[i] = t[k] /\ v[i] = Sent(t)[k]
      BY <1>1, <3>2, Joined
    <3> QED BY <2>1, <3>3, SentType
  <2> QED BY <2>2, <2>3
<1> QED
  BY <1>2, <1>3, SeqEqual

(* A frame fed is one more that is sent.                                      *)
LEMMA SentGrown ==
    ASSUME NEW s \in Seq(Frame), NEW f \in Frame
    PROVE  Sent(Append(s, f)) = Append(Sent(s), [kind |-> f.kind, late |-> FALSE])
<1> DEFINE e == [kind |-> f.kind, late |-> FALSE]
           u == Sent(Append(s, f))
           v == Append(Sent(s), e)
<1>1. e \in Entry
  BY DEF Entry, Frame
<1>2. /\ Append(s, f) \in Seq(Frame) /\ Len(Append(s, f)) = Len(s) + 1 /\ Len(s) \in Nat
      /\ Sent(s) \in Seq(Entry) /\ Len(Sent(s)) = Len(s)
  BY Grown, SentType
<1>3. /\ u \in Seq(Entry) /\ v \in Seq(Entry) /\ Len(u) = Len(v) /\ Len(v) = Len(s) + 1
  <2>1. u \in Seq(Entry) /\ Len(u) = Len(s) + 1
    BY <1>2, SentType
  <2>2. v \in Seq(Entry) /\ Len(v) = Len(s) + 1
    BY <1>1, <1>2, Grown
  <2> QED BY <2>1, <2>2
<1>4. ASSUME NEW i \in 1..Len(v) PROVE u[i] = v[i]
  <2>1. u[i] = [kind |-> Append(s, f)[i].kind, late |-> FALSE]
    BY <1>2, <1>3, <1>4, SentType
  <2>2. CASE i \in 1..Len(s)
    <3>1. Append(s, f)[i] = s[i] /\ v[i] = Sent(s)[i]
      BY <1>1, <1>2, <2>2, Grown
    <3> QED BY <2>1, <2>2, <3>1, SentType
  <2>3. CASE i = Len(s) + 1
    <3>1. Append(s, f)[i] = f /\ v[i] = e
      BY <1>1, <1>2, <2>3, Grown
    <3> QED BY <2>1, <3>1
  <2> QED BY <1>2, <1>3, <2>2, <2>3
<1> QED
  BY <1>3, <1>4, SeqEqual

(* What is read is the first that was sent.                                   *)
LEMMA SentShrunk ==
    ASSUME NEW s \in Seq(Frame), s # <<>>
    PROVE  Sent(s) # <<>> /\ Sent(Tail(s)) = Tail(Sent(s))
<1> DEFINE u == Sent(Tail(s))
           v == Tail(Sent(s))
<1>1. /\ Tail(s) \in Seq(Frame) /\ Len(s) \in Nat \ {0} /\ Len(Tail(s)) = Len(s) - 1
      /\ \A i \in 1..(Len(s) - 1) : Tail(s)[i] = s[i + 1]
  BY Shrunk
<1>2. /\ Sent(s) \in Seq(Entry) /\ Len(Sent(s)) = Len(s) /\ Sent(s) # <<>>
  BY <1>1, SentType, EmptySeq
<1>3. /\ u \in Seq(Entry) /\ v \in Seq(Entry) /\ Len(u) = Len(s) - 1 /\ Len(v) = Len(s) - 1
      /\ \A i \in 1..(Len(s) - 1) : v[i] = Sent(s)[i + 1]
  <2>1. u \in Seq(Entry) /\ Len(u) = Len(s) - 1
    BY <1>1, SentType
  <2>2. /\ v \in Seq(Entry) /\ Len(v) = Len(s) - 1
        /\ \A i \in 1..(Len(s) - 1) : v[i] = Sent(s)[i + 1]
    BY <1>2, Shrunk
  <2> QED BY <2>1, <2>2
<1>4. ASSUME NEW i \in 1..Len(v) PROVE u[i] = v[i]
  <2>1. i \in 1..(Len(s) - 1) /\ i + 1 \in 1..Len(s)
    BY <1>1, <1>3
  <2>2. u[i] = [kind |-> Tail(s)[i].kind, late |-> FALSE]
    BY <1>1, <2>1, SentType
  <2>3. Sent(s)[i + 1] = [kind |-> s[i + 1].kind, late |-> FALSE]
    BY <2>1, SentType
  <2> QED BY <1>1, <1>3, <2>1, <2>2, <2>3
<1> QED
  BY <1>2, <1>3, <1>4, SeqEqual

(* The two parts of what is joined.                                           *)
LEMMA JoinedCut ==
    ASSUME NEW S, NEW s \in Seq(S), NEW t \in Seq(S)
    PROVE  /\ SubSeq(s \o t, 1, Len(s)) = s
           /\ SubSeq(s \o t, Len(s) + 1, Len(s \o t)) = t
           /\ Len(s) \in 0..Len(s \o t)
<1>1. /\ s \o t \in Seq(S) /\ Len(s) \in Nat /\ Len(t) \in Nat
      /\ Len(s \o t) = Len(s) + Len(t)
      /\ \A i \in 1..Len(s) : (s \o t)[i] = s[i]
      /\ \A i \in 1..Len(t) : (s \o t)[Len(s) + i] = t[i]
  BY ConcatProperties, Joined
<1>2. SubSeq(s \o t, 1, Len(s)) = s
  <2> DEFINE u == SubSeq(s \o t, 1, Len(s))
  <2>1. /\ u \in Seq(S) /\ Len(u) = Len(s) /\ \A i \in 1..Len(s) : u[i] = (s \o t)[i]
    BY <1>1, SubSeqProperties
  <2> QED BY <1>1, <2>1, SeqEqual
<1>3. SubSeq(s \o t, Len(s) + 1, Len(s \o t)) = t
  <2> DEFINE u == SubSeq(s \o t, Len(s) + 1, Len(s \o t))
  <2>1. /\ u \in Seq(S) /\ Len(u) = Len(t)
        /\ \A i \in 1..Len(t) : u[i] = (s \o t)[Len(s) + i]
    BY <1>1, SubSeqProperties
  <2> QED BY <1>1, <2>1, SeqEqual
<1> QED
  BY <1>1, <1>2, <1>3


(* What moves from the head of one sequence to the end of another stays in its     *)
(* place in the two in a row.                                                 *)
LEMMA MovedOver ==
    ASSUME NEW S, NEW s \in Seq(S), NEW r \in Seq(S), r # <<>>, NEW e \in S
    PROVE  /\ Append(s, e) \o Tail(r) = [s \o r EXCEPT ![Len(s) + 1] = e]
           /\ (s \o r)[Len(s) + 1] = Head(r) /\ Len(s) + 1 \in DOMAIN (s \o r)
           /\ \A i \in 1..Len(s) : (s \o r)[i] = s[i]
           /\ e = Head(r) => Append(s, e) \o Tail(r) = s \o r
           /\ Len(s) \in Nat
<1> DEFINE p == s \o r
           a == Append(s, e)
           t == Tail(r)
           q == a \o t
           x == [p EXCEPT ![Len(s) + 1] = e]
<1>1. /\ t \in Seq(S) /\ Head(r) = r[1] /\ Len(r) \in Nat \ {0} /\ Len(t) = Len(r) - 1
      /\ \A i \in 1..(Len(r) - 1) : t[i] = r[i + 1]
  BY Shrunk
<1>2. /\ a \in Seq(S) /\ Len(a) = Len(s) + 1 /\ Len(s) \in Nat
      /\ \A i \in 1..Len(s) : a[i] = s[i]
      /\ a[Len(s) + 1] = e
  BY Grown
<1>3. /\ p \in Seq(S) /\ Len(p) = Len(s) + Len(r) /\ DOMAIN p = 1..Len(p)
      /\ \A i \in 1..Len(s) : p[i] = s[i]
      /\ \A i \in 1..Len(r) : p[Len(s) + i] = r[i]
  BY Joined, ConcatProperties
<1> HIDE DEF a, t, p
<1>4. /\ q \in Seq(S) /\ Len(q) = Len(a) + Len(t)
      /\ \A i \in 1..Len(a) : q[i] = a[i]
      /\ \A i \in 1..Len(t) : q[Len(a) + i] = t[i]
  <2>1. a \in Seq(S) /\ t \in Seq(S)
    BY <1>1, <1>2
  <2>2. q \in Seq(S) /\ Len(q) = Len(a) + Len(t)
    BY <2>1, ConcatProperties, Zenon
  <2>3. /\ \A i \in 1..Len(a) : (a \o t)[i] = a[i]
        /\ \A i \in 1..Len(t) : (a \o t)[Len(a) + i] = t[i]
    BY <2>1, Joined
  <2> QED BY <2>2, <2>3
<1> HIDE DEF q
<1>5. Len(s) + 1 \in 1..Len(p)
  BY <1>1, <1>2, <1>3
<1>6. /\ x \in Seq(S) /\ Len(x) = Len(p)
      /\ \A i \in 1..Len(p) : x[i] = IF i = Len(s) + 1 THEN e ELSE p[i]
  BY <1>3, <1>5, ExceptSeq
<1> HIDE DEF x
<1>7. p[Len(s) + 1] = Head(r)
  BY <1>1, <1>3
<1>8. Len(q) = Len(p)
  BY <1>1, <1>2, <1>3, <1>4
<1>9. ASSUME NEW i \in 1..Len(p) PROVE q[i] = IF i = Len(s) + 1 THEN e ELSE p[i]
  <2>1. CASE i \in 1..Len(s)
    BY <1>2, <1>3, <1>4, <2>1
  <2>2. CASE i = Len(s) + 1
    BY <1>2, <1>4, <2>2
  <2>3. CASE i \notin 1..(Len(s) + 1)
    <3>1. /\ i - (Len(s) + 1) \in 1..(Len(r) - 1)
          /\ i = (Len(s) + 1) + (i - (Len(s) + 1))
      BY <1>1, <1>2, <1>3, <2>3
    <3>2. PICK k \in 1..(Len(r) - 1) : i = (Len(s) + 1) + k
      BY <3>1
    <3>3. q[i] = t[k]
      BY <1>1, <1>2, <1>4, <3>2
    <3>4. k + 1 \in 1..Len(r) /\ i = Len(s) + (k + 1)
      BY <1>1, <1>2, <3>2
    <3>5. p[i] = r[k + 1]
      BY <1>3, <3>4
    <3> QED BY <1>1, <2>3, <3>2, <3>3, <3>5
  <2> QED BY <1>2, <2>1, <2>2, <2>3
<1>10. q = x
  <2>1. Len(q) = Len(x) /\ \A i \in 1..Len(q) : q[i] = x[i]
    BY <1>6, <1>8, <1>9
  <2> QED BY <1>4, <1>6, <2>1, SeqEqual
<1>11. e = Head(r) => q = p
  <2>1. e = Head(r) => \A i \in 1..Len(p) : q[i] = p[i]
    BY <1>7, <1>9
  <2> QED BY <1>3, <1>4, <1>8, <2>1, SeqEqual
<1> QED
  BY <1>2, <1>3, <1>5, <1>7, <1>10, <1>11 DEF a, t, p, q, x

\* What the invariant says of what is pending.
LEMMA PendingType ==
    ASSUME TypeOK
    PROVE  /\ wire \in Seq(Frame) /\ buffer \in Seq(Frame) /\ Outgoing \in Seq(Frame)
           /\ batch \in Seq(Message) /\ queue \in Seq(Message)
           /\ batch \in Seq(Entry) /\ queue \in Seq(Entry) /\ Rest \in Seq(Entry)
           /\ Sent(Outgoing) \in Seq(Entry) /\ Len(Sent(Outgoing)) = Len(Outgoing)
           /\ Len(Outgoing) \in Nat
           /\ Pending = Sent(Outgoing) \o Rest /\ Pending \in Seq(Entry)
<1>1. /\ wire \in Seq(Frame) /\ buffer \in Seq(Frame)
      /\ batch \in Seq(Message) /\ queue \in Seq(Message)
  BY DEF TypeOK
<1>2. Outgoing \in Seq(Frame)
  BY <1>1, Joined DEF Outgoing
<1>3. Message \subseteq Entry
  BY DEF Message, Entry
<1>4. batch \in Seq(Entry) /\ queue \in Seq(Entry)
  <2>1. \A s \in Seq(Message) : s \in Seq(Entry)
    BY <1>3
  <2> QED BY <1>1, <2>1
<1>5. Rest \in Seq(Entry)
  BY <1>4, Joined DEF Rest
<1>6. Sent(Outgoing) \in Seq(Entry) /\ Len(Sent(Outgoing)) = Len(Outgoing) /\ Len(Outgoing) \in Nat
  BY <1>2, SentType
<1>7. Pending = Sent(Outgoing) \o Rest
  BY DEF Pending, Rest
<1>8. Pending \in Seq(Entry)
  BY <1>5, <1>6, <1>7, Joined
<1> QED
  BY <1>1, <1>2, <1>4, <1>5, <1>6, <1>7, <1>8

(* A step that leaves what is pending where it is decides the end at most.     *)
LEMMA AsDecided ==
    ASSUME TypeOK, TypeOK', Pending' = Pending, Ending => Ending',
           writer = "gone" <=> writer' = "gone", peer = "up" <=> peer' = "up"
    PROVE  [Pipe!Next]_Pipe!vars
<1>1. Ending \in BOOLEAN /\ Ending' \in BOOLEAN
  BY DEF Ending, TypeOK
<1>2. (writer' # "gone") = (writer # "gone") /\ (peer' = "up") = (peer = "up")
  OBVIOUS
<1>3. CASE Ending' = Ending
  BY <1>2, <1>3 DEF Pipe!vars
<1>4. CASE Ending' = TRUE
  BY <1>2, <1>4 DEF Pipe!Next, Pipe!Decide
<1> QED
  BY <1>1, <1>3, <1>4

\* Nothing the connection, its writer or its client has of what is pending moves.
Undelivered == UNCHANGED <<wire, buffer, batch>>

(* What is handed over is accepted, unless it is dropped.                     *)
LEMMA HandedAccepts ==
    ASSUME TypeOK, TypeOK', Undelivered, NEW kind \in Kinds, Handed(kind),
           UNCHANGED <<writer, peer>>, Ending => Ending',
           queue' = queue \/ (Ending <=> Ending')
    PROVE  [Pipe!Next]_Pipe!vars
<1>1. CASE queue' = queue
  <2>1. Pending' = Pending
    BY <1>1 DEF Undelivered, Pending, Outgoing
  <2> QED BY <2>1, AsDecided
<1>2. CASE queue' = Queued(kind) /\ writer # "gone" /\ (Ending <=> Ending')
  <2> DEFINE m == [kind |-> kind, late |-> Ending]
  <2>1. m \in Message /\ m \in Entry
    BY DEF Message, Entry, Ending, TypeOK
  <2>2. queue' = Append(queue, m)
    BY <1>2 DEF Queued
  <2> HIDE DEF m
  <2>3. Rest' = Append(Rest, m)
    <3>1. batch \in Seq(Entry) /\ queue \in Seq(Entry)
      BY PendingType
    <3>2. batch \o Append(queue, m) = Append(batch \o queue, m)
      BY <2>1, <3>1, JoinedGrown
    <3>3. Rest' = batch \o Append(queue, m)
      BY <2>2 DEF Rest, Undelivered
    <3> QED BY <3>2, <3>3 DEF Rest
  <2>4. Sent(Outgoing)' = Sent(Outgoing)
    BY DEF Undelivered, Outgoing
  <2>5. Pending' = Sent(Outgoing) \o Append(Rest, m)
    BY <2>3, <2>4 DEF Pending, Rest
  <2>6. Pending' = Append(Pending, m)
    <3>1. /\ Sent(Outgoing) \in Seq(Entry) /\ Rest \in Seq(Entry)
          /\ Pending = Sent(Outgoing) \o Rest
      BY PendingType
    <3>2. Sent(Outgoing) \o Append(Rest, m) = Append(Sent(Outgoing) \o Rest, m)
      BY <2>1, <3>1, JoinedGrown
    <3> QED BY <2>5, <3>1, <3>2
  <2>7. Ending \in BOOLEAN /\ Ending' = Ending
    BY <1>2 DEF Ending, TypeOK
  <2>8. Pipe!Accept(kind)
    BY <1>2, <2>6, <2>7 DEF Pipe!Accept, m
  <2> QED BY <2>8 DEF Pipe!Next
<1> QED
  BY <1>1, <1>2 DEF Handed

(* A send that may close a slow consumer: what overflows is not queued, and the  *)
(* first cause of an end stands.                                              *)
LEMMA SendDecides ==
    ASSUME TypeOK, NEW kind \in Kinds, Send(kind),
           reason' = IF Overflows THEN Ended("SlowConsumer") ELSE reason,
           cancelled' = (cancelled \/ Overflows) \/ cancelled' = cancelled
    PROVE  /\ Handed(kind) /\ (queue' = queue \/ (Ending <=> Ending'))
           /\ Ending => Ending'
<1>1. Handed(kind)
  BY SendHands
<1>2. CASE Overflows
  <2>1. queue' = queue
    BY <1>2 DEF Send, Room, Overflows, TypeOK
  <2>2. reason' # "none"
    BY <1>2 DEF Ended
  <2> QED BY <1>1, <2>1, <2>2 DEF Ending
<1>3. CASE ~Overflows
  <2>1. reason' = reason /\ cancelled' = cancelled
    BY <1>3 DEF TypeOK
  <2> QED BY <1>1, <2>1 DEF Ending
<1> QED
  BY <1>2, <1>3

(* So is what the connection sends itself; what overflows it is not.            *)
LEMMA SentOwnAccepts ==
    ASSUME TypeOK, TypeOK', Undelivered, UNCHANGED <<writer, peer>>,
           NEW kind \in Kinds, SendOwn(kind)
    PROVE  [Pipe!Next]_Pipe!vars
<1>1. Handed(kind) /\ (queue' = queue \/ (Ending <=> Ending')) /\ (Ending => Ending')
  BY SendDecides DEF SendOwn
<1> QED
  BY <1>1, HandedAccepts

(* Once a message is written, its kind is all that is left of it.              *)
LEMMA Unlate ==
    ASSUME NEW m \in Entry
    PROVE  LET e == [kind |-> m.kind, late |-> FALSE] IN
           /\ e \in Entry /\ e = [m EXCEPT !.late = FALSE]
           /\ ~m.late => e = m
<1>1. m = [kind |-> m.kind, late |-> m.late] /\ m.kind \in Kinds \cup Requests
      /\ m.late \in BOOLEAN
  BY DEF Entry
<1>2. ~m.late => m.late = FALSE
  BY <1>1
<1>3. [kind |-> m.kind, late |-> FALSE] \in Entry
  BY <1>1 DEF Entry
<1>4. [kind |-> m.kind, late |-> FALSE] = [m EXCEPT !.late = FALSE]
  <2> DEFINE x == [m EXCEPT !.late = FALSE]
             y == [kind |-> m.kind, late |-> FALSE]
  <2>1. x \in Entry /\ x.kind = m.kind /\ x.late = FALSE
    BY DEF Entry
  <2>2. y \in Entry /\ y.kind = m.kind /\ y.late = FALSE
    BY <1>1 DEF Entry
  <2>3. \A v, w \in Entry : v.kind = w.kind /\ v.late = w.late => v = w
    BY DEF Entry
  <2> QED BY <2>1, <2>2, <2>3, Zenon
<1> QED
  BY <1>1, <1>2, <1>3, <1>4

(* What is written is the first of the rest, and late no more.                *)
LEMMA FedWrites ==
    ASSUME TypeOK, TypeOK', batch # <<>>,
           NEW f \in Frame, f.kind = Head(batch).kind,
           Outgoing' = Append(Outgoing, f), batch' = Tail(batch), UNCHANGED queue,
           Ending' = Ending, writer # "gone", writer' # "gone", UNCHANGED peer
    PROVE  [Pipe!Next]_Pipe!vars
<1> DEFINE e == [kind |-> f.kind, late |-> FALSE]
           n == Len(Outgoing)
           s == Sent(Outgoing)
<1>1. e \in Entry /\ e.late = FALSE
  BY DEF Entry, Frame
<1>2. Rest # <<>> /\ Head(Rest) = Head(batch) /\ Rest' = Tail(Rest)
  <2>1. Tail(batch) \o queue = Tail(batch \o queue) /\ Head(batch \o queue) = Head(batch)
        /\ batch \o queue # <<>>
    BY PendingType, JoinedShrunk
  <2>2. Rest' = Tail(batch) \o queue
    BY DEF Rest
  <2> QED BY <2>1, <2>2 DEF Rest
<1>3. Rest \in Seq(Entry) /\ Head(Rest) \in Entry
  BY <1>2, PendingType, Shrunk
<1>4. Pending' = Append(s, e) \o Tail(Rest)
  <2>1. Pending' = Sent(Outgoing)' \o Rest'
    BY DEF Pending, Rest
  <2>2. Sent(Outgoing)' = Append(s, e)
    BY PendingType, SentGrown
  <2> QED BY <1>2, <2>1, <2>2
<1>5. s \in Seq(Entry) /\ Len(s) = n /\ Pending = s \o Rest
  BY PendingType
<1>6. \A i \in 1..n : ~s[i].late
  BY PendingType, SentType
<1>7. e = [Head(Rest) EXCEPT !.late = FALSE] /\ (~Head(Rest).late => e = Head(Rest))
  BY <1>2, <1>3, Unlate
<1> HIDE DEF s, n, e
<1>9. /\ Pending' = [Pending EXCEPT ![n + 1] = e]
      /\ Pending[n + 1] = Head(Rest) /\ n + 1 \in DOMAIN Pending
      /\ \A i \in 1..n : Pending[i] = s[i]
      /\ e = Head(Rest) => Pending' = Pending
      /\ n \in Nat
  <2>1. /\ Append(s, e) \o Tail(Rest) = [s \o Rest EXCEPT ![Len(s) + 1] = e]
        /\ (s \o Rest)[Len(s) + 1] = Head(Rest) /\ Len(s) + 1 \in DOMAIN (s \o Rest)
        /\ \A i \in 1..Len(s) : (s \o Rest)[i] = s[i]
        /\ e = Head(Rest) => Append(s, e) \o Tail(Rest) = s \o Rest
        /\ Len(s) \in Nat
    BY <1>1, <1>2, <1>3, <1>5, MovedOver, Zenon
  <2> QED BY <1>4, <1>5, <2>1
<1>10. CASE Head(Rest).late
  <2>1. Pending' = [Pending EXCEPT ![n + 1].late = FALSE]
    BY <1>7, <1>9
  <2>2. \A j \in 1..((n + 1) - 1) : ~Pending[j].late
    <3>1. (n + 1) - 1 = n
      BY <1>9
    <3>2. \A j \in 1..n : ~Pending[j].late
      BY <1>6, <1>9, Zenon
    <3> QED BY <3>1, <3>2, Zenon
  <2>3. Pending[n + 1].late
    BY <1>9, <1>10, Zenon
  <2>4. UNCHANGED <<Ending, writer # "gone", peer = "up">>
    OBVIOUS
  <2>5. Pipe!Write(n + 1)
    BY <2>1, <2>2, <2>3, <2>4, Zenon DEF Pipe!Write
  <2> QED BY <1>9, <2>5 DEF Pipe!Next
<1>11. CASE ~Head(Rest).late
  BY <1>7, <1>9, <1>11, AsDecided
<1> QED
  BY <1>10, <1>11

(* Two queues in a row of which all is late are late.                         *)
LEMMA LateJoined ==
    ASSUME NEW S, NEW s \in Seq(S), NEW t \in Seq(S), AllLate(s), AllLate(t)
    PROVE  AllLate(s \o t)
<1>1. \A i \in DOMAIN (s \o t) :
          \/ i \in DOMAIN s /\ (s \o t)[i] = s[i]
          \/ i - Len(s) \in DOMAIN t /\ (s \o t)[i] = t[i - Len(s)]
  BY Joined
<1> QED
  BY <1>1 DEF AllLate

(* So is what stands behind the first part, if all of the second is.          *)
LEMMA LateBehind ==
    ASSUME NEW S, NEW s \in Seq(S), NEW t \in Seq(S), AllLate(t)
    PROVE  \A i \in (Len(s) + 1)..Len(s \o t) : (s \o t)[i].late
<1>1. /\ Len(s) \in Nat /\ Len(t) \in Nat /\ DOMAIN t = 1..Len(t)
      /\ Len(s \o t) = Len(s) + Len(t)
      /\ \A i \in 1..Len(t) : (s \o t)[Len(s) + i] = t[i]
  BY Joined, ConcatProperties
<1>2. \A i \in (Len(s) + 1)..Len(s \o t) : \E k \in DOMAIN t : i = Len(s) + k
  <2> TAKE i \in (Len(s) + 1)..Len(s \o t)
  <2>1. i - Len(s) \in DOMAIN t /\ i = Len(s) + (i - Len(s))
    BY <1>1
  <2> QED BY <2>1
<1> QED
  BY <1>1, <1>2 DEF AllLate

(* What the client reads is the first that is pending.                        *)
LEMMA ReadDelivers ==
    ASSUME TypeOK, TypeOK', wire # <<>>, wire' = Tail(wire), peer = "up",
           UNCHANGED <<buffer, batch, queue, writer, peer, reason, cancelled>>
    PROVE  [Pipe!Next]_Pipe!vars
<1>1. Outgoing # <<>> /\ Outgoing' = Tail(Outgoing)
  <2>1. /\ wire \o buffer # <<>> /\ Tail(wire \o buffer) = Tail(wire) \o buffer
    BY PendingType, JoinedShrunk
  <2> QED BY <2>1 DEF Outgoing
<1>2. Sent(Outgoing) # <<>> /\ Sent(Outgoing)' = Tail(Sent(Outgoing))
  BY <1>1, PendingType, SentShrunk
<1>3. Sent(Outgoing) \o Rest # <<>> /\ Tail(Sent(Outgoing) \o Rest) = Tail(Sent(Outgoing)) \o Rest
  BY <1>2, PendingType, JoinedShrunk
<1>4. Pending' = Sent(Outgoing)' \o Rest' /\ Rest' = Rest
  BY DEF Pending, Rest
<1>5. Pending # <<>> /\ Pending' = Tail(Pending)
  BY <1>2, <1>3, <1>4, PendingType
<1>6. Ending' = Ending
  BY DEF Ending
<1>7. Pipe!Deliver
  BY <1>5, <1>6 DEF Pipe!Deliver
<1> QED
  BY <1>7 DEF Pipe!Next

(* What is pending, cut behind what is on the wire.                           *)
LEMMA PendingCut ==
    ASSUME TypeOK
    PROVE  /\ Len(wire) \in 0..Len(Pending)
           /\ SubSeq(Pending, 1, Len(wire)) = Sent(wire)
           /\ SubSeq(Pending, Len(wire) + 1, Len(Pending)) = Sent(buffer) \o Rest
<1>1. Sent(wire) \in Seq(Entry) /\ Sent(buffer) \in Seq(Entry) /\ Len(Sent(wire)) = Len(wire)
  BY PendingType, SentType
<1>2. Sent(Outgoing) = Sent(wire) \o Sent(buffer)
  BY PendingType, SentJoined DEF Outgoing
<1>3. Pending = Sent(wire) \o (Sent(buffer) \o Rest)
  <2>1. Pending = (Sent(wire) \o Sent(buffer)) \o Rest /\ Rest \in Seq(Entry)
    BY <1>2, PendingType
  <2> QED BY <1>1, <2>1, ConcatAssociative
<1>4. Sent(buffer) \o Rest \in Seq(Entry)
  BY <1>1, PendingType, Joined, Zenon
<1> DEFINE s == Sent(wire)
           t == Sent(buffer) \o Rest
<1>5. s \in Seq(Entry) /\ t \in Seq(Entry) /\ Pending = s \o t /\ Len(s) = Len(wire)
  BY <1>1, <1>3, <1>4
<1> HIDE DEF s, t
<1>6. /\ Len(wire) \in 0..Len(Pending)
      /\ SubSeq(Pending, 1, Len(wire)) = s
      /\ SubSeq(Pending, Len(wire) + 1, Len(Pending)) = t
  <2>1. /\ SubSeq(s \o t, 1, Len(s)) = s
        /\ SubSeq(s \o t, Len(s) + 1, Len(s \o t)) = t
        /\ Len(s) \in 0..Len(s \o t)
    BY <1>5, JoinedCut, Zenon
  <2> QED BY <1>5, <2>1
<1> QED
  BY <1>6 DEF s, t

(* What a peer that is lost did not read is lost.                             *)
LEMMA PeerLoses ==
    ASSUME TypeOK, TypeOK', wire' = <<>>, peer' # "up",
           UNCHANGED <<buffer, batch, queue, writer, reason, cancelled>>
    PROVE  [Pipe!Next]_Pipe!vars
<1>1. Outgoing' = buffer
  BY PendingType, ConcatEmptySeq DEF Outgoing
<1>2. Pending' = Sent(buffer) \o Rest
  BY <1>1 DEF Pending, Rest
<1>3. Ending' = Ending
  BY DEF Ending
<1>4. Pipe!Lose(Len(wire))
  BY <1>2, <1>3, PendingCut DEF Pipe!Lose
<1> QED
  BY <1>4, PendingCut DEF Pipe!Next

(* Where a writer goes that has nothing to say, what is left out is late.       *)
LEMMA GoneEnds ==
    ASSUME TypeOK, TypeOK', writer # "gone", WriterGone, Ending, Ending',
           \/ wire' = wire /\ peer # "up"
           \/ wire' = Outgoing /\ AllLate(batch) /\ AllLate(queue)
    PROVE  [Pipe!Next]_Pipe!vars
<1>1. Ending = TRUE /\ Ending' = TRUE /\ writer' = "gone" /\ peer' = peer
  BY DEF WriterGone, Ending, TypeOK
<1>2. Outgoing' = wire'
  <2>1. wire' \in Seq(Frame) /\ buffer' = <<>>
    BY DEF TypeOK, WriterGone
  <2> QED BY <2>1, ConcatEmptySeq DEF Outgoing
<1>3. Pending' = Sent(wire')
  <2>1. batch' = <<>> /\ queue' = <<>>
    BY DEF WriterGone
  <2>2. Sent(wire') \in Seq(Entry) /\ wire' \in Seq(Frame)
    BY SentType DEF TypeOK
  <2>3. Pending' = Sent(wire') \o (<<>> \o <<>>)
    BY <1>2, <2>1 DEF Pending
  <2> QED BY <2>2, <2>3, ConcatEmptySeq
<1>4. CASE wire' = wire /\ peer # "up"
  <2>1. Pending' = SubSeq(Pending, 1, Len(wire))
    BY <1>3, <1>4, PendingCut
  <2>2. Pipe!End(Len(wire))
    BY <1>1, <1>4, <2>1 DEF Pipe!End
  <2> QED BY <2>2, PendingCut DEF Pipe!Next
<1>5. CASE wire' = Outgoing /\ AllLate(batch) /\ AllLate(queue)
  <2> DEFINE n == Len(Outgoing)
  <2>1. /\ Pending = Sent(Outgoing) \o Rest /\ Len(Sent(Outgoing)) = n
        /\ Sent(Outgoing) \in Seq(Entry) /\ Rest \in Seq(Entry) /\ n \in Nat
    BY PendingType
  <2>2. SubSeq(Pending, 1, n) = Sent(Outgoing) /\ n \in 0..Len(Pending)
    BY <2>1, JoinedCut
  <2>3. Pending' = SubSeq(Pending, 1, n)
    BY <1>3, <1>5, <2>2
  <2>4. \A i \in (n + 1)..Len(Pending) : Pending[i].late
    <3> HIDE DEF n
    <3>1. AllLate(Rest)
      <4>1. /\ batch \in Seq(Entry) /\ queue \in Seq(Entry)
        BY PendingType
      <4> QED BY <1>5, <4>1, LateJoined DEF Rest
    <3>2. AllLate(Rest) => \A i \in (n + 1)..Len(Pending) : Pending[i].late
      BY <2>1, LateBehind
    <3> QED BY <3>1, <3>2
  <2>5. Pipe!End(n)
    BY <1>1, <2>3, <2>4 DEF Pipe!End
  <2> QED BY <2>2, <2>5 DEF Pipe!Next
<1> QED
  BY <1>4, <1>5

(* Every step of the connection is a step of the pipe, or none.                *)
LEMMA PipeStep ==
    ASSUME TypeOK, TypeOK', Named, Owed, [Next]_vars
    PROVE  [Pipe!Next]_Pipe!vars
<1> USE DEF taskVars, handleVars, writerVars, otherVars, clientVars
<1>1. CASE Replay
  <2>1. Handed("event") /\ Undelivered /\ UNCHANGED <<writer, peer, reason, cancelled>>
    BY <1>1 DEF Replay, Handed, Room, Undelivered
  <2> QED BY <2>1, HandedAccepts DEF Kinds, Ending
<1>2. CASE CutReplayShort
  <2>1. Pending' = Pending /\ UNCHANGED peer /\ (Ending => Ending')
        /\ (writer = "gone" <=> writer' = "gone")
    BY <1>2 DEF CutReplayShort, Pending, Outgoing, Ending
  <2> QED BY <2>1, AsDecided
<1>3. CASE Offer
  <2>1. Undelivered /\ UNCHANGED <<writer, peer>>
    BY <1>3 DEF Offer, Undelivered
  <2>2. CASE SendOwn("offer")
    BY <2>1, <2>2, SentOwnAccepts DEF Kinds
  <2>3. CASE UNCHANGED handleVars
    BY <2>1, <2>3, HandedAccepts DEF Handed, Kinds, Ending
  <2> QED BY <1>3, <2>2, <2>3 DEF Offer
<1>4. CASE Read
  <2>1. Undelivered /\ UNCHANGED <<writer, peer>>
    BY <1>4 DEF Read, Undelivered
  <2>2. ASSUME NEW kind \in {"refuse", "accept"}, SendOwn(kind)
        PROVE  [Pipe!Next]_Pipe!vars
    BY <2>1, <2>2, SentOwnAccepts DEF Kinds
  <2>3. CASE UNCHANGED handleVars
    BY <2>1, <2>3, HandedAccepts DEF Handed, Kinds, Ending
  <2> QED BY <1>4, <2>2, <2>3 DEF Read, Answer
<1>5. CASE LeaveCancelled
  <2>1. Pending' = Pending /\ UNCHANGED peer /\ (Ending => Ending')
        /\ (writer = "gone" <=> writer' = "gone")
    BY <1>5 DEF LeaveCancelled, Pending, Outgoing, Ending, Leave, Ended
  <2> QED BY <2>1, AsDecided
<1>6. CASE LeaveEnded
  <2>1. Pending' = Pending /\ UNCHANGED peer /\ (Ending => Ending')
        /\ (writer = "gone" <=> writer' = "gone")
    BY <1>6 DEF LeaveEnded, Pending, Outgoing, Ending, Leave, Ended
  <2> QED BY <2>1, AsDecided
<1>7. CASE Unregister
  <2>1. Pending' = Pending /\ UNCHANGED peer /\ (Ending => Ending')
        /\ (writer = "gone" <=> writer' = "gone")
    BY <1>7 DEF Unregister, Pending, Outgoing, Ending
  <2> QED BY <2>1, AsDecided
<1>8. CASE CloseOwn
  <2>1. Handed("close") /\ Undelivered /\ UNCHANGED <<writer, peer>> /\ Ending /\ Ending'
    BY <1>8, CloseHands DEF CloseOwn, Undelivered, Ending, Named
  <2> QED BY <2>1, HandedAccepts DEF Kinds
<1>9. CASE Report
  <2>1. Pending' = Pending /\ UNCHANGED peer /\ (Ending => Ending')
        /\ (writer = "gone" <=> writer' = "gone")
    BY <1>9 DEF Report, Pending, Outgoing, Ending
  <2> QED BY <2>1, AsDecided
<1>10. CASE LeaveIdle
  <2>1. Pending' = Pending /\ UNCHANGED peer /\ (Ending => Ending')
        /\ (writer = "gone" <=> writer' = "gone")
    BY <1>10 DEF LeaveIdle, Pending, Outgoing, Ending, Leave, Ended
  <2> QED BY <2>1, AsDecided
<1>11. CASE Take
  <2>1. batch = <<>> /\ batch' = queue /\ queue' = <<>>
    BY <1>11 DEF Take, Owed
  <2>2. Rest' = Rest
    BY <2>1, PendingType, ConcatEmptySeq DEF Rest
  <2>3. Pending' = Pending
    BY <1>11, <2>2 DEF Take, Pending, Outgoing, Rest
  <2>4. UNCHANGED <<peer, reason, cancelled>> /\ writer # "gone" /\ writer' # "gone"
    BY <1>11 DEF Take
  <2> QED BY <2>3, <2>4, AsDecided DEF Ending
<1>12. CASE StopWaiting
  <2>1. Pending' = Pending /\ UNCHANGED peer /\ (Ending => Ending')
        /\ (writer = "gone" <=> writer' = "gone")
    BY <1>12 DEF StopWaiting, Pending, Outgoing, Ending
  <2> QED BY <2>1, AsDecided
<1>13. CASE Feed
  <2> DEFINE f == [kind |-> NextKind, in |-> encoder]
  <2>1. batch # <<>> /\ f.kind = Head(batch).kind /\ f \in Frame
    BY <1>13 DEF Feed, NextKind, Frame, Kinds, TypeOK
  <2>2. buffer' = Append(buffer, f) /\ UNCHANGED wire
    BY <1>13 DEF Feed, Framed
  <2>3. /\ batch' = Tail(batch) /\ UNCHANGED <<queue, peer, reason, cancelled>>
        /\ writer # "gone" /\ writer' # "gone"
    BY <1>13 DEF Feed
  <2>4. Outgoing' = Append(Outgoing, f)
    <3> HIDE DEF f
    <3> QED BY <2>1, <2>2, PendingType, JoinedGrown DEF Outgoing
  <2>5. Ending' = Ending
    BY <2>3 DEF Ending
  <2> HIDE DEF f
  <2> QED BY <2>1, <2>3, <2>4, <2>5, FedWrites
<1>14. CASE SwitchToProto
  <2> DEFINE f == [kind |-> NextKind, in |-> encoder]
  <2>1. batch # <<>> /\ f.kind = Head(batch).kind /\ f \in Frame
    BY <1>14 DEF SwitchToProto, NextKind, Frame, Kinds, TypeOK
  <2>2. wire' = wire \o Append(buffer, f) /\ buffer' = <<>>
    BY <1>14 DEF SwitchToProto, Framed
  <2>3. /\ batch' = Tail(batch) /\ UNCHANGED <<queue, peer, reason, cancelled>>
        /\ writer # "gone" /\ writer' # "gone"
    BY <1>14 DEF SwitchToProto
  <2> HIDE DEF f
  <2>4. Outgoing' = Append(Outgoing, f)
    <3>1. wire \o Append(buffer, f) = Append(Outgoing, f)
      <4>1. wire \in Seq(Frame) /\ buffer \in Seq(Frame)
        BY PendingType
      <4> QED BY <2>1, <4>1, JoinedGrown DEF Outgoing
    <3>2. Outgoing' = wire' \o <<>> /\ wire' \in Seq(Frame)
      BY <2>2 DEF Outgoing, TypeOK
    <3> QED BY <2>2, <3>1, <3>2, ConcatEmptySeq
  <2>5. Ending' = Ending
    BY <2>3 DEF Ending
  <2> QED BY <2>1, <2>3, <2>4, <2>5, FedWrites
<1>15. CASE Flush
  <2>1. /\ wire' = Outgoing /\ buffer' = <<>>
        /\ UNCHANGED <<batch, queue, peer, reason, cancelled>>
        /\ writer # "gone" /\ writer' # "gone"
    BY <1>15 DEF Flush, Outgoing
  <2>2. Outgoing' = Outgoing
    BY <2>1, PendingType, ConcatEmptySeq DEF Outgoing
  <2>3. Pending' = Pending
    BY <2>1, <2>2 DEF Pending
  <2> QED BY <2>1, <2>3, AsDecided DEF Ending
<1>16. CASE MeetClose
  <2>1. Pending' = Pending /\ UNCHANGED peer /\ (Ending => Ending')
        /\ (writer = "gone" <=> writer' = "gone")
    BY <1>16 DEF MeetClose, Pending, Outgoing, Ending
  <2> QED BY <2>1, AsDecided
<1>17. CASE WriteFails
  <2>1. Pending' = Pending /\ UNCHANGED peer /\ (Ending => Ending')
        /\ (writer = "gone" <=> writer' = "gone")
    BY <1>17 DEF WriteFails, Pending, Outgoing, Ending, Ended
  <2> QED BY <2>1, AsDecided
<1>18. CASE FailedStop
  <2>1. /\ writer # "gone" /\ WriterGone /\ Ending /\ Ending' /\ wire' = wire
        /\ peer # "up"
    BY <1>18 DEF FailedStop, Ending, Named
  <2> QED BY <2>1, GoneEnds
<1>19. CASE Finish
  <2>1. /\ writer # "gone" /\ WriterGone /\ Ending /\ Ending'
        /\ AllLate(batch) /\ AllLate(queue)
        /\ wire' = IF peer = "up" THEN Outgoing ELSE wire
    BY <1>19 DEF Finish, Ending, Named, Owed, Outgoing
  <2> QED BY <2>1, GoneEnds
<1>20. CASE Abort
  <2>1. writer # "gone" /\ WriterGone /\ cancelled /\ cancelled' /\ wire' = wire
    BY <1>20 DEF Abort, Parked, Named
  <2>2. peer # "up"
    BY <1>20 DEF Abort, Parked, NothingMore, Named
  <2> QED BY <2>1, <2>2, GoneEnds DEF Ending
<1>21. CASE Route
  <2>1. Undelivered /\ UNCHANGED <<writer, peer, cancelled>> /\ Send("event")
    BY <1>21 DEF Route, Undelivered
  <2>2. reason' = IF Overflows THEN Ended("SlowConsumer") ELSE reason
    BY <1>21 DEF Route
  <2>3. Handed("event") /\ (queue' = queue \/ (Ending <=> Ending')) /\ (Ending => Ending')
    BY <2>1, <2>2, SendDecides DEF Kinds
  <2> QED BY <2>1, <2>3, HandedAccepts DEF Kinds
<1>22. CASE CloseFromOutside
  <2>1. Pending' = Pending /\ UNCHANGED peer /\ (Ending => Ending')
        /\ (writer = "gone" <=> writer' = "gone")
    BY <1>22 DEF CloseFromOutside, Pending, Outgoing, Ending, Ended
  <2> QED BY <2>1, AsDecided
<1>23. ASSUME NEW c \in Callers, Close(c) PROVE [Pipe!Next]_Pipe!vars
  <2>1. Handed("close") /\ Undelivered /\ UNCHANGED <<writer, peer>> /\ Ending /\ Ending'
    BY <1>23, CloseHands DEF Close, Undelivered, Ending, Named
  <2> QED BY <2>1, HandedAccepts DEF Kinds
<1>24. CASE StopServer
  <2>1. Pending' = Pending /\ UNCHANGED peer /\ (Ending => Ending')
        /\ (writer = "gone" <=> writer' = "gone")
    BY <1>24 DEF StopServer, Pending, Outgoing, Ending
  <2> QED BY <2>1, AsDecided
<1>25. CASE ClientSays
  <2>1. Pending' = Pending /\ UNCHANGED peer /\ (Ending => Ending')
        /\ (writer = "gone" <=> writer' = "gone")
    BY <1>25 DEF ClientSays, Pending, Outgoing, Ending
  <2> QED BY <2>1, AsDecided
<1>26. CASE ClientReads
  BY <1>26, ReadDelivers DEF ClientReads
<1>27. CASE ClientGivesUp
  <2>1. Pending' = Pending /\ UNCHANGED peer /\ (Ending => Ending')
        /\ (writer = "gone" <=> writer' = "gone")
    BY <1>27 DEF ClientGivesUp, Pending, Outgoing, Ending
  <2> QED BY <2>1, AsDecided
<1>28. ASSUME NEW kind \in Requests \cup {"none"}, ClientIsOffered(kind)
       PROVE  [Pipe!Next]_Pipe!vars
  BY <1>28, ReadDelivers DEF ClientIsOffered
<1>29. ASSUME NEW how \in {"stalled", "closed"}, LosePeer(how)
       PROVE  [Pipe!Next]_Pipe!vars
  BY <1>29, PeerLoses DEF LosePeer
<1>30. CASE UNCHANGED vars
  <2>1. UNCHANGED <<Pending, peer, writer, reason, cancelled>>
    BY <1>30 DEF vars, Pending, Outgoing
  <2> QED BY <2>1, AsDecided DEF Ending
<1> QED
  BY <1>1, <1>2, <1>3, <1>4, <1>5, <1>6, <1>7, <1>8, <1>9, <1>10, <1>11, <1>12, <1>13,
     <1>14, <1>15, <1>16, <1>17, <1>18, <1>19, <1>20, <1>21, <1>22, <1>23, <1>24,
     <1>25, <1>26, <1>27, <1>28, <1>29, <1>30
     DEF Next, TaskStep, WriterStep, ClientStep

(* The pipe starts empty.                                                     *)
LEMMA PipeStart == Init => Pipe!Init
<1> SUFFICES ASSUME Init PROVE Pipe!Init
  OBVIOUS
<1>1. Outgoing = <<>> /\ batch \o queue = <<>>
  BY DEF Init, Outgoing
<1>2. Sent(Outgoing) = <<>>
  BY <1>1, SentNothing
<1>3. Pending = <<>>
  BY <1>1, <1>2 DEF Pending
<1>4. Ending = FALSE /\ (writer # "gone") = TRUE /\ (peer = "up") = TRUE
  BY DEF Init, Ending
<1> QED
  BY <1>3, <1>4 DEF Pipe!Init

(* The connection is the pipe of MessagePipe, however long its queue, whatever is    *)
(* dropped and whichever of its parts ends it: what its client reads is what was    *)
(* queued, in that order, each once and with nothing left out (subscription.rs    *)
(* send, writer.rs write, run).                                                 *)
THEOREM PipeKeepsThePromise == Spec => DeliversInOrder
<1>1. IInv /\ [Next]_vars => [Pipe!Next]_Pipe!vars
  <2> SUFFICES ASSUME IInv, [Next]_vars PROVE [Pipe!Next]_Pipe!vars
    OBVIOUS
  <2>1. TypeOK /\ Named /\ Owed /\ TypeOK'
    BY Kept DEF IInv
  <2> QED BY <2>1, PipeStep
<1> QED
  BY <1>1, PipeStart, Always, PTL DEF Spec, DeliversInOrder, Pipe!Spec

=============================================================================
