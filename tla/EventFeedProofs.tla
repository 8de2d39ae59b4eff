-------------------------- MODULE EventFeedProofs --------------------------
(***************************************************************************)
(* Proofs about EventFeed, for any number of publishers and events and any   *)
(* length of ring and wire: nothing comes twice and nothing is skipped, but   *)
(* for what was overtaken.                                                  *)
(***************************************************************************)
EXTENDS EventFeed, SequenceTheorems, WellFoundedInduction, TLAPS

\* No event before i is in O, the overtaken.
Clean(i, O) == \A j \in O : i <= j

\* If y is ahead of x, it is the earlier, or x was overtaken and so was one before y.
Before(y, x, O) == x \notin O \/ Clean(y, O) => y < x

InOrder(s, O) == \A k, l \in DOMAIN s : k < l => Before(s[k], s[l], O)

\* A number is given out once, and whatever is held somewhere was kept, and sent.
Counted ==
    /\ \A p \in Publishers :
          IF publishing[p].at = "idle" THEN publishing[p] = Idle
                                       ELSE publishing[p].id \in 1..next
    /\ \A p, q \in Publishers : publishing[p].id = publishing[q].id /\ p # q => publishing[p] = Idle
    /\ Range(ring) \cup Range(backlog) \cup Range(wire) \cup got \subseteq Kept
    /\ Range(inbox) \subseteq Kept \ Unsent
    /\ after <= floor \/ after \in Kept

\* Who is kept, or sent, before an earlier one overtakes it.
Overtaking ==
    /\ \A x \in Numbered, y \in Kept : x < y => x \in overtaken
    /\ \A x \in Unsent, y \in Kept \ Unsent : x < y => x \in overtaken

\* What a feed holds at each place.
Placed ==
    /\ at \in {"closed", "called", "subscribed"} => wire = <<>>
    /\ at # "open" => backlog = <<>>
    /\ at \in {"open", "checking"} =>
          /\ seen <= floor \/ seen \in Kept
          /\ \A w \in Range(wire) : w <= seen

\* Everything is ahead of what came after it.
Ordered ==
    /\ InOrder(ring, overtaken) /\ InOrder(backlog, overtaken)
    /\ InOrder(inbox, overtaken) /\ InOrder(wire, overtaken)
    /\ \A w \in Range(wire), b \in Range(backlog) : Before(w, b, overtaken)
    /\ \A b \in Range(backlog) : b \notin overtaken => seen < b

\* What came is behind what is to come.
Behind ==
    \A i \in got : Clean(i, overtaken) =>
        /\ i <= after
        /\ \A w \in Range(wire) \cup Range(backlog) : i < w
        /\ at \in {"open", "checking"} => i <= seen

\* An event that the consumer is owed.
Missing(i) ==
    i \in Kept /\ i > floor /\ i \notin got \cup hidden \cup overtaken \cup lost

\* Where an event is that is owed and not on the wire.
ToCome(i) ==
    /\ \A w \in Range(wire) : w < i
    /\ at \in {"open", "checking"} =>
          /\ seen < i
          /\ \/ i \in Range(backlog)
             \/ /\ \A b \in Range(backlog) : b < i
                /\ lagged \/ i \in Range(inbox) \cup Unsent

Ahead == \A i \in Kept : Missing(i) => i \in Range(wire) \/ ToCome(i)

IInv ==
    /\ TypeOK /\ Counted /\ Overtaking /\ Placed /\ Ordered
    /\ Behind /\ NothingTwice /\ Ahead /\ NothingSkipped

-----------------------------------------------------------------------------
(* Sequences, and what is in order in them.                                    *)

(* What a sequence of numbers holds, when one is put at its end and when its     *)
(* first is taken.                                                            *)
LEMMA Ranges ==
  ASSUME NEW S, NEW s \in Seq(S), NEW x \in S
  PROVE  /\ DOMAIN s = 1..Len(s) /\ Len(s) \in Nat
         /\ \A k \in 1..Len(s) : s[k] \in Range(s) /\ s[k] \in S
         /\ \A y : y \in Range(s) <=> \E k \in 1..Len(s) : s[k] = y
         /\ Range(s) \subseteq S
         /\ Range(<<>>) = {}
         /\ Range(Append(s, x)) = Range(s) \cup {x}
         /\ s # <<>> => /\ Head(s) \in S /\ Tail(s) \in Seq(S)
                        /\ Range(s) = {Head(s)} \cup Range(Tail(s))
                        /\ Head(s) \in Range(s) /\ Len(Tail(s)) = Len(s) - 1
<1>1. DOMAIN s = 1..Len(s) /\ Len(s) \in Nat
  BY LenProperties
<1>2. /\ \A k \in 1..Len(s) : s[k] \in Range(s) /\ s[k] \in S
      /\ \A y : y \in Range(s) <=> \E k \in 1..Len(s) : s[k] = y
      /\ Range(s) \subseteq S
  BY <1>1, ElementOfSeq DEF Range
<1>3. Range(<<>>) = {}
  BY DEF Range
<1>4. Range(Append(s, x)) = Range(s) \cup {x}
  <2>1. /\ Append(s, x) \in Seq(S) /\ Len(Append(s, x)) = Len(s) + 1
        /\ \A i \in 1..Len(s) : Append(s, x)[i] = s[i]
        /\ Append(s, x)[Len(s) + 1] = x
    BY AppendProperties
  <2>2. Range(Append(s, x)) = {Append(s, x)[i] : i \in 1..(Len(s) + 1)}
    BY <2>1, RangeEquality
  <2>3. 1..(Len(s) + 1) = 1..Len(s) \cup {Len(s) + 1}
    BY <1>1
  <2>4. Range(s) = {s[i] : i \in 1..Len(s)}
    BY RangeEquality
  <2> QED
    BY <2>1, <2>2, <2>3, <2>4, ZenonT(30)
<1>5. ASSUME s # <<>>
      PROVE  /\ Head(s) \in S /\ Tail(s) \in Seq(S)
             /\ Range(s) = {Head(s)} \cup Range(Tail(s))
             /\ Head(s) \in Range(s) /\ Len(Tail(s)) = Len(s) - 1
  <2>1. /\ Head(s) \in S /\ Tail(s) \in Seq(S) /\ Len(Tail(s)) = Len(s) - 1
        /\ \A i \in 1..Len(Tail(s)) : Tail(s)[i] = s[i + 1]
        /\ Len(s) \in Nat \ {0} /\ Head(s) = s[1]
    BY <1>5, HeadTailProperties, EmptySeq
  <2>2. \A y : y \in Range(Tail(s)) <=> \E i \in 1..(Len(s) - 1) : s[i + 1] = y
    <3>1. Range(Tail(s)) = {Tail(s)[i] : i \in 1..Len(Tail(s))}
      BY <2>1, RangeEquality
    <3>2. \A y : y \in Range(Tail(s)) <=> \E i \in 1..Len(Tail(s)) : Tail(s)[i] = y
      BY <3>1
    <3> QED
      BY <2>1, <3>2
  <2>3. \A y : y \in Range(s) <=> \E k \in 1..Len(s) : s[k] = y
    BY <1>2
  <2>4. ASSUME NEW k \in 1..Len(s), k # 1
        PROVE  \E i \in 1..(Len(s) - 1) : s[i + 1] = s[k]
    <3>1. k - 1 \in 1..(Len(s) - 1) /\ (k - 1) + 1 = k
      BY <2>1, <2>4
    <3> QED
      BY <3>1
  <2>5. \A i \in 1..(Len(s) - 1) : i + 1 \in 1..Len(s)
    BY <2>1
  <2>6. 1 \in 1..Len(s)
    BY <2>1
  <2> QED
    BY <2>1, <2>2, <2>3, <2>4, <2>5, <2>6
<1> QED
  BY <1>1, <1>2, <1>3, <1>4, <1>5

(* A number that comes after all of a sequence may be put at its end; the first  *)
(* of a sequence in order may be taken, and is before the rest.                 *)
LEMMA InOrderAppend ==
  ASSUME NEW S, NEW s \in Seq(S), NEW x \in S, NEW O, InOrder(s, O),
         \A y \in Range(s) : Before(y, x, O)
  PROVE  InOrder(Append(s, x), O)
<1> DEFINE t == Append(s, x)
<1>1. /\ DOMAIN t = 1..(Len(s) + 1) /\ Len(s) \in Nat
      /\ \A i \in 1..Len(s) : t[i] = s[i]
      /\ t[Len(s) + 1] = x
  BY AppendProperties, LenProperties
<1>2. DOMAIN s = 1..Len(s) /\ \A i \in 1..Len(s) : s[i] \in Range(s)
  BY Ranges
<1> SUFFICES ASSUME NEW k \in 1..(Len(s) + 1), NEW l \in 1..(Len(s) + 1), k < l
             PROVE  Before(t[k], t[l], O)
  BY <1>1 DEF InOrder
<1>3. k \in 1..Len(s)
  BY <1>1
<1>4. CASE l = Len(s) + 1
  BY <1>1, <1>2, <1>3, <1>4
<1>5. CASE l # Len(s) + 1
  <2>1. l \in 1..Len(s)
    BY <1>1, <1>5
  <2> HIDE DEF t
  <2> QED
    BY <1>1, <1>2, <1>3, <2>1 DEF InOrder
<1> QED
  BY <1>4, <1>5

LEMMA InOrderTail ==
  ASSUME NEW S, NEW s \in Seq(S), s # <<>>, NEW O, InOrder(s, O)
  PROVE  InOrder(Tail(s), O) /\ \A x \in Range(Tail(s)) : Before(Head(s), x, O)
<1> DEFINE t == Tail(s)
<1>1. /\ DOMAIN t = 1..(Len(s) - 1) /\ Len(s) \in Nat \ {0} /\ Head(s) = s[1]
      /\ \A i \in 1..(Len(s) - 1) : t[i] = s[i + 1]
      /\ DOMAIN s = 1..Len(s)
  BY HeadTailProperties, EmptySeq, LenProperties
<1>2. \A x \in Range(t) : \E i \in 1..(Len(s) - 1) : t[i] = x
  BY <1>1 DEF Range
<1> HIDE DEF t
<1>3. ASSUME NEW k \in DOMAIN t, NEW l \in DOMAIN t, k < l
      PROVE  Before(t[k], t[l], O)
  BY <1>1, <1>3 DEF InOrder
<1>4. ASSUME NEW x \in Range(t)
      PROVE  Before(Head(s), x, O)
  <2>1. PICK i \in 1..(Len(s) - 1) : t[i] = x
    BY <1>2
  <2>2. 1 \in 1..Len(s) /\ i + 1 \in 1..Len(s) /\ 1 < i + 1
    BY <1>1
  <2> QED
    BY <1>1, <2>1, <2>2 DEF InOrder
<1> QED
  BY <1>3, <1>4 DEF InOrder, t

(* What was overtaken stays so: the order only becomes laxer.                   *)
LEMMA Laxer ==
  ASSUME NEW O, NEW P, O \subseteq P
  PROVE  /\ \A i : Clean(i, P) => Clean(i, O)
         /\ \A y, x : Before(y, x, O) => Before(y, x, P)
         /\ \A s : InOrder(s, O) => InOrder(s, P)
  BY DEF Clean, Before, InOrder

(* The last n of a sequence of at most n to which one more was added.            *)
LEMMA LatestKeeps ==
  ASSUME NEW S, NEW s \in Seq(S), NEW x \in S, NEW n \in Nat \ {0}, Len(s) <= n
  PROVE  LET t == Latest(n, Append(s, x)) IN
         /\ t \in Seq(S) /\ Len(t) <= n
         /\ x \in Range(t) /\ Range(t) \subseteq Range(s) \cup {x}
         /\ Len(s) < n => Range(s) \subseteq Range(t)
         /\ \A O : InOrder(s, O) /\ (\A y \in Range(s) : Before(y, x, O)) => InOrder(t, O)
<1> DEFINE a == Append(s, x)  t == Latest(n, a)
<1>1. /\ a \in Seq(S) /\ Len(a) = Len(s) + 1 /\ Len(s) \in Nat /\ a # <<>>
      /\ Range(a) = Range(s) \cup {x}
  BY AppendProperties, Ranges
<1>2. \A O : InOrder(s, O) /\ (\A y \in Range(s) : Before(y, x, O)) => InOrder(a, O)
  BY InOrderAppend
<1>3. CASE Len(s) < n
  <2>1. t = a
    BY <1>1, <1>3 DEF Latest
  <2> QED
    BY <1>1, <1>2, <1>3, <2>1
<1>4. CASE Len(s) = n
  <2>1. t = Tail(a)
    BY <1>1, <1>4 DEF Latest
  <2>2. t \in Seq(S) /\ Len(t) = n /\ Range(a) = {Head(a)} \cup Range(t)
    <3>1. /\ Tail(a) \in Seq(S) /\ Len(Tail(a)) = Len(a) - 1
          /\ Range(a) = {Head(a)} \cup Range(Tail(a))
      <4> HIDE DEF a
      <4> QED
        BY <1>1, Ranges
    <3> QED
      BY <1>1, <1>4, <2>1, <3>1
  <2>3. x \in Range(t)
    <3>1. Tail(a) = Append(Tail(s), x)
      <4>1. s # <<>>
        BY <1>4, EmptySeq
      <4> QED
        BY <4>1, HeadTailAppend
    <3>2. Tail(s) \in Seq(S)
      <4>1. s # <<>>
        BY <1>4, EmptySeq
      <4> QED
        BY <4>1, HeadTailProperties
    <3>3. \A u \in Seq(S) : Range(Append(u, x)) = Range(u) \cup {x}
      BY Ranges
    <3> QED
      BY <3>1, <3>2, <3>3, <2>1
  <2>4. \A O : InOrder(a, O) => InOrder(t, O)
    BY <1>1, <2>1, InOrderTail
  <2> QED
    BY <1>1, <1>2, <1>4, <2>2, <2>3, <2>4
<1> QED
  BY <1>1, <1>3, <1>4

-----------------------------------------------------------------------------
(* What the ring has after a number.                                           *)

(* A set of numbers that is not empty has a least one.                         *)
LEMMA LeastExists ==
  ASSUME NEW S \in SUBSET Nat, S # {}
  PROVE  \E m \in S : \A n \in S : m <= n
<1>1. PICK m \in S : \A n \in S : ~(<<n, m>> \in OpToRel(<, Nat))
  BY WFMin, NatLessThanWellFounded
<1>2. ASSUME NEW n \in S PROVE m <= n
  <2>1. m \in Nat /\ n \in Nat /\ <<n, m>> \in Nat \X Nat
    OBVIOUS
  <2>2. ~(n < m)
    BY <1>1, <2>1 DEF OpToRel
  <2> QED
    BY <2>1, <2>2
<1> QED
  BY <1>2

\* One step of the selection in Since, of the first N, from what f says of the step before.
Selected(f, N, id) ==
    [n \in 0..N |->
        IF n = 0 THEN <<>>
        ELSE IF ring[n] > id THEN Append(f[n - 1], ring[n]) ELSE f[n - 1]]

(* The recursion that Since is defined by has a solution.                       *)
LEMMA SelectionExists ==
  ASSUME ring \in Seq(Ids), NEW id \in Nat, NEW N \in Nat
  PROVE  \E f : f = Selected(f, N, id)
<1> DEFINE Bad == {n \in Nat : ~ \E f : f = Selected(f, n, id)}
<1>1. SUFFICES ASSUME Bad # {} PROVE FALSE
  OBVIOUS
<1>2. PICK m \in Bad : \A n \in Bad : m <= n
  <2>1. Bad \in SUBSET Nat
    OBVIOUS
  <2> HIDE DEF Bad
  <2> QED
    BY <1>1, <2>1, LeastExists
<1>3. m \in Nat /\ ~ \E f : f = Selected(f, m, id)
  OBVIOUS
<1>4. CASE m = 0
  <2>1. [n \in 0..0 |-> <<>>] = Selected([n \in 0..0 |-> <<>>], 0, id)
    BY DEF Selected
  <2> QED
    BY <1>3, <1>4, <2>1
<1>5. CASE m # 0
  <2>1. m - 1 \in Nat /\ ~(m <= m - 1)
    BY <1>3, <1>5
  <2>2. PICK f : f = Selected(f, m - 1, id)
    BY <1>2, <2>1
  <2> DEFINE last == IF ring[m] > id THEN Append(f[m - 1], ring[m]) ELSE f[m - 1]
             g == [n \in 0..m |-> IF n = m THEN last ELSE f[n]]
  <2>3. ASSUME NEW n \in 0..m PROVE g[n] = Selected(g, m, id)[n]
    <3>1. CASE n = m
      <4>1. m - 1 \in 0..m /\ m - 1 # m
        BY <1>3, <1>5
      <4> QED
        BY <3>1, <4>1, <1>5 DEF Selected
    <3>2. CASE n # m
      <4>1. n \in 0..(m - 1)
        BY <1>3, <1>5, <3>2
      <4>2. f[n] = Selected(f, m - 1, id)[n]
        BY <2>2
      <4>3. n # 0 => n - 1 \in 0..m /\ n - 1 # m
        BY <1>3, <4>1
      <4>4. g[n] = f[n] /\ (n # 0 => g[n - 1] = f[n - 1])
        BY <3>2, <4>3
      <4> HIDE DEF g
      <4>5. Selected(f, m - 1, id)[n] = Selected(g, m, id)[n]
        BY <4>1, <4>4 DEF Selected
      <4> QED
        BY <4>2, <4>4, <4>5
    <3> QED
      BY <3>1, <3>2
  <2>4. g = Selected(g, m, id)
    BY <2>3 DEF Selected
  <2> QED
    BY <1>3, <2>4
<1> QED
  BY <1>4, <1>5

\* What of the first n of the ring is after id is what t holds, in order.
Selection(t, n, id, O) ==
    /\ t \in Seq(Ids) /\ Len(t) <= n /\ InOrder(t, O)
    /\ Range(t) = {ring[m] : m \in {i \in 1..n : ring[i] > id}}

LEMMA SelectionStep ==
  ASSUME ring \in Seq(Ids), NEW id \in Nat, NEW O, InOrder(ring, O),
         NEW n \in 1..Len(ring), NEW t, Selection(t, n - 1, id, O)
  PROVE  Selection(IF ring[n] > id THEN Append(t, ring[n]) ELSE t, n, id, O)
<1>1. /\ Len(ring) \in Nat /\ DOMAIN ring = 1..Len(ring)
      /\ \A k \in 1..Len(ring) : ring[k] \in Ids
  BY LenProperties, ElementOfSeq
<1>2. n \in Nat /\ n - 1 \in Nat /\ 1..n = 1..(n - 1) \cup {n} /\ Len(t) \in Nat
  BY <1>1, LenProperties DEF Selection
<1> DEFINE Among(k) == {ring[m] : m \in {i \in 1..k : ring[i] > id}}
<1>3. CASE ring[n] > id
  <2>1. Among(n) = Among(n - 1) \cup {ring[n]}
    BY <1>2, <1>3
  <2>2. /\ Append(t, ring[n]) \in Seq(Ids) /\ Len(Append(t, ring[n])) = Len(t) + 1
        /\ Range(Append(t, ring[n])) = Range(t) \cup {ring[n]}
    BY <1>1, AppendProperties, Ranges DEF Selection
  <2>3. ASSUME NEW y \in Range(t) PROVE Before(y, ring[n], O)
    <3>1. PICK m \in 1..(n - 1) : y = ring[m]
      BY DEF Selection
    <3>2. m \in 1..Len(ring) /\ m < n
      BY <1>1, <1>2
    <3> QED
      BY <1>1, <3>1, <3>2 DEF InOrder
  <2>4. InOrder(Append(t, ring[n]), O)
    BY <1>1, <2>3, InOrderAppend DEF Selection
  <2> QED
    BY <1>2, <1>3, <2>1, <2>2, <2>4 DEF Selection
<1>4. CASE ~(ring[n] > id)
  <2>1. Among(n) = Among(n - 1)
    BY <1>2, <1>4
  <2> QED
    BY <1>2, <1>4, <2>1 DEF Selection
<1> QED
  BY <1>3, <1>4

(* Since is what of the ring is after id, in its order (ServerEvents::since).      *)
LEMMA SinceSelects ==
  ASSUME ring \in Seq(Ids), NEW id \in Nat, NEW O, InOrder(ring, O)
  PROVE  /\ Since(id) \in Seq(Ids) /\ Len(Since(id)) <= Len(ring)
         /\ InOrder(Since(id), O)
         /\ \A i : i \in Range(Since(id)) <=> i \in Range(ring) /\ i > id
<1>1. Len(ring) \in Nat
  BY LenProperties
<1> DEFINE f == CHOOSE f : f = Selected(f, Len(ring), id)
<1>2. f = Selected(f, Len(ring), id)
  BY <1>1, SelectionExists
<1>3. Since(id) = f[Len(ring)]
  BY DEF Since, Selected
<1> HIDE DEF f
<1> DEFINE Bad == {n \in 0..Len(ring) : ~ Selection(f[n], n, id, O)}
<1>4. ASSUME Bad # {} PROVE FALSE
  <2>1. PICK m \in Bad : \A n \in Bad : m <= n
    <3>1. Bad \in SUBSET Nat
      BY <1>1
    <3> HIDE DEF Bad
    <3> QED
      BY <1>4, <3>1, LeastExists
  <2>2. m \in 0..Len(ring) /\ ~ Selection(f[m], m, id, O)
    OBVIOUS
  <2>3. CASE m = 0
    <3>1. f[0] = <<>>
      BY <1>1, <1>2 DEF Selected
    <3>2. Range(<<>>) = {} /\ <<>> \in Seq(Ids) /\ Len(<<>>) = 0 /\ InOrder(<<>>, O)
      BY EmptySeq DEF Range, InOrder
    <3>3. {i \in 1..0 : ring[i] > id} = {}
      OBVIOUS
    <3> QED
      BY <2>2, <2>3, <3>1, <3>2, <3>3 DEF Selection
  <2>4. CASE m # 0
    <3>1. m \in 1..Len(ring) /\ m - 1 \in 0..Len(ring) /\ ~(m <= m - 1)
      BY <1>1, <2>2, <2>4
    <3>2. Selection(f[m - 1], m - 1, id, O)
      BY <2>1, <3>1
    <3>3. f[m] = IF ring[m] > id THEN Append(f[m - 1], ring[m]) ELSE f[m - 1]
      BY <1>2, <2>2, <2>4 DEF Selected
    <3> QED
      BY <2>2, <3>1, <3>2, <3>3, SelectionStep
  <2> QED
    BY <2>3, <2>4
<1>5. Selection(f[Len(ring)], Len(ring), id, O)
  BY <1>1, <1>4
<1>6. ASSUME NEW i
      PROVE  i \in {ring[m] : m \in {k \in 1..Len(ring) : ring[k] > id}}
                <=> i \in Range(ring) /\ i > id
  BY RangeEquality
<1> QED
  BY <1>3, <1>5, <1>6 DEF Selection

LEMMA SinceTyped ==
  ASSUME ring \in Seq(Ids), NEW id \in 0..MaxId
  PROVE  /\ Since(id) \in Seq(Ids) /\ Len(Since(id)) <= Len(ring)
         /\ \A i : i \in Range(Since(id)) <=> i \in Range(ring) /\ i > id
<1>1. \A k \in DOMAIN ring : ring[k] \in 1..MaxId
  BY ElementOfSeq, LenProperties DEF Ids
<1>2. InOrder(ring, 0..MaxId)
  BY <1>1, FeedConstants DEF InOrder, Before, Clean
<1>3. id \in Nat
  BY FeedConstants
<1> QED
  BY <1>2, <1>3, SinceSelects

-----------------------------------------------------------------------------
(* Types.                                                                     *)

\* TypeOK, by who holds what.
BusTyped ==
    /\ next \in 0..MaxId /\ limited \subseteq 1..next
    /\ publishing \in [Publishers -> [at: {"idle", "numbered", "kept"}, id: 0..MaxId]]
    /\ ring \in Seq(Ids) /\ Len(ring) <= Ring
AccountTyped == rows \subseteq Rights /\ telling \in BOOLEAN
PlaceTyped ==
    /\ at \in {"closed", "called", "subscribed", "open", "checking", "ended"}
    /\ rights \subseteq Rights
QueueTyped ==
    /\ seen \in 0..MaxId
    /\ backlog \in Seq(Ids) /\ Len(backlog) <= Ring
    /\ inbox \in Seq(Ids) /\ Len(inbox) <= Ring
NoticeTyped == lagged \in BOOLEAN /\ notice \in BOOLEAN
ConsumerTyped ==
    /\ wire \in Seq(Ids) /\ Len(wire) <= WireLen /\ after \in 0..MaxId
    /\ got \subseteq Ids /\ twice \subseteq got
ToldTyped ==
    /\ hidden \subseteq Ids /\ overtaken \subseteq Ids /\ lost \subseteq Ids
    /\ floor \in 0..MaxId

PartsTyped ==
    /\ BusTyped /\ AccountTyped /\ PlaceTyped /\ QueueTyped /\ NoticeTyped
    /\ ConsumerTyped /\ ToldTyped /\ restarts \in 0..MaxRestarts

LEMMA TypeParts == (TypeOK <=> PartsTyped) /\ (TypeOK' <=> PartsTyped')
BY DEF TypeOK, PartsTyped, BusTyped, AccountTyped, PlaceTyped, QueueTyped, NoticeTyped,
       ConsumerTyped, ToldTyped

LEMMA InitTyped == Init => TypeOK
<1> SUFFICES ASSUME Init PROVE TypeOK
  OBVIOUS
<1> USE FeedConstants DEF Init
<1>1. <<>> \in Seq(Ids) /\ Len(<<>>) = 0
  BY EmptySeq
<1>2. BusTyped
  BY <1>1 DEF BusTyped, Idle
<1>3. AccountTyped /\ PlaceTyped /\ NoticeTyped
  BY DEF AccountTyped, PlaceTyped, NoticeTyped, Rights
<1>4. QueueTyped /\ ConsumerTyped /\ ToldTyped
  BY <1>1 DEF QueueTyped, ConsumerTyped, ToldTyped
<1> QED
  BY <1>2, <1>3, <1>4, TypeParts DEF PartsTyped

LEMMA TypeStep == TypeOK /\ Counted /\ [Next]_vars => TypeOK'
<1> SUFFICES ASSUME TypeOK, Counted, [Next]_vars PROVE PartsTyped'
  BY TypeParts
<1> USE FeedConstants
<1>1. <<>> \in Seq(Ids) /\ Len(<<>>) = 0
  BY EmptySeq
<1>2. Ids = 1..MaxId /\ Ids \subseteq Nat /\ Ids \subseteq 0..MaxId
  BY DEF Ids
<1>3. ASSUME NEW s \in Seq(Ids), s # <<>>
      PROVE  /\ Head(s) \in Ids /\ Tail(s) \in Seq(Ids)
             /\ Len(s) \in Nat /\ Len(Tail(s)) = Len(s) - 1
  BY <1>3, HeadTailProperties, EmptySeq
<1>4. ASSUME NEW s \in Seq(Ids), NEW i \in Ids
      PROVE  /\ Append(s, i) \in Seq(Ids) /\ Len(Append(s, i)) = Len(s) + 1
             /\ Len(s) \in Nat
  BY <1>4, AppendProperties, LenProperties
<1>5. ASSUME NEW s \in Seq(Ids), Len(s) <= Ring, NEW i \in Ids
      PROVE  Latest(Ring, Append(s, i)) \in Seq(Ids) /\ Len(Latest(Ring, Append(s, i))) <= Ring
  BY <1>5, LatestKeeps
<1>6. ASSUME NEW id \in 0..MaxId
      PROVE  Since(id) \in Seq(Ids) /\ Len(Since(id)) <= Ring
  <2>1. ring \in Seq(Ids) /\ Len(ring) <= Ring
    BY DEF TypeOK
  <2>2. Since(id) \in Seq(Ids) /\ Len(Since(id)) <= Len(ring)
    BY <1>6, <2>1, SinceTyped
  <2>3. Len(ring) \in Nat /\ Len(Since(id)) \in Nat
    BY <2>1, <2>2, LenProperties
  <2> QED
    BY <2>1, <2>2, <2>3
<1>7. PartsTyped
  BY TypeParts
<1> USE DEF PartsTyped
<1>8. /\ UNCHANGED bus => BusTyped'
      /\ UNCHANGED account => AccountTyped'
      /\ UNCHANGED consumer => ConsumerTyped'
      /\ UNCHANGED told => ToldTyped'
  BY <1>7 DEF BusTyped, bus, AccountTyped, account, ConsumerTyped, consumer, ToldTyped, told
<1>9. /\ UNCHANGED <<at, rights>> => PlaceTyped'
      /\ UNCHANGED <<seen, backlog, inbox>> => QueueTyped'
      /\ UNCHANGED <<lagged, notice>> => NoticeTyped'
  BY <1>7 DEF PlaceTyped, QueueTyped, NoticeTyped
<1>10. Range(ring) \in SUBSET Ids /\ Range(inbox) \in SUBSET Ids
  BY <1>7, RangeOfSeq DEF BusTyped, QueueTyped
<1>11. /\ next \in Nat /\ 1..next \subseteq Ids
       /\ \A p \in Publishers : publishing[p] # Idle => publishing[p].id \in Ids
       /\ Numbered \subseteq Ids /\ Unsent \subseteq Ids
  <2>1. next \in Nat /\ 1..next \subseteq Ids
    BY <1>2, <1>7 DEF BusTyped
  <2>2. ASSUME NEW p \in Publishers, publishing[p].at # "idle" PROVE publishing[p].id \in Ids
    BY <2>1, <2>2 DEF Counted
  <2> QED
    BY <2>1, <2>2 DEF Counted, Numbered, Unsent
<1>12. BusTyped' /\ Lose => lost' \subseteq Ids
  <2>1. BusTyped' => Kept' \subseteq Ids
    BY <1>2 DEF Kept, BusTyped
  <2> QED
    BY <1>7, <2>1 DEF Lose, ToldTyped
<1>13. CASE UNCHANGED vars
  BY <1>7, <1>8, <1>9, <1>13 DEF vars, feed
<1>14. ASSUME NEW p \in Publishers, Publish(p) PROVE PartsTyped'
  <2>1. BusTyped'
    BY <1>7, <1>11, <1>14 DEF Publish, BusTyped
  <2> QED
    BY <1>7, <1>8, <1>9, <1>14, <2>1 DEF Publish, feed
<1>15. ASSUME NEW p \in Publishers, Keep(p) PROVE PartsTyped'
  <2>1. publishing[p].id \in Ids
    BY <1>11, <1>15 DEF Keep, Idle
  <2>2. BusTyped'
    BY <1>5, <1>7, <2>1, <1>15 DEF Keep, BusTyped
  <2>3. ToldTyped'
    BY <1>7, <1>11, <1>12, <2>2, <1>15 DEF Keep, ToldTyped
  <2> QED
    BY <1>7, <1>8, <1>9, <1>15, <2>2, <2>3 DEF Keep, feed
<1>16. ASSUME NEW p \in Publishers, Send(p) PROVE PartsTyped'
  <2>1. publishing[p].id \in Ids
    BY <1>11, <1>16 DEF Send, Idle
  <2>2. BusTyped'
    BY <1>7, <1>16 DEF Send, BusTyped, Idle
  <2>3. ToldTyped'
    BY <1>7, <1>11, <1>12, <2>2, <1>16 DEF Send, ToldTyped
  <2>4. QueueTyped'
    BY <1>5, <1>7, <2>1, <1>16 DEF Send, QueueTyped
  <2>5. NoticeTyped'
    BY <1>7, <1>16 DEF Send, NoticeTyped
  <2> QED
    BY <1>7, <1>8, <1>9, <1>16, <2>2, <2>3, <2>4, <2>5 DEF Send
<1>17. ASSUME NEW to \in {"closed", "ended"}, Drop(to)
       PROVE  PlaceTyped' /\ QueueTyped' /\ NoticeTyped'
  <2>1. PlaceTyped'
    BY <1>17 DEF Drop, PlaceTyped
  <2>2. QueueTyped'
    BY <1>1, <1>17 DEF Drop, QueueTyped
  <2>3. NoticeTyped'
    BY <1>17 DEF Drop, NoticeTyped
  <2> QED
    BY <2>1, <2>2, <2>3
<1>18. CASE Call \/ Subscribe \/ CheckIsDue \/ Reauthorize \/ Ended
  <2>1. PlaceTyped'
    BY <1>7, <1>18 DEF Call, Subscribe, CheckIsDue, Reauthorize, Ended, PlaceTyped, AccountTyped
  <2> QED
    BY <1>7, <1>8, <1>9, <1>18, <2>1 DEF Call, Subscribe, CheckIsDue, Reauthorize, Ended
<1>19. CASE TakeNotice
  BY <1>7, <1>8, <1>9, <1>19 DEF TakeNotice, PlaceTyped, NoticeTyped
<1>20. CASE Start
  <2>1. PlaceTyped'
    BY <1>7, <1>20 DEF Start, PlaceTyped
  <2>2. CASE after = 0
    BY <1>1, <1>7, <1>8, <1>9, <1>20, <2>1, <2>2 DEF Start, QueueTyped, ToldTyped, BusTyped
  <2>3. CASE after # 0
    <3>1. QueueTyped'
      BY <1>6, <1>7, <1>20, <2>3 DEF Start, Replay, QueueTyped, ConsumerTyped
    <3>2. ToldTyped'
      BY <1>7, <1>10, <1>11, <1>20, <2>3 DEF Start, Replay, ToldTyped
    <3> QED
      BY <1>7, <1>8, <1>9, <1>20, <2>1, <3>1, <3>2 DEF Start
  <2> QED
    BY <2>2, <2>3
<1>21. ASSUME NEW i \in Ids, Polled, Frame(i) PROVE wire' \in Seq(Ids) /\ Len(wire') <= WireLen /\ hidden' \subseteq Ids
  BY <1>4, <1>7, <1>21 DEF Frame, Polled, ConsumerTyped, ToldTyped
<1>22. CASE WriteBacklog
  <2>1. QueueTyped'
    BY <1>2, <1>3, <1>7, <1>22 DEF WriteBacklog, QueueTyped, Larger
  <2>2. ConsumerTyped' /\ ToldTyped'
    BY <1>3, <1>7, <1>21, <1>22 DEF WriteBacklog, QueueTyped, ConsumerTyped, ToldTyped
  <2> QED
    BY <1>7, <1>8, <1>9, <1>22, <2>1, <2>2 DEF WriteBacklog
<1>23. CASE Refill
  <2>1. QueueTyped'
    BY <1>6, <1>7, <1>23 DEF Refill, Replay, QueueTyped
  <2>2. ToldTyped'
    BY <1>7, <1>10, <1>11, <1>23 DEF Refill, Replay, ToldTyped
  <2>3. NoticeTyped'
    BY <1>7, <1>23 DEF Refill, NoticeTyped
  <2> QED
    BY <1>7, <1>8, <1>9, <1>23, <2>1, <2>2, <2>3 DEF Refill
<1>24. CASE Receive
  <2>1. QueueTyped'
    BY <1>2, <1>3, <1>7, <1>24 DEF Receive, QueueTyped
  <2>2. ConsumerTyped' /\ ToldTyped'
    BY <1>3, <1>7, <1>21, <1>24 DEF Receive, QueueTyped, ConsumerTyped, ToldTyped
  <2> QED
    BY <1>7, <1>8, <1>9, <1>24, <2>1, <2>2 DEF Receive
<1>25. CASE Refuse \/ Unreadable
  <2>1. PlaceTyped' /\ QueueTyped' /\ NoticeTyped'
    BY <1>17, <1>25 DEF Refuse, Unreadable
  <2>2. BusTyped' /\ Lose
    BY <1>8, <1>25 DEF Refuse, Unreadable
  <2>3. ToldTyped'
    BY <1>7, <1>12, <1>25, <2>2 DEF Refuse, Unreadable, ToldTyped
  <2> QED
    BY <1>7, <1>8, <1>25, <2>1, <2>2, <2>3 DEF Refuse, Unreadable
<1>26. CASE Read
  <2>1. ConsumerTyped'
    <3>1. /\ wire \in Seq(Ids) /\ wire # <<>> /\ Len(wire) <= WireLen
          /\ wire' = Tail(wire) /\ after' = Head(wire)
          /\ got' = got \cup {Head(wire)} /\ twice' = twice \cup (got \cap {Head(wire)})
      BY <1>7, <1>26 DEF Read, ConsumerTyped
    <3>2. wire' \in Seq(Ids) /\ Len(wire') <= WireLen /\ Head(wire) \in Ids
      BY <1>3, <3>1
    <3>3. got' \subseteq Ids /\ twice' \subseteq got'
      BY <1>7, <3>1, <3>2 DEF ConsumerTyped
    <3> QED
      BY <1>2, <3>1, <3>2, <3>3 DEF ConsumerTyped
  <2> QED
    BY <1>7, <1>8, <1>9, <1>26, <2>1 DEF Read, feed
<1>27. CASE Cut
  <2>1. PlaceTyped' /\ QueueTyped' /\ NoticeTyped'
    BY <1>17, <1>27 DEF Cut
  <2>2. BusTyped' /\ Lose
    BY <1>8, <1>27 DEF Cut
  <2>3. ToldTyped'
    BY <1>7, <1>12, <1>27, <2>2 DEF Cut, ToldTyped
  <2>4. ConsumerTyped'
    BY <1>1, <1>7, <1>27 DEF Cut, ConsumerTyped
  <2> QED
    BY <1>7, <1>8, <1>27, <2>1, <2>2, <2>3, <2>4 DEF Cut
<1>28. CASE SwitchOff \/ SwitchOn \/ ChangeChannel
  <2>1. AccountTyped'
    BY <1>7, <1>28 DEF SwitchOff, SwitchOn, ChangeChannel, AccountTyped, Rights
  <2> QED
    BY <1>7, <1>8, <1>9, <1>28, <2>1 DEF SwitchOff, SwitchOn, ChangeChannel, feed
<1>29. CASE Invalidate
  <2>1. AccountTyped'
    BY <1>7, <1>29 DEF Invalidate, AccountTyped
  <2>2. NoticeTyped'
    BY <1>7, <1>29 DEF Invalidate, NoticeTyped
  <2> QED
    BY <1>7, <1>8, <1>9, <1>29, <2>1, <2>2 DEF Invalidate
<1>30. CASE Restart
  <2>1. PlaceTyped' /\ QueueTyped' /\ NoticeTyped'
    BY <1>17, <1>30 DEF Restart
  <2>2. BusTyped'
    BY <1>1, <1>30 DEF Restart, BusTyped, Idle
  <2>3. AccountTyped'
    BY <1>7, <1>30 DEF Restart, AccountTyped
  <2>4. ConsumerTyped' /\ ToldTyped'
    BY <1>1, <1>7, <1>30 DEF Restart, ConsumerTyped, ToldTyped
  <2> QED
    BY <1>7, <1>30, <2>1, <2>2, <2>3, <2>4 DEF Restart
<1> QED
  BY <1>13, <1>14, <1>15, <1>16, <1>18, <1>19, <1>20, <1>22, <1>23, <1>24, <1>25, <1>26,
     <1>27, <1>28, <1>29, <1>30
     DEF Next, Publishing, Opening, Serving, Checking

-----------------------------------------------------------------------------
(* The bus: who has a number, and who has been kept and not sent.              *)

\* Every publisher has a number of its own.
Distinct ==
    /\ publishing \in [Publishers -> [at: {"idle", "numbered", "kept"}, id: 0..MaxId]]
    /\ \A p \in Publishers :
          IF publishing[p].at = "idle" THEN publishing[p] = Idle
                                       ELSE publishing[p].id \in 1..next
    /\ \A p, q \in Publishers : publishing[p].id = publishing[q].id /\ p # q => publishing[p] = Idle

LEMMA Holders ==
  /\ \A x : x \in Numbered <=> \E p \in Publishers : publishing[p].at = "numbered" /\ publishing[p].id = x
  /\ \A x : x \in Unsent <=> \E p \in Publishers : publishing[p].at = "kept" /\ publishing[p].id = x
  /\ \A x : x \in Numbered' <=> \E p \in Publishers : publishing'[p].at = "numbered" /\ publishing'[p].id = x
  /\ \A x : x \in Unsent' <=> \E p \in Publishers : publishing'[p].at = "kept" /\ publishing'[p].id = x
BY DEF Numbered, Unsent

LEMMA Numbers ==
  ASSUME TypeOK, Counted
  PROVE  /\ Distinct
         /\ next \in Nat /\ Kept \subseteq 1..next /\ Numbered \subseteq 1..next
         /\ Unsent \subseteq Kept /\ Kept \cap Numbered = {}
         /\ Kept \subseteq Ids /\ Ids \subseteq Nat
<1>1. Distinct
  BY DEF TypeOK, Counted, Distinct
<1>2. next \in 0..MaxId /\ Ids = 1..MaxId
  BY DEF TypeOK, Ids
<1>3. Numbered \subseteq 1..next /\ Unsent \subseteq 1..next
  BY <1>1, Holders DEF Distinct
<1>4. Unsent \cap Numbered = {}
  BY <1>1, Holders DEF Distinct, Idle
<1> QED
  BY <1>1, <1>2, <1>3, <1>4, FeedConstants DEF Kept

LEMMA PublishNumbers ==
  ASSUME TypeOK, Counted, NEW p \in Publishers, Publish(p)
  PROVE  /\ Distinct' /\ Numbered' = Numbered \cup {next + 1}
         /\ Unsent' = Unsent /\ Kept' = Kept
<1>1. Distinct /\ next \in Nat /\ Numbered \subseteq 1..next
  BY Numbers
<1>2. /\ publishing[p] = Idle /\ next' = next + 1 /\ next + 1 \in 0..MaxId
      /\ publishing' = [publishing EXCEPT ![p] = [at |-> "numbered", id |-> next + 1]]
  BY <1>1, FeedConstants DEF Publish
<1>3. Distinct'
  BY <1>1, <1>2 DEF Distinct, Idle
<1>4. ASSUME NEW q \in Publishers, q # p PROVE publishing'[q] = publishing[q]
  BY <1>2, <1>4 DEF Distinct
<1>5. publishing'[p] = [at |-> "numbered", id |-> next + 1]
  BY <1>1, <1>2 DEF Distinct
<1>6. Numbered' = Numbered \cup {next + 1}
  <2>1. ASSUME NEW x PROVE x \in Numbered' <=> x \in Numbered \cup {next + 1}
    BY <1>2, <1>4, <1>5, Holders DEF Idle
  <2> QED
    BY <2>1
<1>7. Unsent' = Unsent
  <2>1. ASSUME NEW x PROVE x \in Unsent' <=> x \in Unsent
    BY <1>2, <1>4, <1>5, Holders DEF Idle
  <2> QED
    BY <2>1
<1>8. Kept' = Kept
  BY <1>1, <1>2, <1>6 DEF Kept
<1> QED
  BY <1>3, <1>6, <1>7, <1>8

LEMMA KeepNumbers ==
  ASSUME TypeOK, Counted, NEW p \in Publishers, Keep(p)
  PROVE  LET x == publishing[p].id IN
         /\ Distinct' /\ x \in Numbered /\ x \notin Kept /\ x \in Ids
         /\ Numbered' = Numbered \ {x} /\ Unsent' = Unsent \cup {x} /\ Kept' = Kept \cup {x}
<1> DEFINE x == publishing[p].id
<1>1. /\ Distinct /\ next \in Nat /\ next <= MaxId /\ Numbered \subseteq 1..next
      /\ Kept \cap Numbered = {} /\ Unsent \subseteq Kept
  BY Numbers DEF TypeOK
<1>2. /\ publishing[p].at = "numbered" /\ next' = next
      /\ publishing' = [publishing EXCEPT ![p].at = "kept"]
  BY DEF Keep
<1>3. x \in Numbered
  BY <1>2, Holders
<1>4. ASSUME NEW q \in Publishers, q # p PROVE publishing'[q] = publishing[q] /\ publishing[q].id # x
  BY <1>1, <1>2, <1>4 DEF Distinct, Idle
<1>5. publishing'[p] = [at |-> "kept", id |-> x]
  BY <1>1, <1>2 DEF Distinct
<1>6. Distinct'
  <2>1. publishing' \in [Publishers -> [at: {"idle", "numbered", "kept"}, id: 0..MaxId]]
    BY <1>1, <1>2 DEF Distinct
  <2> QED
    BY <1>1, <1>2, <1>4, <1>5, <2>1 DEF Distinct, Idle
<1>7. Numbered' = Numbered \ {x}
  <2>1. ASSUME NEW y PROVE y \in Numbered' <=> y \in Numbered \ {x}
    BY <1>2, <1>4, <1>5, Holders
  <2> QED
    BY <2>1
<1>8. Unsent' = Unsent \cup {x}
  <2>1. ASSUME NEW y PROVE y \in Unsent' <=> y \in Unsent \cup {x}
    BY <1>2, <1>4, <1>5, Holders
  <2> QED
    BY <2>1
<1>9. Kept' = Kept \cup {x}
  BY <1>1, <1>2, <1>3, <1>7 DEF Kept
<1>10. x \in Ids
  <2>1. x \in 1..next
    BY <1>1, <1>3
  <2> HIDE DEF x
  <2> QED
    BY <1>1, <2>1, FeedConstants DEF Ids
<1> QED
  BY <1>1, <1>3, <1>6, <1>7, <1>8, <1>9, <1>10

LEMMA SendNumbers ==
  ASSUME TypeOK, Counted, NEW p \in Publishers, Send(p)
  PROVE  LET x == publishing[p].id IN
         /\ Distinct' /\ x \in Unsent /\ x \in Kept /\ x \in Ids
         /\ Numbered' = Numbered /\ Unsent' = Unsent \ {x} /\ Kept' = Kept
<1> DEFINE x == publishing[p].id
<1>1. /\ Distinct /\ next \in Nat /\ Unsent \subseteq Kept /\ Kept \subseteq Ids
  BY Numbers
<1>2. /\ publishing[p].at = "kept" /\ next' = next
      /\ publishing' = [publishing EXCEPT ![p] = Idle]
  BY DEF Send
<1>3. x \in Unsent
  BY <1>2, Holders
<1>4. ASSUME NEW q \in Publishers, q # p PROVE publishing'[q] = publishing[q] /\ publishing[q].id # x
  BY <1>1, <1>2, <1>4 DEF Distinct, Idle
<1>5. publishing'[p] = Idle
  BY <1>1, <1>2 DEF Distinct
<1>6. Distinct'
  <2>1. publishing' \in [Publishers -> [at: {"idle", "numbered", "kept"}, id: 0..MaxId]]
    BY <1>1, <1>2, FeedConstants DEF Distinct, Idle
  <2>2. ASSUME NEW q \in Publishers, q # p, publishing'[q].id = 0 PROVE publishing'[q] = Idle
    BY <1>1, <1>4, <2>2 DEF Distinct
  <2> QED
    BY <1>1, <1>2, <1>4, <1>5, <2>1, <2>2 DEF Distinct, Idle
<1>7. Numbered' = Numbered
  <2>1. ASSUME NEW y PROVE y \in Numbered' <=> y \in Numbered
    BY <1>2, <1>4, <1>5, Holders DEF Idle
  <2> QED
    BY <2>1
<1>8. Unsent' = Unsent \ {x}
  <2>1. ASSUME NEW y PROVE y \in Unsent' <=> y \in Unsent \ {x}
    BY <1>2, <1>4, <1>5, Holders DEF Idle
  <2> QED
    BY <2>1
<1>9. Kept' = Kept
  BY <1>2, <1>7 DEF Kept
<1> QED
  BY <1>1, <1>3, <1>6, <1>7, <1>8, <1>9

-----------------------------------------------------------------------------
(* Steps that move nothing.                                                   *)

\* What the invariant says beside the types.
Parts ==
    /\ Counted /\ Overtaking /\ Placed /\ Ordered
    /\ Behind /\ NothingTwice /\ Ahead /\ NothingSkipped

LEMMA IInvParts == (IInv <=> TypeOK /\ Parts) /\ (IInv' <=> TypeOK' /\ Parts')
BY DEF IInv, Parts

LEMMA CountedParts ==
  /\ Counted => /\ Range(ring) \cup Range(backlog) \cup Range(wire) \cup got \subseteq Kept
                /\ Range(inbox) \subseteq Kept \ Unsent
                /\ after <= floor \/ after \in Kept
  /\ /\ Distinct'
     /\ Range(ring') \cup Range(backlog') \cup Range(wire') \cup got' \subseteq Kept'
     /\ Range(inbox') \subseteq Kept' \ Unsent'
     /\ after' <= floor' \/ after' \in Kept'
     => Counted'
BY DEF Counted, Distinct

LEMMA Aside ==
  ASSUME IInv, Distinct', Kept' = Kept, Unsent' = Unsent, Overtaking',
         UNCHANGED <<ring, seen, backlog, inbox, lagged, wire, after, got, twice,
                     hidden, overtaken, lost, floor>>,
         at' \in {"open", "checking"} => at \in {"open", "checking"},
         at' \in {"closed", "called", "subscribed"} => wire = <<>>,
         at' # "open" => backlog = <<>>
  PROVE  Parts'
<1> USE DEF IInv
<1>1. Counted'
  BY CountedParts
<1>2. Placed'
  BY DEF Placed
<1>3. Ordered'
  BY DEF Ordered
<1>4. Behind'
  BY DEF Behind
<1>5. NothingTwice'
  BY DEF NothingTwice
<1>6. InReach' = InReach
  BY DEF InReach
<1>7. ASSUME NEW i PROVE Missing(i)' <=> Missing(i)
  BY DEF Missing
<1>8. ASSUME NEW i, ToCome(i) PROVE ToCome(i)'
  BY <1>8 DEF ToCome
<1>9. Ahead'
  BY <1>7, <1>8 DEF Ahead
<1>10. NothingSkipped'
  BY <1>6 DEF NothingSkipped
<1> QED
  BY <1>1, <1>2, <1>3, <1>4, <1>5, <1>9, <1>10 DEF Parts

(* A publisher takes a number, which is later than all.                         *)
LEMMA PublishKeeps ==
  ASSUME IInv, NEW p \in Publishers, Publish(p)
  PROVE  Parts'
<1>1. TypeOK /\ Counted /\ Overtaking /\ Placed
  BY DEF IInv
<1>2. /\ Distinct' /\ Numbered' = Numbered \cup {next + 1}
      /\ Unsent' = Unsent /\ Kept' = Kept
  BY <1>1, PublishNumbers
<1>3. Kept \subseteq 1..next /\ next \in Nat
  BY <1>1, Numbers
<1>4. /\ UNCHANGED <<ring, seen, backlog, inbox, lagged, wire, after, got, twice,
                     hidden, overtaken, lost, floor>>
      /\ at' = at
  BY DEF Publish, feed, consumer, told
<1>5. Overtaking'
  BY <1>1, <1>2, <1>3, <1>4 DEF Overtaking
<1> QED
  BY <1>1, <1>2, <1>4, <1>5, Aside DEF Placed

(* Everything else that neither publishes, moves nor drops an event.             *)
LEMMA AsideKeeps ==
  ASSUME IInv,
         \/ UNCHANGED vars
         \/ Call \/ Subscribe \/ CheckIsDue \/ TakeNotice \/ Reauthorize \/ Ended
         \/ SwitchOff \/ Invalidate \/ SwitchOn \/ ChangeChannel
  PROVE  Parts'
<1>1. TypeOK /\ Counted /\ Overtaking /\ Placed
  BY DEF IInv
<1>2. /\ UNCHANGED <<next, publishing, ring, seen, backlog, inbox, lagged, wire, after, got,
                     twice, hidden, overtaken, lost, floor>>
      /\ at' \in {"open", "checking"} => at \in {"open", "checking"}
      /\ at' \in {"closed", "called", "subscribed"} => wire = <<>>
      /\ at' # "open" => backlog = <<>>
  <2>1. UNCHANGED <<next, publishing, ring, seen, backlog, inbox, lagged, wire, after, got,
                    twice, hidden, overtaken, lost, floor>>
    BY DEF vars, Call, Subscribe, CheckIsDue, TakeNotice, Reauthorize, Ended, SwitchOff,
           Invalidate, SwitchOn, ChangeChannel, bus, feed, consumer, told
  <2>2. CASE at' = at
    BY <1>1, <2>1, <2>2 DEF Placed
  <2>3. CASE Call \/ Subscribe \/ Ended
    BY <1>1, <2>1, <2>3 DEF Call, Subscribe, Ended, Placed
  <2>4. CASE CheckIsDue \/ TakeNotice \/ Reauthorize
    BY <1>1, <2>1, <2>4 DEF CheckIsDue, TakeNotice, Reauthorize, Placed, Polled
  <2>5. CASE UNCHANGED vars \/ SwitchOff \/ Invalidate \/ SwitchOn \/ ChangeChannel
    BY <2>2, <2>5 DEF vars, SwitchOff, Invalidate, SwitchOn, ChangeChannel, feed
  <2> QED
    BY <2>1, <2>3, <2>4, <2>5
<1>3. Numbered' = Numbered /\ Unsent' = Unsent
  BY <1>2 DEF Numbered, Unsent
<1>4. Kept' = Kept
  BY <1>2, <1>3 DEF Kept
<1>5. Distinct' /\ Overtaking'
  <2>1. Distinct
    BY <1>1, Numbers
  <2> QED
    BY <1>1, <1>2, <1>3, <1>4, <2>1 DEF Distinct, Overtaking
<1> QED
  BY <1>2, <1>3, <1>4, <1>5, Aside

-----------------------------------------------------------------------------
(* Keeping and sending.                                                       *)

(* What is owed is a kept event that is after the consumer's number, wherever    *)
(* it is, or was given up by the step.                                         *)
LEMMA GivenUp ==
  ASSUME Lose, UNCHANGED got
  PROVE  \A i : Missing(i)' => i \in InReach'
BY DEF Lose, Missing

(* An event that is kept is the last of all, or one is overtaken.                *)
LEMMA KeepKeeps ==
  ASSUME IInv, TypeOK', NEW p \in Publishers, Keep(p)
  PROVE  Parts'
<1> DEFINE x == publishing[p].id
<1>1. TypeOK /\ Counted /\ Overtaking /\ Placed /\ Ordered /\ Behind /\ NothingTwice /\ Ahead
      /\ NothingSkipped
  BY DEF IInv
<1>2. /\ Distinct' /\ x \in Numbered /\ x \notin Kept /\ x \in Ids
      /\ Numbered' = Numbered \ {x} /\ Unsent' = Unsent \cup {x} /\ Kept' = Kept \cup {x}
  BY <1>1, KeepNumbers
<1>3. /\ Kept \subseteq Ids /\ Ids \subseteq Nat /\ Unsent \subseteq Kept /\ Kept \cap Numbered = {}
      /\ Numbered \subseteq 1..next /\ next \in Nat
  BY <1>1, Numbers
<1>4. /\ ring' = Latest(Ring, Append(ring, x))
      /\ overtaken' = overtaken \cup {i \in Numbered : i < x}
      /\ UNCHANGED <<at, seen, backlog, inbox, lagged, wire, after, got, twice, hidden, floor>>
      /\ Lose
  BY DEF Keep, feed, consumer
<1> HIDE DEF x
<1>5. overtaken \subseteq overtaken'
  BY <1>4
<1>6. ASSUME NEW y \in Kept PROVE Before(y, x, overtaken') /\ (x \notin overtaken' => y < x)
  <2>1. y \in Nat /\ x \in Nat /\ y # x
    BY <1>2, <1>3
  <2>2. CASE y < x
    BY <2>2 DEF Before
  <2>3. CASE x < y
    <3>1. x \in overtaken'
      BY <1>1, <1>2, <1>5, <2>3 DEF Overtaking
    <3>2. ~ Clean(y, overtaken')
      BY <3>1, <2>1, <2>3 DEF Clean
    <3> QED
      BY <3>1, <3>2 DEF Before
  <2> QED
    BY <2>1, <2>2, <2>3
<1>7. /\ ring \in Seq(Ids) /\ Len(ring) <= Ring /\ Ring \in Nat \ {0}
      /\ Range(ring) \cup Range(backlog) \cup Range(wire) \cup got \subseteq Kept
      /\ Range(inbox) \subseteq Kept \ Unsent
      /\ after <= floor \/ after \in Kept
  BY <1>1, CountedParts, FeedConstants DEF TypeOK
<1>8. InOrder(ring, overtaken')
  BY <1>1, <1>5, Laxer DEF Ordered
<1>9. /\ x \in Range(ring') /\ Range(ring') \subseteq Range(ring) \cup {x}
      /\ InOrder(ring', overtaken')
  <2>1. \A y \in Range(ring) : Before(y, x, overtaken')
    BY <1>6, <1>7
  <2>2. /\ x \in Range(Latest(Ring, Append(ring, x)))
        /\ Range(Latest(Ring, Append(ring, x))) \subseteq Range(ring) \cup {x}
        /\ \A O : InOrder(ring, O) /\ (\A y \in Range(ring) : Before(y, x, O))
                  => InOrder(Latest(Ring, Append(ring, x)), O)
    BY <1>2, <1>7, LatestKeeps
  <2> QED
    BY <1>4, <1>8, <2>1, <2>2
<1>10. Counted'
  BY <1>2, <1>4, <1>7, <1>9, CountedParts
<1>11. Overtaking'
  <2>1. ASSUME NEW y \in Numbered', NEW z \in Kept', y < z PROVE y \in overtaken'
    BY <1>1, <1>2, <1>4, <2>1 DEF Overtaking
  <2>2. ASSUME NEW y \in Unsent', NEW z \in Kept' \ Unsent', y < z PROVE y \in overtaken'
    BY <1>1, <1>2, <1>4, <2>2 DEF Overtaking
  <2> QED
    BY <2>1, <2>2 DEF Overtaking
<1>12. Placed'
  BY <1>1, <1>2, <1>4 DEF Placed
<1>13. Ordered'
  <2>1. /\ InOrder(backlog, overtaken') /\ InOrder(inbox, overtaken') /\ InOrder(wire, overtaken')
        /\ \A w \in Range(wire), b \in Range(backlog) : Before(w, b, overtaken')
    BY <1>1, <1>5, Laxer DEF Ordered
  <2> QED
    BY <1>1, <1>4, <1>5, <1>9, <2>1 DEF Ordered
<1>14. Behind'
  BY <1>1, <1>4, <1>5, Laxer DEF Behind
<1>15. NothingTwice'
  BY <1>1, <1>4, <1>5 DEF NothingTwice
<1>16. ASSUME NEW i, Missing(i)' PROVE i > after /\ (i \in Range(wire') \/ ToCome(i)')
  <2>1. CASE i = x
    <3>1. i \notin overtaken' /\ i > floor /\ i \in Nat
      BY <1>2, <1>3, <1>4, <1>16, <2>1 DEF Missing
    <3>2. \A y \in Kept : y < i
      BY <1>6, <2>1, <3>1
    <3>3. after < i
      <4>1. after \in Nat /\ floor \in Nat
        BY <1>1, FeedConstants DEF TypeOK
      <4> QED
        BY <1>7, <3>1, <3>2, <4>1
    <3>4. at \in {"open", "checking"} => seen < i
      <4>1. seen \in Nat /\ floor \in Nat
        BY <1>1, FeedConstants DEF TypeOK
      <4> QED
        BY <1>1, <3>1, <3>2, <4>1 DEF Placed
    <3>5. i \in Unsent'
      BY <1>2, <2>1
    <3>6. ToCome(i)'
      BY <1>4, <1>7, <3>2, <3>4, <3>5 DEF ToCome
    <3> QED
      BY <3>3, <3>6
  <2>2. CASE i # x
    <3>1. Missing(i) /\ i \in Kept
      BY <1>2, <1>4, <1>5, <1>16, <2>2 DEF Missing, Lose
    <3>2. ToCome(i) => ToCome(i)'
      BY <1>2, <1>4 DEF ToCome
    <3>3. i > after
      BY <1>1, <3>1 DEF NothingSkipped, Missing
    <3> QED
      BY <1>1, <1>4, <3>1, <3>2, <3>3 DEF Ahead
  <2> QED
    BY <2>1, <2>2
<1>17. Ahead'
  BY <1>16 DEF Ahead
<1>18. NothingSkipped'
  BY <1>4, <1>16, GivenUp DEF NothingSkipped, Missing
<1> QED
  BY <1>10, <1>11, <1>12, <1>13, <1>14, <1>15, <1>17, <1>18 DEF Parts

(* An event that is sent is the last in the receiver, or one is overtaken; a       *)
(* receiver that loses one says that it lagged.                                *)
LEMMA SendKeeps ==
  ASSUME IInv, TypeOK', NEW p \in Publishers, Send(p)
  PROVE  Parts'
<1> DEFINE x == publishing[p].id
<1>1. TypeOK /\ Counted /\ Overtaking /\ Placed /\ Ordered /\ Behind /\ NothingTwice /\ Ahead
      /\ NothingSkipped
  BY DEF IInv
<1>2. /\ Distinct' /\ x \in Unsent /\ x \in Kept /\ x \in Ids
      /\ Numbered' = Numbered /\ Unsent' = Unsent \ {x} /\ Kept' = Kept
  BY <1>1, SendNumbers
<1>3. /\ Kept \subseteq Ids /\ Ids \subseteq Nat /\ Unsent \subseteq Kept
  BY <1>1, Numbers
<1>4. /\ IF at \in {"subscribed", "open", "checking"}
         THEN /\ inbox' = Latest(Ring, Append(inbox, x))
              /\ lagged' = (lagged \/ Len(inbox) = Ring)
         ELSE UNCHANGED <<inbox, lagged>>
      /\ overtaken' = overtaken \cup {i \in Numbered \cup Unsent : i < x}
      /\ UNCHANGED <<at, ring, seen, backlog, wire, after, got, twice, hidden, floor>>
      /\ Lose
  BY DEF Send, consumer
<1> HIDE DEF x
<1>5. overtaken \subseteq overtaken'
  BY <1>4
<1>6. ASSUME NEW y \in Kept \ Unsent PROVE Before(y, x, overtaken')
  <2>1. y \in Nat /\ x \in Nat /\ y # x
    BY <1>2, <1>3
  <2>2. CASE y < x
    BY <2>2 DEF Before
  <2>3. CASE x < y
    <3>1. x \in overtaken'
      BY <1>1, <1>2, <1>5, <2>3 DEF Overtaking
    <3>2. ~ Clean(y, overtaken')
      BY <3>1, <2>1, <2>3 DEF Clean
    <3> QED
      BY <3>1, <3>2 DEF Before
  <2> QED
    BY <2>1, <2>2, <2>3
<1>7. /\ inbox \in Seq(Ids) /\ Len(inbox) <= Ring /\ Ring \in Nat \ {0}
      /\ Range(ring) \cup Range(backlog) \cup Range(wire) \cup got \subseteq Kept
      /\ Range(inbox) \subseteq Kept \ Unsent
      /\ after <= floor \/ after \in Kept
      /\ Len(inbox) \in Nat
  BY <1>1, CountedParts, FeedConstants, LenProperties DEF TypeOK
<1>8. /\ InOrder(ring, overtaken') /\ InOrder(backlog, overtaken')
      /\ InOrder(inbox, overtaken') /\ InOrder(wire, overtaken')
      /\ \A w \in Range(wire), b \in Range(backlog) : Before(w, b, overtaken')
  BY <1>1, <1>5, Laxer DEF Ordered
<1>9. /\ Range(inbox') \subseteq Range(inbox) \cup {x}
      /\ InOrder(inbox', overtaken')
      /\ at \in {"subscribed", "open", "checking"} =>
            /\ x \in Range(inbox') /\ (lagged => lagged')
            /\ ~lagged' => Range(inbox) \subseteq Range(inbox')
  <2>1. \A y \in Range(inbox) : Before(y, x, overtaken')
    BY <1>6, <1>7
  <2>2. /\ x \in Range(Latest(Ring, Append(inbox, x)))
        /\ Range(Latest(Ring, Append(inbox, x))) \subseteq Range(inbox) \cup {x}
        /\ Len(inbox) < Ring => Range(inbox) \subseteq Range(Latest(Ring, Append(inbox, x)))
        /\ \A O : InOrder(inbox, O) /\ (\A y \in Range(inbox) : Before(y, x, O))
                  => InOrder(Latest(Ring, Append(inbox, x)), O)
    BY <1>2, <1>7, LatestKeeps
  <2>3. CASE at \in {"subscribed", "open", "checking"}
    <3>1. inbox' = Latest(Ring, Append(inbox, x)) /\ (lagged => lagged')
      BY <1>4, <2>3
    <3>2. ~lagged' => Len(inbox) < Ring
      <4>1. lagged' = (lagged \/ Len(inbox) = Ring)
        BY <1>4, <2>3
      <4>2. ~lagged' => Len(inbox) # Ring
        BY <4>1, Zenon
      <4> QED
        BY <1>7, <4>2
    <3> QED
      BY <1>8, <2>1, <2>2, <3>1, <3>2
  <2>4. CASE at \notin {"subscribed", "open", "checking"}
    BY <1>4, <1>8, <2>4
  <2> QED
    BY <2>3, <2>4
<1>10. Counted'
  BY <1>2, <1>4, <1>7, <1>9, CountedParts
<1>11. Overtaking'
  <2>1. ASSUME NEW y \in Numbered', NEW z \in Kept', y < z PROVE y \in overtaken'
    BY <1>1, <1>2, <1>5, <2>1 DEF Overtaking
  <2>2. ASSUME NEW y \in Unsent', NEW z \in Kept' \ Unsent', y < z PROVE y \in overtaken'
    BY <1>1, <1>2, <1>4, <2>2 DEF Overtaking
  <2> QED
    BY <2>1, <2>2 DEF Overtaking
<1>12. Placed'
  BY <1>1, <1>2, <1>4 DEF Placed
<1>13. Ordered'
  BY <1>1, <1>4, <1>5, <1>8, <1>9 DEF Ordered
<1>14. Behind'
  BY <1>1, <1>4, <1>5, Laxer DEF Behind
<1>15. NothingTwice'
  BY <1>1, <1>4, <1>5 DEF NothingTwice
<1>16. ASSUME NEW i, Missing(i)' PROVE i > after /\ (i \in Range(wire') \/ ToCome(i)')
  <2>1. Missing(i) /\ i \in Kept
    BY <1>2, <1>4, <1>5, <1>16 DEF Missing, Lose
  <2>2. i > after
    BY <1>1, <2>1 DEF NothingSkipped, Missing
  <2>3. ASSUME ToCome(i), at \in {"open", "checking"}, lagged \/ i \in Range(inbox) \cup Unsent
        PROVE  lagged' \/ i \in Range(inbox') \cup Unsent'
    BY <1>2, <1>9, <2>3
  <2>4. ToCome(i) => ToCome(i)'
    BY <1>4, <2>3 DEF ToCome
  <2> QED
    BY <1>1, <1>4, <2>1, <2>2, <2>4 DEF Ahead
<1>17. Ahead'
  BY <1>16 DEF Ahead
<1>18. NothingSkipped'
  BY <1>4, <1>16, GivenUp DEF NothingSkipped, Missing
<1> QED
  BY <1>10, <1>11, <1>12, <1>13, <1>14, <1>15, <1>17, <1>18 DEF Parts

-----------------------------------------------------------------------------
(* The end of a feed, and of the process.                                      *)

\* A step that leaves the bus alone leaves alone who is kept and sent.
LEMMA BusAlone ==
  ASSUME TypeOK, Counted, Overtaking, UNCHANGED <<next, publishing, overtaken>>
  PROVE  Distinct' /\ Numbered' = Numbered /\ Unsent' = Unsent /\ Kept' = Kept /\ Overtaking'
<1>1. Distinct
  BY Numbers
<1>2. Numbered' = Numbered /\ Unsent' = Unsent
  BY DEF Numbered, Unsent
<1>3. Kept' = Kept
  BY <1>2 DEF Kept
<1> QED
  BY <1>1, <1>2, <1>3 DEF Distinct, Overtaking

(* With a feed goes what it held, and what only it held is lost.                 *)
LEMMA DropKeeps ==
  ASSUME IInv, TypeOK', Refuse \/ Unreadable \/ Cut
  PROVE  Parts'
<1>1. TypeOK /\ Counted /\ Overtaking /\ Placed /\ Ordered /\ Behind /\ NothingTwice /\ Ahead
      /\ NothingSkipped
  BY DEF IInv
<1>2. /\ UNCHANGED <<next, publishing, ring, after, got, twice, hidden, overtaken, floor>>
      /\ at' \in {"closed", "ended"} /\ backlog' = <<>> /\ inbox' = <<>>
      /\ wire' = wire \/ wire' = <<>>
      /\ at' = "closed" => wire' = <<>>
      /\ Lose
  BY DEF Refuse, Unreadable, Cut, Drop, bus, consumer
<1>3. Distinct' /\ Numbered' = Numbered /\ Unsent' = Unsent /\ Kept' = Kept /\ Overtaking'
  BY <1>1, <1>2, BusAlone
<1>4. Range(<<>>) = {} /\ InOrder(<<>>, overtaken)
  BY EmptySeq DEF Range, InOrder
<1>5. Range(wire') \subseteq Range(wire) /\ InOrder(wire', overtaken)
  BY <1>1, <1>2, <1>4 DEF Ordered
<1>6. Counted'
  <2>1. /\ Range(ring) \cup Range(backlog) \cup Range(wire) \cup got \subseteq Kept
        /\ after <= floor \/ after \in Kept
    BY <1>1, CountedParts
  <2> QED
    BY <1>2, <1>3, <1>4, <1>5, <2>1, CountedParts
<1>7. Placed'
  BY <1>2 DEF Placed
<1>8. Ordered'
  BY <1>1, <1>2, <1>4, <1>5 DEF Ordered
<1>9. Behind'
  BY <1>1, <1>2, <1>4, <1>5 DEF Behind
<1>10. NothingTwice'
  BY <1>1, <1>2 DEF NothingTwice
<1>11. ASSUME NEW i, Missing(i)' PROVE i > after /\ (i \in Range(wire') \/ ToCome(i)')
  <2>1. Missing(i) /\ i \in Kept
    BY <1>2, <1>3, <1>11 DEF Missing, Lose
  <2>2. i > after
    BY <1>1, <2>1 DEF NothingSkipped, Missing
  <2>3. i \in Range(wire) \/ \A w \in Range(wire) : w < i
    BY <1>1, <2>1 DEF Ahead, ToCome
  <2>4. i \in Range(wire') \/ \A w \in Range(wire') : w < i
    BY <1>2, <1>4, <2>3
  <2> QED
    BY <1>2, <2>2, <2>4 DEF ToCome
<1>12. Ahead'
  BY <1>11 DEF Ahead
<1>13. NothingSkipped'
  BY <1>2, <1>11, GivenUp DEF NothingSkipped, Missing
<1> QED
  BY <1>3, <1>6, <1>7, <1>8, <1>9, <1>10, <1>12, <1>13 DEF Parts

(* The numbers begin again, and what the consumer is owed with them.             *)
LEMMA RestartKeeps ==
  ASSUME IInv, TypeOK', Restart
  PROVE  Parts'
<1>1. /\ next' = 0 /\ publishing' = [p \in Publishers |-> Idle] /\ ring' = <<>>
      /\ at' = "closed" /\ seen' = 0 /\ backlog' = <<>> /\ inbox' = <<>> /\ wire' = <<>>
      /\ got' = {} /\ twice' = {} /\ hidden' = {} /\ overtaken' = {} /\ lost' = {}
      /\ floor' = after /\ after' = after
  BY DEF Restart, Drop
<1>2. Range(<<>>) = {} /\ \A O : InOrder(<<>>, O)
  BY EmptySeq DEF Range, InOrder
<1>3. Numbered' = {} /\ Unsent' = {} /\ Kept' = {}
  <2>1. Numbered' = {} /\ Unsent' = {}
    BY <1>1, Holders DEF Idle
  <2> QED
    BY <1>1, <2>1 DEF Kept
<1>4. Distinct'
  BY <1>1, FeedConstants DEF Distinct, Idle
<1>5. after <= after
  BY FeedConstants DEF IInv, TypeOK
<1>6. Counted'
  BY <1>1, <1>2, <1>3, <1>4, <1>5, CountedParts
<1> QED
  BY <1>1, <1>2, <1>3, <1>6
     DEF Parts, Overtaking, Placed, Ordered, Behind, NothingTwice, Ahead, NothingSkipped

-----------------------------------------------------------------------------
(* A replay.                                                                  *)

(* A replay holds all that is owed after its number and in the ring, and what is   *)
(* owed and not in it is later than all of it.                                 *)
LEMMA ReplayKeeps ==
  ASSUME IInv, TypeOK', NEW id \in 0..MaxId, Replay(id), backlog = <<>>,
         seen' = id, at' = "open",
         UNCHANGED <<next, publishing, ring, inbox, wire, after, got, twice,
                     hidden, overtaken, floor>>,
         id <= floor \/ id \in Kept,
         \A w \in Range(wire) : w <= id,
         \A i \in got : Clean(i, overtaken) => i <= id,
         \A i : Missing(i) => i \in Range(wire) \/ id < i
  PROVE  Parts'
<1>1. TypeOK /\ Counted /\ Overtaking /\ Placed /\ Ordered /\ Behind /\ NothingTwice /\ Ahead
      /\ NothingSkipped
  BY DEF IInv
<1>2. Distinct' /\ Numbered' = Numbered /\ Unsent' = Unsent /\ Kept' = Kept /\ Overtaking'
  BY <1>1, BusAlone
<1>3. /\ Range(ring) \cup Range(wire) \cup got \subseteq Kept
      /\ Range(inbox) \subseteq Kept \ Unsent
      /\ after <= floor \/ after \in Kept
      /\ Kept \subseteq Ids /\ Ids \subseteq Nat /\ id \in Nat
  BY <1>1, CountedParts, Numbers, FeedConstants
<1>4. /\ InOrder(backlog', overtaken)
      /\ \A i : i \in Range(backlog') <=> i \in Range(ring) /\ i > id
      /\ lost' = lost \cup {i \in (Unsent \cup Range(inbox)) \ Range(ring) :
                              i > id /\ \E j \in Range(backlog') : j > i}
  <2>1. ring \in Seq(Ids) /\ InOrder(ring, overtaken) /\ id \in Nat
    BY <1>1, <1>3 DEF Ordered, TypeOK
  <2> QED
    BY <2>1, SinceSelects DEF Replay
<1>5. Range(backlog) = {}
  BY DEF Range
<1>6. Counted'
  BY <1>2, <1>3, <1>4, CountedParts
<1>7. Placed'
  BY <1>2 DEF Placed
<1>8. Ordered'
  <2>1. ASSUME NEW w \in Range(wire), NEW b \in Range(backlog') PROVE Before(w, b, overtaken)
    <3>1. w \in Nat /\ b \in Nat /\ w <= id /\ id < b
      BY <1>3, <1>4
    <3> QED
      BY <1>3, <3>1 DEF Before
  <2> QED
    BY <1>1, <1>4, <2>1 DEF Ordered
<1>9. Behind'
  <2>1. ASSUME NEW i \in got, Clean(i, overtaken), NEW b \in Range(backlog') PROVE i < b
    <3>1. i \in Nat /\ b \in Nat /\ i <= id /\ id < b
      BY <1>3, <1>4, <2>1
    <3> QED
      BY <1>3, <3>1
  <2> QED
    BY <1>1, <2>1 DEF Behind
<1>10. NothingTwice'
  BY <1>1 DEF NothingTwice
<1>11. \A i : Missing(i)' => Missing(i)
  BY <1>2, <1>4 DEF Missing
<1>12. ASSUME NEW i, Missing(i)', i \notin Range(wire) PROVE ToCome(i)'
  <2>1. Missing(i) /\ i \in Kept /\ i \in Nat /\ id < i
    BY <1>3, <1>11, <1>12 DEF Missing
  <2>2. i \in Range(ring) \cup Unsent \cup Range(inbox)
    BY <1>1, <1>5, <1>12, <2>1 DEF NothingSkipped, Missing, InReach
  <2>3. \A w \in Range(wire) : w < i
    <3>1. ASSUME NEW w \in Range(wire) PROVE w < i
      <4>1. w \in Nat /\ w <= id
        BY <1>3
      <4> QED
        BY <1>3, <2>1, <4>1
    <3> QED
      BY <3>1
  <2>4. CASE i \in Range(ring)
    BY <1>4, <2>1, <2>3, <2>4 DEF ToCome
  <2>5. CASE i \notin Range(ring)
    <3>1. i \notin lost'
      BY <1>12 DEF Missing
    <3>2. ASSUME NEW b \in Range(backlog') PROVE b < i
      <4>1. ~(b > i) /\ b \in Nat /\ b # i
        BY <1>3, <1>4, <2>1, <2>2, <2>5, <3>1
      <4> QED
        BY <2>1, <4>1
    <3> QED
      BY <1>2, <2>1, <2>2, <2>3, <2>5, <3>2 DEF ToCome
  <2> QED
    BY <2>4, <2>5
<1>13. Ahead'
  BY <1>12 DEF Ahead
<1>14. InReach \subseteq InReach'
  BY <1>2, <1>5 DEF InReach
<1>15. NothingSkipped'
  <2>1. ASSUME NEW i, Missing(i)' PROVE i > after /\ i \in InReach'
    BY <1>1, <1>11, <1>14, <2>1 DEF NothingSkipped, Missing
  <2> QED
    BY <2>1 DEF NothingSkipped, Missing
<1> QED
  BY <1>2, <1>6, <1>7, <1>8, <1>9, <1>10, <1>13, <1>15 DEF Parts

LEMMA StartKeeps ==
  ASSUME IInv, TypeOK', Start
  PROVE  Parts'
<1>1. TypeOK /\ Counted /\ Overtaking /\ Placed /\ Ordered /\ Behind /\ NothingTwice /\ Ahead
      /\ NothingSkipped
  BY DEF IInv
<1>2. /\ at = "subscribed" /\ at' = "open" /\ wire = <<>> /\ backlog = <<>> /\ Range(<<>>) = {}
      /\ UNCHANGED <<next, publishing, ring, inbox, wire, after, got, twice,
                     hidden, overtaken, lagged>>
  BY <1>1 DEF Start, Placed, bus, consumer, Range
<1>3. CASE after # 0
  <2>1. seen' = after /\ Replay(after) /\ floor' = floor /\ after \in 0..MaxId
    BY <1>1, <1>3 DEF Start, TypeOK
  <2>2. after <= floor \/ after \in Kept
    BY <1>1, CountedParts
  <2>3. \A i \in got : Clean(i, overtaken) => i <= after
    BY <1>1 DEF Behind
  <2>4. \A i : Missing(i) => after < i
    BY <1>1 DEF NothingSkipped, Missing
  <2> QED
    BY <1>2, <2>1, <2>2, <2>3, <2>4, ReplayKeeps
<1>4. CASE after = 0
  <2>1. seen' = next /\ backlog' = <<>> /\ floor' = next /\ lost' = lost
    BY <1>4 DEF Start
  <2>2. Distinct' /\ Numbered' = Numbered /\ Unsent' = Unsent /\ Kept' = Kept /\ Overtaking'
    BY <1>1, <1>2, BusAlone
  <2>3. /\ Range(ring) \cup got \subseteq Kept /\ Range(inbox) \subseteq Kept \ Unsent
        /\ Kept \subseteq 1..next /\ next \in Nat
    BY <1>1, CountedParts, Numbers
  <2>4. Counted'
    BY <1>2, <1>4, <2>1, <2>2, <2>3, CountedParts
  <2>5. Placed'
    BY <1>2, <2>1, <2>3 DEF Placed
  <2>6. Ordered'
    BY <1>1, <1>2, <2>1 DEF Ordered
  <2>7. Behind'
    <3>1. ASSUME NEW i \in got, Clean(i, overtaken) PROVE FALSE
      <4>1. i <= after
        BY <1>1, <3>1 DEF Behind
      <4>2. i \in 1..next
        BY <2>3
      <4> QED
        BY <1>4, <2>3, <4>1, <4>2
    <3> QED
      BY <1>2, <3>1 DEF Behind
  <2>8. NothingTwice'
    BY <1>1, <1>2 DEF NothingTwice
  <2>9. \A i : ~Missing(i)'
    <3>1. ASSUME NEW i, Missing(i)' PROVE FALSE
      <4>1. i \in Kept' /\ i > floor'
        BY <3>1 DEF Missing
      <4>2. i \in 1..next /\ i > next
        BY <2>1, <2>2, <2>3, <4>1
      <4> QED
        BY <2>3, <4>2
    <3> QED
      BY <3>1
  <2>10. Ahead' /\ NothingSkipped'
    BY <2>9 DEF Ahead, NothingSkipped, Missing
  <2> QED
    BY <2>2, <2>4, <2>5, <2>6, <2>7, <2>8, <2>10 DEF Parts
<1> QED
  BY <1>3, <1>4

LEMMA RefillKeeps ==
  ASSUME IInv, TypeOK', Refill
  PROVE  Parts'
<1>1. TypeOK /\ Placed /\ Behind /\ Ahead
  BY DEF IInv
<1>2. /\ at = "open" /\ at' = "open" /\ backlog = <<>> /\ Replay(seen) /\ seen' = seen
      /\ UNCHANGED <<next, publishing, ring, inbox, wire, after, got, twice,
                     hidden, overtaken, floor>>
      /\ seen \in 0..MaxId
  BY <1>1 DEF Refill, Polled, bus, consumer, TypeOK
<1>3. /\ seen <= floor \/ seen \in Kept
      /\ \A w \in Range(wire) : w <= seen
      /\ \A i \in got : Clean(i, overtaken) => i <= seen
      /\ \A i : Missing(i) => i \in Range(wire) \/ seen < i
  BY <1>1, <1>2 DEF Placed, Behind, Ahead, ToCome, Missing
<1> QED
  BY <1>2, <1>3, ReplayKeeps

-----------------------------------------------------------------------------
(* Writing and reading.                                                       *)

(* The feed takes x, from its replay or from its receiver, and writes it or       *)
(* leaves it out: right, if x is after what was written and before what is to      *)
(* come.                                                                      *)
LEMMA WriteKeeps ==
  ASSUME IInv, at = "open", NEW x \in Kept, Frame(x),
         UNCHANGED <<next, publishing, ring, at, lagged, after, got, twice,
                     overtaken, lost, floor>>,
         seen' \in {seen, x}, seen <= seen', x <= seen',
         Range(backlog') \subseteq Range(backlog), Range(backlog) \subseteq Range(backlog') \cup {x},
         Range(inbox') \subseteq Range(inbox), Range(inbox) \subseteq Range(inbox') \cup {x},
         InOrder(backlog', overtaken), InOrder(inbox', overtaken),
         \A w \in Range(wire) : Before(w, x, overtaken),
         \A b \in Range(backlog') : Before(x, b, overtaken),
         \A i \in got : Clean(i, overtaken) => i < x,
         \A i : Missing(i) /\ i \notin Range(wire) /\ i # x =>
            /\ x < i
            /\ \/ i \in Range(backlog')
               \/ /\ \A b \in Range(backlog') : b < i
                  /\ lagged \/ i \in Range(inbox') \cup Unsent
  PROVE  Parts'
<1>1. TypeOK /\ Counted /\ Overtaking /\ Placed /\ Ordered /\ Behind /\ NothingTwice /\ Ahead
      /\ NothingSkipped
  BY DEF IInv
<1>2. Distinct' /\ Numbered' = Numbered /\ Unsent' = Unsent /\ Kept' = Kept /\ Overtaking'
  BY <1>1, BusAlone
<1>3. /\ Range(ring) \cup Range(backlog) \cup Range(wire) \cup got \subseteq Kept
      /\ Range(inbox) \subseteq Kept \ Unsent
      /\ after <= floor \/ after \in Kept
      /\ Kept \subseteq Ids /\ Ids \subseteq Nat /\ wire \in Seq(Ids) /\ seen \in Nat
  BY <1>1, CountedParts, Numbers, FeedConstants DEF TypeOK
<1>4. /\ Range(wire) \subseteq Range(wire') /\ Range(wire') \subseteq Range(wire) \cup {x}
      /\ InOrder(wire', overtaken)
      /\ hidden \subseteq hidden' /\ (x \in Range(wire') \/ x \in hidden')
  <2>1. Range(Append(wire, x)) = Range(wire) \cup {x}
    BY <1>3, Ranges
  <2>2. InOrder(Append(wire, x), overtaken) /\ InOrder(wire, overtaken)
    BY <1>1, <1>3, InOrderAppend DEF Ordered
  <2> QED
    BY <2>1, <2>2 DEF Frame
<1>5. Counted'
  BY <1>2, <1>3, <1>4, CountedParts
<1>6. Placed'
  <2>1. seen' <= floor \/ seen' \in Kept
    BY <1>1 DEF Placed
  <2>2. ASSUME NEW w \in Range(wire') PROVE w <= seen'
    <3>1. CASE w \in Range(wire)
      <4>1. w \in Nat /\ seen' \in Nat /\ w <= seen
        BY <1>1, <1>3, <3>1 DEF Placed
      <4> QED
        BY <1>3, <4>1
    <3> QED
      BY <1>4, <3>1
  <2> QED
    BY <1>2, <2>1, <2>2 DEF Placed
<1>7. Ordered'
  <2>1. \A b \in Range(backlog') : b \notin overtaken => seen' < b
    BY <1>1 DEF Ordered, Before
  <2>2. \A w \in Range(wire'), b \in Range(backlog') : Before(w, b, overtaken)
    BY <1>1, <1>4 DEF Ordered
  <2> QED
    BY <1>1, <1>4, <2>1, <2>2 DEF Ordered
<1>8. Behind'
  <2>1. ASSUME NEW i \in got, Clean(i, overtaken)
        PROVE  /\ i <= after /\ i <= seen'
               /\ \A w \in Range(wire') \cup Range(backlog') : i < w
    <3>1. i \in Nat /\ seen' \in Nat /\ i <= seen
      BY <1>1, <1>3, <2>1 DEF Behind
    <3> QED
      BY <1>1, <1>3, <1>4, <2>1, <3>1 DEF Behind
  <2> QED
    BY <2>1 DEF Behind
<1>9. NothingTwice'
  BY <1>1 DEF NothingTwice
<1>10. \A i : Missing(i)' => Missing(i)
  BY <1>2, <1>4 DEF Missing
<1>11. ASSUME NEW i, Missing(i)' PROVE i \in Range(wire') \/ ToCome(i)'
  <2>1. CASE i = x \/ i \in Range(wire)
    BY <1>4, <1>11, <2>1 DEF Missing
  <2>2. CASE i # x /\ i \notin Range(wire)
    <3>1. Missing(i) /\ i \in Kept
      BY <1>10, <1>11 DEF Missing
    <3>2. ToCome(i) /\ x < i
      BY <1>1, <2>2, <3>1 DEF Ahead
    <3>3. seen' < i /\ \A w \in Range(wire') : w < i
      BY <1>4, <3>2 DEF ToCome
    <3> QED
      BY <1>2, <2>2, <3>1, <3>3 DEF ToCome
  <2> QED
    BY <2>1, <2>2
<1>12. Ahead'
  BY <1>11 DEF Ahead
<1>13. NothingSkipped'
  <2>1. ASSUME NEW i, Missing(i)' PROVE i > after /\ i \in InReach'
    <3>1. Missing(i) /\ i > after /\ i \in InReach
      BY <1>1, <1>10, <2>1 DEF NothingSkipped, Missing
    <3>2. i = x => i \in Range(wire')
      BY <1>4, <2>1 DEF Missing
    <3> QED
      BY <1>2, <1>4, <3>1, <3>2 DEF InReach
  <2> QED
    BY <2>1 DEF NothingSkipped, Missing
<1> QED
  BY <1>2, <1>5, <1>6, <1>7, <1>8, <1>9, <1>12, <1>13 DEF Parts

LEMMA WriteBacklogKeeps ==
  ASSUME IInv, WriteBacklog
  PROVE  Parts'
<1> DEFINE x == Head(backlog)
<1>1. TypeOK /\ Counted /\ Overtaking /\ Placed /\ Ordered /\ Behind /\ Ahead
  BY DEF IInv
<1>2. /\ at = "open" /\ backlog # <<>> /\ backlog' = Tail(backlog)
      /\ seen' = Larger(seen, x) /\ Frame(x)
      /\ UNCHANGED <<next, publishing, ring, at, inbox, lagged, after, got, twice,
                     overtaken, lost, floor>>
  BY DEF WriteBacklog, Polled, bus
<1>3. /\ Range(backlog) = {x} \cup Range(backlog')
      /\ InOrder(backlog', overtaken)
      /\ \A b \in Range(backlog') : Before(x, b, overtaken)
  <2>1. backlog \in Seq(Ids) /\ InOrder(backlog, overtaken)
    BY <1>1 DEF TypeOK, Ordered
  <2> QED
    BY <1>2, <2>1, Ranges, InOrderTail
<1>4. x \in Kept /\ x \in Nat /\ seen \in Nat
  BY <1>1, <1>3, CountedParts, Numbers, FeedConstants DEF TypeOK
<1> HIDE DEF x
<1>5. seen' \in {seen, x} /\ seen <= seen' /\ x <= seen'
  BY <1>2, <1>4 DEF Larger
<1>6. /\ InOrder(inbox', overtaken)
      /\ \A w \in Range(wire) : Before(w, x, overtaken)
  BY <1>1, <1>2, <1>3 DEF Ordered
<1>7. \A i \in got : Clean(i, overtaken) => i < x
  BY <1>1, <1>3 DEF Behind
<1>8. ASSUME NEW i, Missing(i), i \notin Range(wire), i # x
      PROVE  /\ x < i
             /\ \/ i \in Range(backlog')
                \/ /\ \A b \in Range(backlog') : b < i
                   /\ lagged \/ i \in Range(inbox') \cup Unsent
  <2>1. ToCome(i) /\ i \notin overtaken
    BY <1>1, <1>8 DEF Ahead, Missing
  <2> QED
    BY <1>2, <1>3, <1>8, <2>1 DEF ToCome, Before
<1> QED
  BY <1>2, <1>3, <1>4, <1>5, <1>6, <1>7, <1>8, WriteKeeps

(* What the replay has written is left out, and all that is owed is after it.      *)
LEMMA ReceiveKeeps ==
  ASSUME IInv, Receive
  PROVE  Parts'
<1> DEFINE x == Head(inbox)
<1>1. TypeOK /\ Counted /\ Overtaking /\ Placed /\ Ordered /\ Behind /\ NothingTwice /\ Ahead
      /\ NothingSkipped
  BY DEF IInv
<1>2. /\ at = "open" /\ backlog = <<>> /\ Range(backlog) = {} /\ ~lagged
      /\ inbox # <<>> /\ inbox' = Tail(inbox)
      /\ IF x <= seen THEN UNCHANGED <<seen, wire, hidden>> ELSE seen' = x /\ Frame(x)
      /\ UNCHANGED <<next, publishing, ring, at, backlog, lagged, after, got, twice,
                     overtaken, lost, floor>>
  BY DEF Receive, Polled, bus, Range
<1>3. /\ Range(inbox) = {x} \cup Range(inbox')
      /\ InOrder(inbox', overtaken)
      /\ \A b \in Range(inbox') : Before(x, b, overtaken)
  <2>1. inbox \in Seq(Ids) /\ InOrder(inbox, overtaken)
    BY <1>1 DEF TypeOK, Ordered
  <2> QED
    BY <1>2, <2>1, Ranges, InOrderTail
<1>4. /\ x \in Kept \ Unsent /\ x \in Nat /\ seen \in Nat
      /\ Range(ring) \cup Range(wire) \cup got \subseteq Kept
      /\ Range(inbox) \subseteq Kept \ Unsent
      /\ after <= floor \/ after \in Kept
      /\ Kept \subseteq Nat /\ Unsent \subseteq Kept
  BY <1>1, <1>3, CountedParts, Numbers, FeedConstants DEF TypeOK
<1> HIDE DEF x
<1>5. ASSUME NEW i, Missing(i), i \notin Range(wire)
      PROVE  i \in Kept /\ seen < i /\ i \notin overtaken /\ i \in Range(inbox) \cup Unsent
  BY <1>1, <1>2, <1>5 DEF Ahead, ToCome, Missing
<1>6. CASE x <= seen
  <2>1. UNCHANGED <<seen, wire, hidden>>
    BY <1>2, <1>6
  <2>2. Distinct' /\ Numbered' = Numbered /\ Unsent' = Unsent /\ Kept' = Kept /\ Overtaking'
    BY <1>1, <1>2, BusAlone
  <2>3. Counted'
    BY <1>2, <1>3, <1>4, <2>1, <2>2, CountedParts
  <2>4. Placed' /\ Behind' /\ NothingTwice'
    BY <1>1, <1>2, <2>1, <2>2 DEF Placed, Behind, NothingTwice
  <2>5. Ordered'
    BY <1>1, <1>2, <1>3, <2>1 DEF Ordered
  <2>6. \A i : Missing(i)' <=> Missing(i)
    BY <1>2, <2>1, <2>2 DEF Missing
  <2>7. ASSUME NEW i, Missing(i), i \notin Range(wire)
        PROVE  i # x /\ i \in Range(inbox') \cup Unsent
    <3>1. i \in Nat /\ seen < i /\ i \in Range(inbox) \cup Unsent
      BY <1>4, <1>5, <2>7
    <3>2. i # x
      BY <1>4, <1>6, <3>1
    <3> QED
      BY <1>3, <3>1, <3>2
  <2>8. Ahead'
    <3>1. ASSUME NEW i, Missing(i), i \notin Range(wire) PROVE ToCome(i)'
      BY <1>1, <1>2, <2>1, <2>2, <2>7, <3>1 DEF Ahead, ToCome, Missing
    <3> QED
      BY <2>1, <2>6, <3>1 DEF Ahead
  <2>9. NothingSkipped'
    <3>1. ASSUME NEW i, Missing(i)' PROVE i > after /\ i \in InReach'
      <4>1. Missing(i) /\ i > after
        BY <1>1, <2>6, <3>1 DEF NothingSkipped, Missing
      <4> QED
        BY <2>1, <2>2, <2>7, <4>1 DEF InReach
    <3> QED
      BY <1>2, <3>1 DEF NothingSkipped, Missing
  <2> QED
    BY <2>2, <2>3, <2>4, <2>5, <2>8, <2>9 DEF Parts
<1>7. CASE ~(x <= seen)
  <2>1. seen' = x /\ Frame(x) /\ seen < x
    BY <1>2, <1>4, <1>7
  <2>2. \A w \in Range(wire) : Before(w, x, overtaken)
    <3>1. ASSUME NEW w \in Range(wire) PROVE w < x
      <4>1. w \in Nat /\ w <= seen
        BY <1>1, <1>2, <1>4 DEF Placed
      <4> QED
        BY <1>4, <2>1, <4>1
    <3> QED
      BY <3>1 DEF Before
  <2>3. ASSUME NEW i \in got, Clean(i, overtaken) PROVE i < x
    <3>1. i \in Nat /\ i <= seen
      BY <1>1, <1>2, <1>4, <2>3 DEF Behind
    <3> QED
      BY <1>4, <2>1, <3>1
  <2>4. ASSUME NEW i, Missing(i), i \notin Range(wire), i # x
        PROVE  x < i /\ i \in Range(inbox') \cup Unsent
    <3>1. i \in Range(inbox') => x < i
      BY <1>3, <1>5, <2>4 DEF Before
    <3>2. i \in Unsent => x < i
      <4>1. i \in Unsent => ~(i < x)
        BY <1>1, <1>4, <1>5, <2>4 DEF Overtaking
      <4> QED
        BY <1>4, <1>5, <2>4, <4>1
    <3> QED
      BY <1>3, <1>5, <2>4, <3>1, <3>2
  <2>5. InOrder(backlog', overtaken)
    BY <1>1, <1>2 DEF Ordered
  <2>6. x \in Kept /\ seen' \in {seen, x} /\ seen <= seen' /\ x <= seen'
    BY <1>4, <2>1
  <2> QED
    BY <1>2, <1>3, <2>1, <2>2, <2>3, <2>4, <2>5, <2>6, WriteKeeps
<1> QED
  BY <1>6, <1>7

(* The first frame is after all that came, or it or an earlier one was overtaken; *)
(* and before all that is to come.                                             *)
LEMMA ReadKeeps ==
  ASSUME IInv, Read
  PROVE  Parts'
<1> DEFINE x == Head(wire)
<1>1. TypeOK /\ Counted /\ Overtaking /\ Placed /\ Ordered /\ Behind /\ NothingTwice /\ Ahead
      /\ NothingSkipped
  BY DEF IInv
<1>2. /\ wire # <<>> /\ wire' = Tail(wire) /\ after' = x
      /\ got' = got \cup {x} /\ twice' = twice \cup (got \cap {x})
      /\ UNCHANGED <<next, publishing, ring, at, seen, backlog, inbox, lagged,
                     hidden, overtaken, lost, floor>>
  BY DEF Read, bus, feed, told
<1>3. /\ Range(wire) = {x} \cup Range(wire')
      /\ InOrder(wire', overtaken)
      /\ \A w \in Range(wire') : Before(x, w, overtaken)
  <2>1. wire \in Seq(Ids) /\ InOrder(wire, overtaken)
    BY <1>1 DEF TypeOK, Ordered
  <2> QED
    BY <1>2, <2>1, Ranges, InOrderTail
<1>4. /\ x \in Kept /\ x \in Nat
      /\ Range(ring) \cup Range(backlog) \cup Range(wire) \cup got \subseteq Kept
      /\ Range(inbox) \subseteq Kept \ Unsent /\ Kept \subseteq Nat
      /\ overtaken \subseteq Nat
  BY <1>1, <1>3, CountedParts, Numbers, FeedConstants DEF TypeOK
<1> HIDE DEF x
<1>5. Distinct' /\ Numbered' = Numbered /\ Unsent' = Unsent /\ Kept' = Kept /\ Overtaking'
  BY <1>1, <1>2, BusAlone
<1>6. Counted'
  BY <1>2, <1>3, <1>4, <1>5, CountedParts
<1>7. Placed'
  BY <1>1, <1>2, <1>3, <1>5 DEF Placed
<1>8. Ordered'
  BY <1>1, <1>2, <1>3 DEF Ordered
<1>9. Behind'
  <2>1. ASSUME NEW i \in got, Clean(i, overtaken)
        PROVE  /\ i <= x
               /\ \A w \in Range(wire') \cup Range(backlog) : i < w
               /\ at \in {"open", "checking"} => i <= seen
    <3>1. i \in Nat /\ i < x
      BY <1>1, <1>3, <1>4, <2>1 DEF Behind
    <3> QED
      BY <1>1, <1>3, <1>4, <2>1, <3>1 DEF Behind
  <2>2. ASSUME Clean(x, overtaken)
        PROVE  /\ x <= x
               /\ \A w \in Range(wire') \cup Range(backlog) : x < w
               /\ at \in {"open", "checking"} => x <= seen
    BY <1>1, <1>3, <1>4, <2>2 DEF Ordered, Before, Placed
  <2> QED
    BY <1>2, <2>1, <2>2 DEF Behind
<1>10. NothingTwice'
  <2>1. ASSUME x \in got PROVE \E j \in overtaken : j < x
    <3>1. ~ Clean(x, overtaken)
      BY <1>1, <1>3, <1>4, <2>1 DEF Behind
    <3> QED
      BY <1>4, <3>1 DEF Clean
  <2> QED
    BY <1>1, <1>2, <2>1 DEF NothingTwice
<1>11. ASSUME NEW i, Missing(i)'
       PROVE  Missing(i) /\ i # x /\ i \in Kept /\ i \notin overtaken
  BY <1>2, <1>5, <1>11 DEF Missing
<1>12. ASSUME NEW i, Missing(i)' PROVE i > after'
  <2>1. i \in Range(wire') => x < i
    BY <1>3, <1>11, <1>12 DEF Before
  <2>2. i \notin Range(wire') => x < i
    BY <1>1, <1>3, <1>11, <1>12 DEF Ahead, ToCome
  <2> QED
    BY <1>2, <1>4, <1>11, <1>12, <2>1, <2>2
<1>13. Ahead'
  <2>1. ASSUME NEW i, Missing(i)', i \notin Range(wire') PROVE ToCome(i)'
    <3>1. ToCome(i)
      BY <1>1, <1>3, <1>11, <2>1 DEF Ahead
    <3> QED
      BY <1>2, <1>3, <1>5, <3>1 DEF ToCome
  <2> QED
    BY <2>1 DEF Ahead
<1>14. NothingSkipped'
  <2>1. ASSUME NEW i, Missing(i)' PROVE i \in InReach'
    BY <1>1, <1>2, <1>3, <1>5, <1>11, <2>1 DEF NothingSkipped, Missing, InReach
  <2> QED
    BY <1>12, <2>1 DEF NothingSkipped, Missing
<1> QED
  BY <1>5, <1>6, <1>7, <1>8, <1>9, <1>10, <1>13, <1>14 DEF Parts

-----------------------------------------------------------------------------
(* The invariant holds.                                                        *)

LEMMA Initially == Init => IInv
<1> SUFFICES ASSUME Init PROVE IInv
  OBVIOUS
<1>1. Range(<<>>) = {} /\ \A O : InOrder(<<>>, O)
  BY EmptySeq DEF Range, InOrder
<1>2. /\ next = 0 /\ publishing = [p \in Publishers |-> Idle] /\ ring = <<>>
      /\ at = "closed" /\ backlog = <<>> /\ inbox = <<>> /\ wire = <<>>
      /\ after = 0 /\ got = {} /\ twice = {} /\ overtaken = {} /\ floor = 0
  BY DEF Init
<1>3. Numbered = {} /\ Unsent = {} /\ Kept = {}
  <2>1. Numbered = {} /\ Unsent = {}
    BY <1>2, Holders DEF Idle
  <2> QED
    BY <1>2, <2>1 DEF Kept
<1>4. Counted
  BY <1>1, <1>2, <1>3 DEF Counted, Idle
<1>5. Parts
  BY <1>1, <1>2, <1>3, <1>4
     DEF Parts, Overtaking, Placed, Ordered, Behind, NothingTwice, Ahead, NothingSkipped
<1> QED
  BY <1>5, InitTyped, IInvParts

LEMMA Inductive == IInv /\ [Next]_vars => IInv'
<1> SUFFICES ASSUME IInv, [Next]_vars, TypeOK' PROVE Parts'
  BY TypeStep, IInvParts DEF IInv
<1>1. ASSUME NEW p \in Publishers, Publishing(p) PROVE Parts'
  BY <1>1, PublishKeeps, KeepKeeps, SendKeeps DEF Publishing
<1>2. CASE Opening
  BY <1>2, AsideKeeps, StartKeeps DEF Opening
<1>3. CASE Serving
  BY <1>3, WriteBacklogKeeps, RefillKeeps, ReceiveKeeps DEF Serving
<1>4. CASE Checking \/ Unreadable \/ Cut
  BY <1>4, AsideKeeps, DropKeeps DEF Checking
<1>5. CASE Read \/ Restart
  BY <1>5, ReadKeeps, RestartKeeps
<1>6. CASE \/ UNCHANGED vars \/ CheckIsDue \/ TakeNotice \/ Ended
           \/ SwitchOff \/ Invalidate \/ SwitchOn \/ ChangeChannel
  BY <1>6, AsideKeeps
<1> QED
  BY <1>1, <1>2, <1>3, <1>4, <1>5, <1>6 DEF Next

LEMMA Always == Spec => []IInv
BY Initially, Inductive, PTL DEF Spec

-----------------------------------------------------------------------------
(* The feed implements EventLog.                                              *)

\* Nothing on the way to the consumer is from before where it began.
FromFloor ==
    /\ after = 0 \/ floor <= after
    /\ after <= floor \/ after \in got
    /\ \A i \in Range(wire) \cup Range(backlog) : floor < i
    /\ at \in {"open", "checking"} => floor <= seen

LEMMA ReadFromFloor ==
  ASSUME IInv, FromFloor, Read
  PROVE  FromFloor'
<1> DEFINE x == Head(wire)
<1>1. /\ wire # <<>> /\ wire' = Tail(wire) /\ after' = x /\ got' = got \cup {x}
      /\ UNCHANGED <<backlog, floor, at, seen>>
  BY DEF Read, feed, told
<1>2. Range(wire) = {x} \cup Range(wire')
  BY <1>1, Ranges DEF IInv, TypeOK
<1>3. floor < x /\ x \in Nat /\ floor \in Nat
  <2>1. x \in Kept
    BY <1>2, CountedParts DEF IInv
  <2> QED
    BY <1>2, <2>1, Numbers, FeedConstants DEF FromFloor, IInv, TypeOK
<1> HIDE DEF x
<1>4. floor' <= after' /\ after' \in got'
  BY <1>1, <1>3
<1>5. \A i \in Range(wire') \cup Range(backlog') : floor' < i
  BY <1>1, <1>2 DEF FromFloor
<1>6. at' \in {"open", "checking"} => floor' <= seen'
  BY <1>1 DEF FromFloor
<1> QED
  BY <1>4, <1>5, <1>6 DEF FromFloor

LEMMA ReplayFromFloor ==
  ASSUME IInv, FromFloor, Start \/ Refill
  PROVE  FromFloor'
<1>1. /\ TypeOK /\ Placed
      /\ floor \in Nat /\ after \in 0..MaxId /\ seen \in 0..MaxId /\ next \in Nat
  BY FeedConstants DEF IInv, TypeOK
<1>2. UNCHANGED <<wire, after, got>>
  BY DEF Start, Refill, consumer
<1>3. Range(<<>>) = {}
  BY DEF Range
<1>4. ASSUME NEW id \in 0..MaxId, Replay(id), floor <= id, floor' = floor
      PROVE  \A i \in Range(backlog') : floor' < i
  <2>1. \A i \in Range(Since(id)) : i > id /\ i \in Nat
    <3>1. ring \in Seq(Ids) /\ Range(ring) \subseteq Nat
      BY <1>1, CountedParts, Numbers DEF IInv, TypeOK
    <3> QED
      BY <3>1, SinceTyped
  <2>2. backlog' = Since(id) /\ id \in Nat
    BY <1>4, FeedConstants DEF Replay
  <2> QED
    BY <1>1, <1>4, <2>1, <2>2
<1>5. CASE Start /\ after = 0
  <2>1. /\ wire' = <<>> /\ backlog' = <<>> /\ seen' = next /\ floor' = next /\ after' = 0
    BY <1>1, <1>2, <1>5 DEF Start, Placed
  <2> QED
    BY <1>1, <1>3, <2>1 DEF FromFloor
<1>6. CASE Start /\ after # 0
  <2>1. /\ wire' = <<>> /\ seen' = after /\ floor' = floor /\ Replay(after) /\ floor <= after
    BY <1>1, <1>2, <1>6 DEF Start, Placed, FromFloor
  <2>2. \A i \in Range(backlog') : floor' < i
    BY <1>1, <1>4, <2>1
  <2> QED
    BY <1>2, <1>3, <2>1, <2>2 DEF FromFloor
<1>7. CASE Refill
  <2>1. /\ seen' = seen /\ floor' = floor /\ Replay(seen) /\ floor <= seen
    BY <1>7 DEF Refill, Polled, FromFloor
  <2>2. \A i \in Range(backlog') : floor' < i
    BY <1>1, <1>4, <2>1
  <2> QED
    BY <1>2, <2>1, <2>2 DEF FromFloor
<1> QED
  BY <1>5, <1>6, <1>7

\* What the feed writes is an event that it held, and after where the consumer began.
LEMMA FrameAfterFloor ==
  ASSUME IInv, FromFloor, WriteBacklog \/ Receive
  PROVE  /\ UNCHANGED <<bus, after, got, overtaken, lost, floor>>
         /\ at' = at /\ seen <= seen'
         /\ Range(backlog') \subseteq Range(backlog)
         /\ \/ UNCHANGED <<wire, hidden>>
            \/ \E x \in Kept : floor < x /\ Frame(x)
<1>1. /\ UNCHANGED <<bus, after, got, overtaken, lost, floor>> /\ at' = at
  BY DEF WriteBacklog, Receive
<1>2. /\ seen \in Nat /\ floor \in Nat /\ Kept \subseteq Nat
      /\ Range(backlog) \subseteq Kept /\ Range(inbox) \subseteq Kept
      /\ backlog \in Seq(Ids) /\ inbox \in Seq(Ids)
  BY CountedParts, Numbers, FeedConstants DEF IInv, TypeOK
<1>3. CASE WriteBacklog
  <2> DEFINE x == Head(backlog)
  <2>1. /\ backlog # <<>> /\ backlog' = Tail(backlog) /\ seen' = Larger(seen, x) /\ Frame(x)
    BY <1>3 DEF WriteBacklog
  <2>2. Range(backlog) = {x} \cup Range(backlog')
    BY <1>2, <2>1, Ranges
  <2>3. x \in Kept /\ x \in Nat /\ floor < x
    BY <1>2, <2>2 DEF FromFloor
  <2> HIDE DEF x
  <2>4. seen <= seen'
    BY <1>2, <2>1, <2>3 DEF Larger
  <2> QED
    BY <1>1, <2>1, <2>2, <2>3, <2>4
<1>4. CASE Receive
  <2> DEFINE x == Head(inbox)
  <2>1. /\ inbox # <<>> /\ inbox' = Tail(inbox) /\ backlog' = backlog /\ at = "open"
        /\ IF x <= seen THEN UNCHANGED <<seen, wire, hidden>> ELSE seen' = x /\ Frame(x)
    BY <1>4 DEF Receive, Polled
  <2>2. x \in Kept /\ x \in Nat
    <3>1. Range(inbox) = {x} \cup Range(inbox')
      BY <1>2, <2>1, Ranges
    <3> QED
      BY <1>2, <3>1
  <2>3. floor <= seen
    BY <2>1 DEF FromFloor
  <2> HIDE DEF x
  <2>4. CASE x <= seen
    BY <1>1, <1>2, <2>1, <2>4
  <2>5. CASE ~(x <= seen)
    <3>1. seen' = x /\ Frame(x) /\ seen <= seen' /\ floor < x
      BY <1>2, <2>1, <2>2, <2>3, <2>5
    <3> QED
      BY <1>1, <2>1, <2>2, <3>1
  <2> QED
    BY <2>4, <2>5
<1> QED
  BY <1>3, <1>4

LEMMA WriteFromFloor ==
  ASSUME IInv, FromFloor, WriteBacklog \/ Receive
  PROVE  FromFloor'
<1>1. /\ UNCHANGED <<after, got, floor>> /\ at' = at /\ seen <= seen'
      /\ Range(backlog') \subseteq Range(backlog)
      /\ \/ UNCHANGED <<wire, hidden>>
         \/ \E x \in Kept : floor < x /\ Frame(x)
  BY FrameAfterFloor
<1>2. \A i \in Range(wire') : i \in Range(wire) \/ floor < i
  <2>1. ASSUME NEW x \in Kept, floor < x, Frame(x)
        PROVE  \A i \in Range(wire') : i \in Range(wire) \/ floor < i
    <3>1. wire \in Seq(Ids) /\ x \in Ids
      BY Numbers DEF IInv, TypeOK
    <3>2. Range(Append(wire, x)) = Range(wire) \cup {x}
      BY <3>1, Ranges
    <3> QED
      BY <2>1, <3>2 DEF Frame
  <2> QED
    BY <1>1, <2>1
<1>3. at' \in {"open", "checking"} => floor' <= seen'
  <2>1. floor \in Nat /\ seen \in Nat /\ seen' \in Nat
    <3>1. TypeOK'
      BY TypeStep DEF IInv, Next, Serving
    <3> QED
      BY <3>1, FeedConstants DEF IInv, TypeOK
  <2> QED
    BY <1>1, <2>1 DEF FromFloor
<1> QED
  BY <1>1, <1>2, <1>3 DEF FromFloor

LEMMA FromFloorStep == IInv /\ FromFloor /\ [Next]_vars => FromFloor'
<1> SUFFICES ASSUME IInv, FromFloor, [Next]_vars PROVE FromFloor'
  OBVIOUS
<1>1. ASSUME UNCHANGED <<after, got, floor>>,
             wire' \in {wire, <<>>}, backlog' \in {backlog, <<>>},
             at' \in {"open", "checking"} => at \in {"open", "checking"} /\ seen' = seen
      PROVE  FromFloor'
  <2>1. Range(<<>>) = {}
    BY DEF Range
  <2> QED
    BY <1>1, <2>1 DEF FromFloor
<1>2. ASSUME NEW p \in Publishers, Publishing(p) PROVE FromFloor'
  BY <1>1, <1>2 DEF Publishing, Publish, Keep, Send, feed, consumer, told
<1>3. CASE Call \/ Subscribe \/ CheckIsDue \/ TakeNotice \/ Reauthorize \/ Ended
  BY <1>1, <1>3 DEF Call, Subscribe, CheckIsDue, TakeNotice, Reauthorize, Ended, Polled,
                    consumer, told
<1>4. CASE Refuse \/ Unreadable \/ Cut
  BY <1>1, <1>4 DEF Refuse, Unreadable, Cut, Drop, consumer
<1>5. CASE SwitchOff \/ Invalidate \/ SwitchOn \/ ChangeChannel \/ UNCHANGED vars
  BY <1>1, <1>5 DEF SwitchOff, Invalidate, SwitchOn, ChangeChannel, vars, feed, consumer, told
<1>6. CASE Restart
  <2>1. /\ after' = after /\ floor' = after /\ wire' = <<>> /\ backlog' = <<>> /\ at' = "closed"
        /\ after \in Nat
    BY <1>6, FeedConstants DEF Restart, Drop, IInv, TypeOK
  <2>2. Range(<<>>) = {}
    BY DEF Range
  <2> QED
    BY <2>1, <2>2 DEF FromFloor
<1>7. CASE Start \/ Refill
  BY <1>7, ReplayFromFloor
<1>8. CASE WriteBacklog \/ Receive
  BY <1>8, WriteFromFloor
<1>9. CASE Read
  BY <1>9, ReadFromFloor
<1> QED
  BY <1>2, <1>3, <1>4, <1>5, <1>6, <1>7, <1>8, <1>9 DEF Next, Opening, Serving, Checking

LEMMA SameRange == \A s : Log!Range(s) = Range(s)
BY DEF Range, Log!Range

\* Giving events up loses only what has left the ring.
LEMMA Losing ==
  ASSUME IInv, UNCHANGED <<bus, after, got, hidden, overtaken, floor>>,
         \/ Lose
         \/ \E id \in 0..MaxId : Replay(id)
  PROVE  Log!Lose
<1>1. Numbered' = Numbered /\ Unsent' = Unsent /\ Kept' = Kept
  BY DEF Numbered, Unsent, Kept, bus
<1>2. Unsent \subseteq Kept /\ Range(inbox) \subseteq Kept
  BY Numbers, CountedParts DEF IInv
<1>3. lost \subseteq lost' /\ lost' \ lost \subseteq Kept' \ Range(ring')
  <2>1. CASE Lose
    BY <2>1 DEF Lose, InReach
  <2>2. ASSUME NEW id \in 0..MaxId, Replay(id)
        PROVE  lost \subseteq lost' /\ lost' \ lost \subseteq Kept' \ Range(ring')
    BY <1>1, <1>2, <2>2 DEF Replay, bus
  <2> QED
    BY <2>1, <2>2
<1> QED
  BY <1>1, <1>3, SameRange DEF Log!Lose, Log!Losing, Log!log, bus

LEMMA PublishNumbersLog ==
  ASSUME IInv, NEW p \in Publishers, Publish(p)
  PROVE  Log!Number
<1>1. Unsent' = Unsent /\ Kept' = Kept
  BY PublishNumbers DEF IInv
<1> QED
  BY <1>1 DEF Publish, Log!Number, Log!excuses, consumer, told

LEMMA KeepKeepsLog ==
  ASSUME IInv, NEW p \in Publishers, Keep(p)
  PROVE  \E i \in 1..next : Log!Keep(i)
<1> DEFINE x == publishing[p].id
<1>1. /\ x \in Numbered /\ x \notin Kept /\ x \in Ids
      /\ Unsent' = Unsent \cup {x} /\ Kept' = Kept \cup {x}
  BY KeepNumbers DEF IInv
<1>2. /\ Numbered \subseteq 1..next /\ Unsent \subseteq Kept
      /\ Numbered = (1..next) \ Kept
  <2>1. Numbered \subseteq 1..next /\ Unsent \subseteq Kept
    BY Numbers DEF IInv
  <2> QED
    BY <2>1 DEF Kept
<1>3. /\ ring' = Latest(Ring, Append(ring, x))
      /\ overtaken' = overtaken \cup {i \in Numbered : i < x}
      /\ lost' = lost \cup (Kept' \ (InReach' \cup got))
      /\ UNCHANGED <<next, limited, after, got, hidden, floor>>
  BY DEF Keep, Lose, consumer
<1> HIDE DEF x
<1>4. ring' = IF Len(ring) < Ring THEN Append(ring, x) ELSE Tail(Append(ring, x))
  <2>1. ring \in Seq(Ids) /\ Len(ring) <= Ring /\ Ring \in Nat
    BY FeedConstants DEF IInv, TypeOK
  <2>2. Len(Append(ring, x)) = Len(ring) + 1 /\ Len(ring) \in Nat
    BY <1>1, <2>1, AppendProperties, LenProperties
  <2> QED
    BY <1>3, <2>1, <2>2 DEF Latest
<1>5. Log!Losing
  BY <1>3, SameRange DEF Log!Losing, InReach
<1>6. Kept' \ Unsent' = Kept \ Unsent
  BY <1>1, <1>2
<1>7. Log!Keep(x)
  BY <1>1, <1>2, <1>3, <1>4, <1>5, <1>6 DEF Log!Keep
<1> QED
  BY <1>1, <1>2, <1>7

LEMMA SendSendsLog ==
  ASSUME IInv, NEW p \in Publishers, Send(p)
  PROVE  \E i \in 1..next : Log!Send(i)
<1> DEFINE x == publishing[p].id
<1>1. /\ x \in Unsent /\ x \in Kept
      /\ Unsent' = Unsent \ {x} /\ Kept' = Kept
  BY SendNumbers DEF IInv
<1>2. /\ Kept \subseteq 1..next /\ Unsent \subseteq Kept
      /\ Numbered \cup Unsent = (1..next) \ (Kept \ Unsent)
  <2>1. Numbered \subseteq 1..next /\ Unsent \subseteq Kept /\ Kept \subseteq 1..next
    BY Numbers DEF IInv
  <2> QED
    BY <2>1 DEF Kept
<1>3. /\ overtaken' = overtaken \cup {i \in Numbered \cup Unsent : i < x}
      /\ lost' = lost \cup (Kept' \ (InReach' \cup got))
      /\ UNCHANGED <<next, limited, ring, after, got, hidden, floor>>
  BY DEF Send, Lose, consumer
<1> HIDE DEF x
<1>4. Log!Losing
  BY <1>3, SameRange DEF Log!Losing, InReach
<1>5. Kept' \ Unsent' = (Kept \ Unsent) \cup {x}
  BY <1>1
<1>6. Log!Send(x)
  BY <1>1, <1>2, <1>3, <1>4, <1>5 DEF Log!Send
<1> QED
  BY <1>1, <1>2, <1>6

(* What is read is an event of the log: all that is owed is still to come, and it   *)
(* is after the last, but for what was overtaken (event_feed.rs run).             *)
LEMMA ReadGives ==
  ASSUME IInv, FromFloor, Read
  PROVE  \E i \in Kept : Log!Give(i)
<1> DEFINE x == Head(wire)
<1>1. Counted /\ Ordered /\ Behind /\ Ahead /\ TypeOK
  BY DEF IInv
<1>2. /\ wire # <<>> /\ after' = x /\ got' = got \cup {x}
      /\ UNCHANGED <<next, publishing, limited, ring, hidden, overtaken, lost, floor>>
  BY DEF Read, bus, told
<1>3. Numbered' = Numbered /\ Unsent' = Unsent /\ Kept' = Kept
  BY <1>2 DEF Numbered, Unsent, Kept
<1>4. /\ Range(wire) = {x} \cup Range(Tail(wire))
      /\ \A w \in Range(Tail(wire)) : Before(x, w, overtaken)
  <2>1. wire \in Seq(Ids) /\ InOrder(wire, overtaken)
    BY <1>1 DEF TypeOK, Ordered
  <2> QED
    BY <1>2, <2>1, Ranges, InOrderTail
<1>5. x \in Kept /\ x \in Nat /\ floor \in Nat /\ after \in Nat /\ overtaken \subseteq Nat
      /\ Kept \subseteq Nat
  BY <1>1, <1>4, CountedParts, Numbers, FeedConstants DEF TypeOK
<1> HIDE DEF x
<1>6. floor < x
  BY <1>4 DEF FromFloor
<1>7. ASSUME NEW j \in Log!Owed PROVE x <= j
  <2>1. j \in Kept /\ Missing(j) /\ j \notin overtaken
    BY <1>7 DEF Log!Owed, Missing
  <2>2. CASE j \in Range(wire)
    BY <1>4, <1>5, <2>1, <2>2 DEF Before
  <2>3. CASE ToCome(j)
    BY <1>4, <1>5, <2>1, <2>3 DEF ToCome
  <2> QED
    BY <1>1, <2>1, <2>2, <2>3 DEF Ahead
<1>8. after < x \/ \E j \in overtaken : j < after
  <2>1. CASE after <= floor
    BY <1>5, <1>6, <2>1
  <2>2. CASE after \in got /\ Clean(after, overtaken)
    BY <1>1, <1>4, <2>2 DEF Behind
  <2>3. CASE ~ Clean(after, overtaken)
    BY <1>5, <2>3 DEF Clean
  <2> QED
    BY <2>1, <2>2, <2>3 DEF FromFloor
<1>9. x \in got => \E j \in overtaken : j < x
  <2>1. x \in got => ~ Clean(x, overtaken)
    BY <1>1, <1>4, <1>5 DEF Behind
  <2> QED
    BY <1>5, <2>1 DEF Clean
<1>10. Log!Give(x)
  BY <1>2, <1>3, <1>5, <1>6, <1>7, <1>8, <1>9 DEF Log!Give, Log!log, Log!excuses
<1> QED
  BY <1>5, <1>10

LEMMA WriteHides ==
  ASSUME IInv, FromFloor, WriteBacklog \/ Receive
  PROVE  Log!vars' = Log!vars \/ \E i \in Kept : Log!Hide(i)
<1>1. /\ UNCHANGED <<bus, after, got, overtaken, lost, floor>>
      /\ \/ UNCHANGED hidden
         \/ \E x \in Kept : floor < x /\ Frame(x)
  BY FrameAfterFloor
<1>2. Unsent' = Unsent /\ Kept' = Kept
  BY <1>1 DEF Numbered, Unsent, Kept, bus
<1>3. CASE UNCHANGED hidden
  BY <1>1, <1>2, <1>3 DEF Log!vars, Log!log, Log!excuses, bus
<1>4. ASSUME NEW x \in Kept, floor < x, hidden' = hidden \cup {x}, x \in limited
      PROVE  Log!Hide(x)
  BY <1>1, <1>2, <1>4 DEF Log!Hide, Log!log, bus
<1> QED
  BY <1>1, <1>3, <1>4 DEF Frame, MaySee

(* Every step is one of the log's, or none.                                      *)
LEMMA LogStep == IInv /\ FromFloor /\ [Next]_vars => [Log!Next]_Log!vars
<1> SUFFICES ASSUME IInv, FromFloor, [Next]_vars PROVE [Log!Next]_Log!vars
  OBVIOUS
<1>1. ASSUME NEW p \in Publishers, Publishing(p) PROVE Log!Next
  BY <1>1, PublishNumbersLog, KeepKeepsLog, SendSendsLog DEF Publishing, Log!Next
<1>2. CASE UNCHANGED <<bus, after, got, hidden, overtaken, lost, floor>>
  <2>1. Unsent' = Unsent /\ Kept' = Kept
    BY <1>2 DEF Numbered, Unsent, Kept, bus
  <2> QED
    BY <1>2, <2>1 DEF Log!vars, Log!log, Log!excuses, bus
<1>3. CASE Call \/ Subscribe \/ CheckIsDue \/ TakeNotice \/ Reauthorize \/ Ended
  BY <1>2, <1>3 DEF Call, Subscribe, CheckIsDue, TakeNotice, Reauthorize, Ended, consumer, told
<1>4. CASE SwitchOff \/ Invalidate \/ SwitchOn \/ ChangeChannel \/ UNCHANGED vars
  BY <1>2, <1>4 DEF SwitchOff, Invalidate, SwitchOn, ChangeChannel, vars, consumer, told
<1>5. CASE Refuse \/ Unreadable \/ Cut
  BY <1>5, Losing DEF Refuse, Unreadable, Cut, consumer, Log!Next
<1>6. CASE Refill
  <2>1. seen \in 0..MaxId
    BY DEF IInv, TypeOK
  <2> QED
    BY <1>6, <2>1, Losing DEF Refill, consumer, Log!Next
<1>7. CASE Start
  <2>1. CASE after # 0
    <3>1. after \in 0..MaxId
      BY DEF IInv, TypeOK
    <3> QED
      BY <1>7, <2>1, <3>1, Losing DEF Start, consumer, Log!Next
  <2>2. CASE after = 0
    <3>1. /\ floor' = next /\ after = 0
          /\ UNCHANGED <<bus, after, got, hidden, overtaken, lost>>
      BY <1>7, <2>2 DEF Start, consumer
    <3>2. Unsent' = Unsent /\ Kept' = Kept
      BY <3>1 DEF Numbered, Unsent, Kept, bus
    <3>3. Log!Begin
      BY <3>1, <3>2 DEF Log!Begin, Log!log, Log!excuses, bus
    <3> QED
      BY <3>3 DEF Log!Next
  <2> QED
    BY <2>1, <2>2
<1>8. CASE WriteBacklog \/ Receive
  BY <1>8, WriteHides DEF Log!Next
<1>9. CASE Read
  BY <1>9, ReadGives DEF Log!Next
<1>10. CASE Restart
  <2>1. Unsent' = {} /\ Kept' = {}
    <3>1. Numbered' = {} /\ Unsent' = {} /\ next' = 0
      BY <1>10, Holders DEF Restart, Idle
    <3> QED
      BY <3>1 DEF Kept
  <2>2. Log!Restart
    BY <1>10, <2>1 DEF Restart, Log!Restart
  <2> QED
    BY <2>2 DEF Log!Next
<1> QED
  BY <1>1, <1>3, <1>4, <1>5, <1>6, <1>7, <1>8, <1>9, <1>10 DEF Next, Opening, Serving, Checking

LEMMA LogInit == Init => Log!Init /\ FromFloor
<1> SUFFICES ASSUME Init PROVE Log!Init /\ FromFloor
  OBVIOUS
<1>1. Numbered = {} /\ Unsent = {} /\ next = 0
  BY Holders DEF Init, Idle
<1>2. Kept = {} /\ Range(<<>>) = {}
  BY <1>1 DEF Kept, Range
<1> QED
  BY <1>1, <1>2 DEF Init, Log!Init, FromFloor

-----------------------------------------------------------------------------
(* The theorems of the feed.                                                    *)

(* Each variable of the bus, the feed and the consumer keeps its type: the ring,   *)
(* the receiver and the wire stay within their sizes.                          *)
THEOREM Typed == Spec => []TypeOK
<1>1. IInv => TypeOK
  BY DEF IInv
<1> QED
  BY <1>1, Always, PTL

(* No event comes twice in one life of the process, replayed and live, before and  *)
(* after a reopening, unless one before it was overtaken (web/api/events.rs         *)
(* frames: "so it is not delivered twice").                                     *)
THEOREM NothingComesTwice == Spec => []NothingTwice
<1>1. IInv => NothingTwice
  BY DEF IInv
<1> QED
  BY <1>1, Always, PTL

(* Each kept event from where the consumer began has come, is not its to see, was   *)
(* overtaken, or lost to the size of the ring, or is held somewhere after the        *)
(* number that the consumer would resume from (plugins/events.rs since).            *)
THEOREM NothingIsSkipped == Spec => []NothingSkipped
<1>1. IInv => NothingSkipped
  BY DEF IInv
<1> QED
  BY <1>1, Always, PTL

(* The consumer reads a log in its order, from the number on that it named, and    *)
(* nothing it is owed is passed over, whatever the publishers, the feed, the        *)
(* connection and the process do in between (plugins/events.rs publish, since,       *)
(* web/api/events.rs frames, sidecar/event_feed.rs run).                         *)
THEOREM FeedKeepsThePromise == Spec => ReadsTheLog
<1>1. IInv /\ FromFloor /\ [Next]_vars => FromFloor' /\ [Log!Next]_Log!vars
  BY FromFloorStep, LogStep
<1> QED
  BY <1>1, LogInit, Always, PTL DEF Spec, ReadsTheLog, Log!Spec
=============================================================================
