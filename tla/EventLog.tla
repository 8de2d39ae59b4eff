------------------------------ MODULE EventLog ------------------------------
(***************************************************************************)
(* What the bus and a feed promise the consumer of the feed: it reads a log.  *)
(* It is given the events in their order, from the number on that it names,    *)
(* each once and with none left out before it.  What it is never given is one   *)
(* of three: hidden, being for the members of a channel; overtaken by a later   *)
(* event on its way into the log or out to the feeds; or lost, when Size later   *)
(* ones are kept.  An event that others overtook may come out of its order, and  *)
(* what is later than it may come again.                                      *)
(*                                                                          *)
(* Numbers begin again with each life of the bus; the consumer's mark does not.  *)
(***************************************************************************)
EXTENDS Naturals, Sequences, Functions

CONSTANT Size

VARIABLES
    next,       \* the last number given out
    members,    \* events for the members of a channel
    kept,       \* events in the log
    sent,       \* those that were also sent to whoever listens
    recent,     \* the last of them, in the order in which they were kept
    mark,       \* the last event given, 0 before the first
    start,      \* what the consumer reads begins after it
    given,      \* what it was given in this life
    hidden, overtaken, lost

log == <<next, members, kept, sent, recent>>
excuses == <<hidden, overtaken, lost>>
vars == <<log, mark, start, given, excuses>>

Init ==
    /\ next = 0 /\ members = {} /\ kept = {} /\ sent = {} /\ recent = <<>>
    /\ mark = 0 /\ start = 0 /\ given = {}
    /\ hidden = {} /\ overtaken = {} /\ lost = {}

Owed == {i \in kept : i > start /\ i \notin given \cup hidden \cup overtaken \cup lost}

\* Only what has left the log is ever lost.
Losing == lost \subseteq lost' /\ lost' \ lost \subseteq kept' \ Range(recent')

Number ==
    /\ next' = next + 1
    /\ members' \in {members, members \cup {next + 1}}
    /\ UNCHANGED <<kept, sent, recent, mark, start, given, excuses>>

Keep(i) ==
    /\ i \in (1..next) \ kept
    /\ kept' = kept \cup {i}
    /\ recent' = IF Len(recent) < Size THEN Append(recent, i) ELSE Tail(Append(recent, i))
    /\ overtaken' = overtaken \cup {j \in (1..next) \ kept : j < i}
    /\ Losing
    /\ UNCHANGED <<next, members, sent, mark, start, given, hidden>>

Send(i) ==
    /\ i \in kept \ sent
    /\ sent' = sent \cup {i}
    /\ overtaken' = overtaken \cup {j \in (1..next) \ sent : j < i}
    /\ Losing
    /\ UNCHANGED <<next, members, kept, recent, mark, start, given, hidden>>

\* Who names no number reads what happens next.
Begin ==
    /\ mark = 0 /\ start' = next
    /\ UNCHANGED <<log, mark, given, excuses>>

Give(i) ==
    /\ i \in kept /\ i > start
    /\ \A j \in Owed : i <= j
    /\ i > mark \/ \E j \in overtaken : j < mark
    /\ i \in given => \E j \in overtaken : j < i
    /\ given' = given \cup {i} /\ mark' = i
    /\ UNCHANGED <<log, start, excuses>>

Hide(i) ==
    /\ i \in kept \cap members /\ i > start
    /\ hidden' = hidden \cup {i}
    /\ UNCHANGED <<log, mark, start, given, overtaken, lost>>

Lose ==
    /\ Losing
    /\ UNCHANGED <<log, mark, start, given, hidden, overtaken>>

Restart ==
    /\ next' = 0 /\ members' = {} /\ kept' = {} /\ sent' = {} /\ recent' = <<>>
    /\ start' = mark /\ given' = {}
    /\ hidden' = {} /\ overtaken' = {} /\ lost' = {}
    /\ UNCHANGED mark

Next ==
    \/ Number
    \/ \E i \in 1..next : Keep(i) \/ Send(i)
    \/ Begin
    \/ \E i \in kept : Give(i) \/ Hide(i)
    \/ Lose
    \/ Restart

Spec == Init /\ [][Next]_vars
=============================================================================
