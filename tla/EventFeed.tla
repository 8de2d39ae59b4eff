------------------------------ MODULE EventFeed ------------------------------
(***************************************************************************)
(* The server-event feed, from who publishes to who consumes               *)
(* (rustak-server/src/plugins/events.rs, visibility.rs, web/api/events.rs;   *)
(* rustak-client/src/control/events.rs, sidecar/event_feed.rs).             *)
(*                                                                         *)
(* An event is numbered, kept in a ring and broadcast in three steps that   *)
(* publishers do not take together.  A feed is one HTTP response: it         *)
(* subscribes, replays what the ring has after the number its consumer       *)
(* names, goes on live, and every minute, or when it is told to, reads its    *)
(* caller's rights again.  The consumer reopens it from the last number it   *)
(* was given.  There is one consumer, with one feed at a time.  Numbers      *)
(* begin again with the process.                                            *)
(***************************************************************************)
EXTENDS Naturals, Sequences, Functions

CONSTANTS
    Publishers,    \* tasks that announce something, each one event at a time
    Limited,       \* those whose events are for a channel's members only
    Ring,          \* events kept, and the depth of a feed's receiver
    WireLen,       \* frames written and not yet read by the consumer
    MaxId,         \* bound: events in one life of the process
    MaxRestarts    \* bound

ASSUME FeedConstants ==
    /\ Ring \in Nat \ {0} /\ WireLen \in Nat \ {0}
    /\ MaxId \in Nat /\ MaxRestarts \in Nat

VARIABLES
    next,          \* the last number given out
    publishing,    \* what each publisher is in the middle of
    limited,       \* numbers of the events for the channel's members only
    ring,          \* what can be replayed, oldest first
    rows,          \* the account's rights: "enabled", "channel"
    telling,       \* the account was switched off and its feeds not yet told
    at,            \* how far the feed has come
    rights,        \* what the feed was last authorised for
    seen, backlog, \* where its replay and its live part have come to
    inbox, lagged, \* its receiver
    notice,        \* it was told to authorise itself again
    wire,          \* frames on their way to the consumer
    after,         \* the number the consumer was last given, 0 before the first
    restarts,
    got, twice,    \* history of this life: what came, and what came again
    hidden,        \* history: events considered and not this consumer's to see
    overtaken,     \* history: a later event was kept, or sent, before it
    lost,          \* history: fell out of the ring and of the feed unread
    floor          \* history: where what the consumer asked for begins

bus == <<next, publishing, limited, ring>>
account == <<rows, telling>>
feed == <<at, rights, seen, backlog, inbox, lagged, notice>>
told == <<hidden, overtaken, lost, floor>>
consumer == <<wire, after, got, twice>>
vars == <<bus, account, feed, consumer, told, restarts>>

Ids == 1..MaxId
Rights == {"enabled", "channel"}
Idle == [at |-> "idle", id |-> 0]

TypeOK ==
    /\ next \in 0..MaxId /\ limited \subseteq 1..next
    /\ publishing \in [Publishers -> [at: {"idle", "numbered", "kept"}, id: 0..MaxId]]
    /\ ring \in Seq(Ids) /\ Len(ring) <= Ring
    /\ rows \subseteq Rights /\ telling \in BOOLEAN
    /\ at \in {"closed", "called", "subscribed", "open", "checking", "ended"}
    /\ rights \subseteq Rights /\ seen \in 0..MaxId
    /\ backlog \in Seq(Ids) /\ Len(backlog) <= Ring
    /\ inbox \in Seq(Ids) /\ Len(inbox) <= Ring
    /\ lagged \in BOOLEAN /\ notice \in BOOLEAN
    /\ wire \in Seq(Ids) /\ Len(wire) <= WireLen /\ after \in 0..MaxId
    /\ restarts \in 0..MaxRestarts
    /\ got \subseteq Ids /\ twice \subseteq got
    /\ hidden \subseteq Ids /\ overtaken \subseteq Ids /\ lost \subseteq Ids
    /\ floor \in 0..MaxId

Init ==
    /\ next = 0 /\ publishing = [p \in Publishers |-> Idle]
    /\ limited = {} /\ ring = <<>>
    /\ rows = Rights /\ telling = FALSE
    /\ at = "closed" /\ rights = {} /\ seen = 0 /\ backlog = <<>>
    /\ inbox = <<>> /\ lagged = FALSE /\ notice = FALSE
    /\ wire = <<>> /\ after = 0 /\ restarts = 0
    /\ got = {} /\ twice = {} /\ hidden = {} /\ overtaken = {} /\ lost = {} /\ floor = 0

Larger(a, b) == IF a > b THEN a ELSE b

\* The events a publisher has numbered and not kept yet, or kept and not sent.
Numbered == {publishing[p].id : p \in {q \in Publishers : publishing[q].at = "numbered"}}
Unsent == {publishing[p].id : p \in {q \in Publishers : publishing[q].at = "kept"}}
Kept == (1..next) \ Numbered

\* From where an event can still reach the consumer.
InReach == Range(ring) \cup Unsent \cup Range(inbox) \cup Range(backlog) \cup Range(wire)

\* What a step that gives events up leaves behind.
Lose == lost' = lost \cup (Kept' \ (InReach' \cup got))

-----------------------------------------------------------------------------
(* Publishing.                                                              *)

Publish(p) ==
    /\ publishing[p] = Idle /\ next < MaxId
    /\ next' = next + 1
    /\ publishing' = [publishing EXCEPT ![p] = [at |-> "numbered", id |-> next + 1]]
    /\ limited' = IF p \in Limited THEN limited \cup {next + 1} ELSE limited
    /\ UNCHANGED <<ring, account, feed, consumer, told, restarts>>

\* The last n of a sequence.
Latest(n, s) == IF Len(s) > n THEN Tail(s) ELSE s

Keep(p) ==
    /\ publishing[p].at = "numbered"
    /\ publishing' = [publishing EXCEPT ![p].at = "kept"]
    /\ ring' = Latest(Ring, Append(ring, publishing[p].id))
    /\ overtaken' = overtaken \cup {i \in Numbered : i < publishing[p].id}
    /\ UNCHANGED <<next, limited, account, feed, consumer, hidden, floor, restarts>>
    /\ Lose

\* A receiver that is full loses its oldest, and hears that it lagged.
Send(p) ==
    LET listening == at \in {"subscribed", "open", "checking"} IN
    /\ publishing[p].at = "kept"
    /\ publishing' = [publishing EXCEPT ![p] = Idle]
    /\ IF listening
       THEN /\ inbox' = Latest(Ring, Append(inbox, publishing[p].id))
            /\ lagged' = (lagged \/ Len(inbox) = Ring)
       ELSE UNCHANGED <<inbox, lagged>>
    /\ overtaken' = overtaken \cup {i \in Numbered \cup Unsent : i < publishing[p].id}
    /\ UNCHANGED <<next, limited, ring, account, at, rights, seen, backlog, notice,
                   consumer, hidden, floor, restarts>>
    /\ Lose

\* What the ring has after id, in its order.
Since(id) ==
    LET later[n \in 0..Len(ring)] ==
            IF n = 0 THEN <<>>
            ELSE IF ring[n] > id THEN Append(later[n - 1], ring[n]) ELSE later[n - 1]
    IN  later[Len(ring)]

\* A replay goes past what the ring has lost already, though it may still be in
\* the receiver, or about to be sent to it: that will be taken as seen.
Replay(id) ==
    /\ backlog' = Since(id)
    /\ lost' = lost \cup {i \in (Unsent \cup Range(inbox)) \ Range(ring) :
                            i > id /\ \E j \in Range(Since(id)) : j > i}

-----------------------------------------------------------------------------
(* Opening a feed.                                                          *)

Call ==
    /\ at = "closed" /\ "enabled" \in rows
    /\ at' = "called" /\ rights' = rows
    /\ UNCHANGED <<bus, account, seen, backlog, inbox, lagged, notice, consumer, told, restarts>>

Subscribe ==
    /\ at = "called" /\ at' = "subscribed"
    /\ UNCHANGED <<bus, account, rights, seen, backlog, inbox, lagged, notice,
                   consumer, told, restarts>>

\* Mutant: a consumer that comes back begins with what happens next, as a new one.
StartFromNow ==
    /\ at = "subscribed" /\ at' = "open"
    /\ seen' = next /\ backlog' = <<>>
    /\ floor' = IF after = 0 THEN next ELSE floor
    /\ UNCHANGED <<bus, account, rights, inbox, lagged, notice, consumer,
                   hidden, overtaken, lost, restarts>>

\* A consumer that names no number asks for what happens next.
Start ==
    /\ at = "subscribed" /\ at' = "open"
    /\ IF after = 0
       THEN seen' = next /\ backlog' = <<>> /\ floor' = next /\ UNCHANGED lost
       ELSE seen' = after /\ Replay(after) /\ UNCHANGED floor
    /\ UNCHANGED <<bus, account, rights, inbox, lagged, notice, consumer,
                   hidden, overtaken, restarts>>

-----------------------------------------------------------------------------
(* An open feed.  It is polled while its body is being read.                 *)

Polled == at = "open" /\ Len(wire) < WireLen

MaySee(i) == i \in limited => "channel" \in rights

\* Writing a frame, or leaving one out.
Frame(i) ==
    IF MaySee(i)
    THEN wire' = Append(wire, i) /\ UNCHANGED hidden
    ELSE hidden' = hidden \cup {i} /\ UNCHANGED wire

WriteBacklog ==
    /\ Polled /\ backlog # <<>>
    /\ backlog' = Tail(backlog)
    /\ seen' = Larger(seen, Head(backlog))
    /\ Frame(Head(backlog))
    /\ UNCHANGED <<bus, account, at, rights, inbox, lagged, notice,
                   after, got, twice, overtaken, lost, floor, restarts>>

\* A receiver that lagged says so first, and the ring is read again.
Refill ==
    /\ Polled /\ backlog = <<>> /\ lagged
    /\ lagged' = FALSE /\ Replay(seen)
    /\ UNCHANGED <<bus, account, at, rights, seen, inbox, notice, consumer,
                   hidden, overtaken, floor, restarts>>

\* Mutant: what the replay has written is not left out.
ReceiveAgain ==
    /\ Polled /\ backlog = <<>> /\ ~lagged /\ inbox # <<>>
    /\ inbox' = Tail(inbox)
    /\ seen' = Head(inbox) /\ Frame(Head(inbox))
    /\ UNCHANGED <<bus, account, at, rights, backlog, lagged, notice,
                   after, got, twice, overtaken, lost, floor, restarts>>

Receive ==
    /\ Polled /\ backlog = <<>> /\ ~lagged /\ inbox # <<>>
    /\ inbox' = Tail(inbox)
    /\ IF Head(inbox) <= seen
       THEN UNCHANGED <<seen, wire, hidden>>
       ELSE seen' = Head(inbox) /\ Frame(Head(inbox))
    /\ UNCHANGED <<bus, account, at, rights, backlog, lagged, notice,
                   after, got, twice, overtaken, lost, floor, restarts>>

\* Mutant: the deadline is made anew with each frame, and never met.
CheckIfTold ==
    /\ Polled /\ backlog = <<>> /\ notice
    /\ at' = "checking"
    /\ UNCHANGED <<bus, account, rights, seen, backlog, inbox, lagged, notice,
                   consumer, told, restarts>>

\* The minute is over.
CheckIsDue ==
    /\ Polled /\ backlog = <<>>
    /\ at' = "checking"
    /\ UNCHANGED <<bus, account, rights, seen, backlog, inbox, lagged, notice,
                   consumer, told, restarts>>

\* Whoever switches the account off has said so.
TakeNotice ==
    /\ Polled /\ backlog = <<>> /\ notice
    /\ at' = "checking" /\ notice' = FALSE
    /\ UNCHANGED <<bus, account, rights, seen, backlog, inbox, lagged,
                   consumer, told, restarts>>

\* The feed is dropped: with its receiver goes what was in it.
Drop(to) ==
    /\ at' = to /\ rights' = {} /\ seen' = 0 /\ backlog' = <<>>
    /\ inbox' = <<>> /\ lagged' = FALSE /\ notice' = FALSE

Reauthorize ==
    /\ at = "checking" /\ "enabled" \in rows
    /\ at' = "open" /\ rights' = rows
    /\ UNCHANGED <<bus, account, seen, backlog, inbox, lagged, notice, consumer, told, restarts>>

\* The caller is refused.
Refuse ==
    /\ at = "checking" /\ "enabled" \notin rows
    /\ Drop("ended")
    /\ UNCHANGED <<bus, account, consumer, hidden, overtaken, floor, restarts>>
    /\ Lose

\* A read of the caller's rights fails, or the token the feed was opened with has run out.
Unreadable ==
    /\ at = "checking"
    /\ Drop("ended")
    /\ UNCHANGED <<bus, account, consumer, hidden, overtaken, floor, restarts>>
    /\ Lose

-----------------------------------------------------------------------------
(* The consumer.                                                            *)

Read ==
    /\ wire # <<>>
    /\ wire' = Tail(wire) /\ after' = Head(wire)
    /\ got' = got \cup {Head(wire)}
    /\ twice' = twice \cup (got \cap {Head(wire)})
    /\ UNCHANGED <<bus, account, feed, told, restarts>>

\* Mutant: a feed that the server has ended is not opened again.
StayEnded == at = "ended" /\ wire = <<>> /\ UNCHANGED vars

\* The body has been read to its end.
Ended ==
    /\ at = "ended" /\ wire = <<>> /\ at' = "closed"
    /\ UNCHANGED <<bus, account, rights, seen, backlog, inbox, lagged, notice,
                   consumer, told, restarts>>

\* The connection breaks, or is silent for too long.
Cut ==
    /\ at # "closed"
    /\ Drop("closed") /\ wire' = <<>>
    /\ UNCHANGED <<bus, account, after, got, twice, hidden, overtaken, floor, restarts>>
    /\ Lose

-----------------------------------------------------------------------------
(* The account, and the process.                                            *)

SwitchOff ==
    /\ ~telling /\ telling' = TRUE
    /\ rows' = rows \ {"enabled"}
    /\ UNCHANGED <<bus, feed, consumer, told, restarts>>

\* One notice or several, the feed authorises itself again.
Invalidate ==
    /\ telling /\ telling' = FALSE
    /\ notice' = (notice \/ at \in {"subscribed", "open", "checking"})
    /\ UNCHANGED <<bus, rows, at, rights, seen, backlog, inbox, lagged, consumer, told, restarts>>

SwitchOn ==
    /\ ~telling /\ rows' = rows \cup {"enabled"}
    /\ UNCHANGED <<bus, telling, feed, consumer, told, restarts>>

\* A change of channels is announced, and the feed is not told.
ChangeChannel ==
    /\ ~telling
    /\ rows' = IF "channel" \in rows THEN rows \ {"channel"} ELSE rows \cup {"channel"}
    /\ UNCHANGED <<bus, telling, feed, consumer, told, restarts>>

Restart ==
    /\ restarts < MaxRestarts /\ restarts' = restarts + 1
    /\ next' = 0 /\ publishing' = [p \in Publishers |-> Idle] /\ limited' = {} /\ ring' = <<>>
    /\ telling' = FALSE
    /\ Drop("closed") /\ wire' = <<>>
    /\ got' = {} /\ twice' = {} /\ hidden' = {} /\ overtaken' = {} /\ lost' = {}
    /\ floor' = after
    /\ UNCHANGED <<rows, after>>

Publishing(p) == Publish(p) \/ Keep(p) \/ Send(p)
Opening == Call \/ Subscribe \/ Start
Checking == Reauthorize \/ Refuse
Serving == WriteBacklog \/ Refill \/ Receive

Next ==
    \/ \E p \in Publishers : Publishing(p)
    \/ Opening \/ Serving \/ CheckIsDue \/ TakeNotice \/ Checking \/ Unreadable
    \/ Read \/ Ended \/ Cut
    \/ SwitchOff \/ Invalidate \/ SwitchOn \/ ChangeChannel
    \/ Restart

Spec == Init /\ [][Next]_vars

(* A publisher that has a number goes on; the consumer reopens and reads; a      *)
(* feed is polled.  The next check is a minute after the last, so it does not     *)
(* keep a feed from its events, nor, being asked for first, they it from the      *)
(* check.  Nothing has to be published, changed or cut.                         *)
Fairness ==
    /\ \A p \in Publishers : WF_vars(Keep(p) \/ Send(p))
    /\ WF_vars(Opening) /\ WF_vars(Read) /\ WF_vars(Ended)
    /\ SF_vars(Serving) /\ SF_vars(CheckIsDue \/ TakeNotice) /\ WF_vars(Checking)

FairSpec == Spec /\ Fairness

-----------------------------------------------------------------------------
(* Nothing comes twice in one life of the process, replayed and live, before    *)
(* and after a reopening (web/api/events.rs: "so it is not delivered twice"),     *)
(* but for an event that overtook an earlier one: the ring replays the two out     *)
(* of order, and the consumer's number is the earlier one's.                     *)
NothingTwice == \A i \in twice : \E j \in overtaken : j < i

(* From where the consumer began, each event of this life that was kept has       *)
(* come, is not its to see, was overtaken or lost to the size of the ring, or      *)
(* can still come: it is held somewhere, and after the number from which the       *)
(* consumer would resume (plugins/events.rs since, web/api/events.rs frames).     *)
NothingSkipped ==
    \A i \in Kept :
        i > floor /\ i \notin got \cup hidden \cup overtaken \cup lost =>
            i > after /\ i \in InReach

(* A right that is taken away is taken from the open feed too (reauthorize), or   *)
(* the feed ends, also if it was opened just as the right was taken and never      *)
(* heard of it.                                                                *)
RightsFollow ==
    \A r \in Rights : r \notin rows /\ r \in rights ~> r \in rows \/ r \notin rights

\* From some point on nothing is cut, restarted or changed.
Calm == <>[][~ (Cut \/ Restart \/ Unreadable \/ SwitchOff \/ SwitchOn \/ ChangeChannel)]_vars

(* Once nothing disturbs it any more, what an account that is on was owed does     *)
(* come, or turns out to be hidden, overtaken or lost (sidecar/event_feed.rs run).  *)
FeedCatchesUp ==
    Calm => \A i \in Ids :
        i \in Kept /\ i > floor ~>
            \/ i \in got \cup hidden \cup overtaken \cup lost
            \/ i <= floor \/ i \notin Kept \/ "enabled" \notin rows

-----------------------------------------------------------------------------
(* The promise of EventLog, as the bus, the feed and its consumer keep it.       *)
Log == INSTANCE EventLog WITH
    Size <- Ring, members <- limited, kept <- Kept, sent <- Kept \ Unsent,
    recent <- ring, mark <- after, start <- floor, given <- got

(* What the consumer is given is the log from the number on that it named, in its    *)
(* order, through the ring, the receiver and the wire, over replays, lags and        *)
(* reopenings (events.rs since, subscribe, frames; event_feed.rs run): no event      *)
(* that is owed is passed over, none comes again unless an earlier one was           *)
(* overtaken, and none is lost that the ring still has.                             *)
ReadsTheLog == Log!Spec
=============================================================================
