------------------------------- MODULE JobHost -------------------------------
(***************************************************************************)
(* The single consumer of the queue (rustak-server/src/jobs): it arms the   *)
(* recurring jobs, reserves due messages while fewer than InFlight runs are *)
(* under way, and takes each through its handler to completion, a retry or  *)
(* the dead letters.                                                        *)
(*                                                                         *)
(* A run is identified by the reservation it was handed.  Every await in    *)
(* `process` is a step boundary: in between, the reservation can lapse and   *)
(* be taken by another run, the message can be enqueued afresh, and the     *)
(* process can stop.                                                        *)
(***************************************************************************)
EXTENDS JobQueue

CONSTANTS
    Recurring,     \* keys of the recurring jobs' scheduled messages
    Eager,         \* the recurring jobs that dispatch themselves at start-up
    Unhandled,     \* keys in partitions no handler is registered for
    Unreadable,    \* payloads of an older release, which no longer deserialise
    Purgeable,     \* keys cancelled by hand
    InFlight,      \* `jobs.in_flight()`
    MaxAttempts,   \* `jobs.max_attempts`; 0 retries for ever
    NoTask, NoPayload

ASSUME HostConstants ==
    /\ Recurring \subseteq Keys /\ Eager \subseteq Recurring
    /\ Unhandled \subseteq Keys \ Recurring
    /\ Purgeable \subseteq Keys
    /\ Unreadable \subseteq Payloads /\ NoPayload \notin Payloads
    /\ InFlight \in Nat \ {0}
    /\ MaxAttempts \in 0..AttemptCap

VARIABLES
    host,       \* "down", "setup" or "polling"
    arming,     \* the recurring jobs whose setup has not run yet
    tasks,      \* the runs, by reservation
    letters,    \* the dead letters, by key
    cancelled   \* the keys whose last message was purged

hostVars == <<host, arming>>
vars == <<rows, older, host, arming, tasks, letters, cancelled>>

Plain == Keys \ (Recurring \cup Unhandled)
Readable == Payloads \ Unreadable

Phases == {"narrow", "handle", "work", "complete", "failed", "remove", "drop"}

Task == [key: Keys, payload: Payloads, attempts: 0..AttemptCap, at: Phases]

ASSUME NoTaskIsNoTask == NoTask \notin Task

TypeOK ==
    /\ QueueTypeOK
    /\ host \in {"down", "setup", "polling"}
    /\ arming \subseteq Recurring
    /\ tasks \in [Reservations -> Task \cup {NoTask}]
    /\ letters \in [Keys -> Payloads \cup {NoPayload}]
    /\ cancelled \subseteq Keys

Running(r) == tasks[r] # NoTask
At(r, phase) == Running(r) /\ tasks[r].at = phase
Live == {r \in Reservations : Running(r)}

\* A uuid just drawn: nothing else carries it.
Fresh(r) == ~Running(r) /\ \A k \in Keys : ~HeldBy(k, r)

Goto(r, phase) == tasks' = [tasks EXCEPT ![r] = [key |-> tasks[r].key,
                                payload |-> tasks[r].payload,
                                attempts |-> tasks[r].attempts, at |-> phase]]
End(r) == tasks' = [tasks EXCEPT ![r] = NoTask]

Exhausted(attempts) == MaxAttempts > 0 /\ attempts >= MaxAttempts

-----------------------------------------------------------------------------
(* A process starts on whatever the last one left in the table: messages     *)
(* waiting, some of them of a release whose payloads or partitions are gone. *)
Left(k) == {NoRow} \cup [payload: IF k \in Recurring THEN Payloads ELSE Readable,
                         holder: {Nobody}, hidden: {FALSE}, attempts: {0}]

Init ==
    /\ rows \in {f \in [Keys -> UNION {Left(k) : k \in Keys}] :
                     \A k \in Keys : f[k] \in Left(k)}
    /\ older = {}
    /\ host = "down" /\ arming = {}
    /\ tasks = [r \in Reservations |-> NoTask]
    /\ letters = [k \in Keys |-> NoPayload]
    /\ cancelled = {}

Start ==
    /\ host = "down"
    /\ host' = "setup" /\ arming' = Recurring
    /\ UNCHANGED <<queueVars, tasks, letters, cancelled>>

\* The scheduled message is left alone unless nothing is armed, or it is armed
\* further out than an interval that was shortened since.
Armed(k, shortened) ==
    Present(k) /\ (rows[k].holder # Nobody \/ ~rows[k].hidden \/ ~shortened)

SetUp(k) ==
    /\ host = "setup" /\ k \in arming
    /\ \/ k \in Eager /\ \E p \in Readable : Enqueue(k, p, FALSE)
       \/ /\ k \notin Eager
          /\ \E shortened \in BOOLEAN :
                \/ Armed(k, shortened) /\ UNCHANGED queueVars
                \/ ~Armed(k, shortened) /\ \E p \in Readable : Enqueue(k, p, TRUE)
    /\ arming' = arming \ {k}
    /\ cancelled' = cancelled \ {k}
    /\ UNCHANGED <<host, tasks, letters>>

Poll ==
    /\ host = "setup" /\ arming = {}
    /\ host' = "polling"
    /\ UNCHANGED <<queueVars, arming, tasks, letters, cancelled>>

\* The host is cancelled, fails or crashes: runs are aborted where they stand,
\* a reservation it committed and never spawned a run for included.
Stop ==
    /\ host # "down"
    /\ host' = "down" /\ arming' = {}
    /\ tasks' = [r \in Reservations |-> NoTask]
    /\ UNCHANGED <<queueVars, letters, cancelled>>

-----------------------------------------------------------------------------
(* Somebody dispatches work.  Only a recurring job touches its own key.     *)
Dispatch(k, p) ==
    /\ host # "down"
    /\ k \in Plain /\ p \in Readable
    /\ \E delayed \in BOOLEAN : Enqueue(k, p, delayed)
    /\ cancelled' = cancelled \ {k}
    /\ UNCHANGED <<hostVars, tasks, letters>>

Cancel(k) ==
    /\ host # "down"
    /\ k \in Purgeable
    /\ Purge(k)
    /\ cancelled' = cancelled \cup {k}
    /\ UNCHANGED <<hostVars, tasks, letters>>

(* The loop reserves a message only once there is room to run it, and drops  *)
(* one nothing is registered for before it looks for another.                *)
Dequeue(k, r) ==
    /\ host = "polling"
    /\ \A t \in Reservations : ~At(t, "drop")
    /\ Cardinality(Live) < InFlight
    /\ Fresh(r)
    /\ ReserveNext(k, r)
    /\ tasks' = [tasks EXCEPT ![r] = [key |-> k, payload |-> rows[k].payload,
                     attempts |-> Bump(rows[k].attempts),
                     at |-> IF k \in Unhandled THEN "drop" ELSE "narrow"]]
    /\ UNCHANGED <<hostVars, letters, cancelled>>

\* The reservation is narrowed to the handler's own timeout.
Narrow(r) ==
    /\ At(r, "narrow")
    /\ Reserve(tasks[r].key, r)
    /\ Goto(r, "handle")
    /\ UNCHANGED <<hostVars, letters, cancelled>>

\* The payload is read, and a recurring job re-arms itself before its work.
Handle(r) ==
    /\ At(r, "handle")
    /\ \/ /\ tasks[r].payload \in Unreadable
          /\ Goto(r, "failed") /\ UNCHANGED <<queueVars, cancelled>>
       \/ /\ tasks[r].payload \in Readable /\ tasks[r].key \notin Recurring
          /\ Goto(r, "work") /\ UNCHANGED <<queueVars, cancelled>>
       \/ /\ tasks[r].payload \in Readable /\ tasks[r].key \in Recurring
          /\ \E p \in Readable : Enqueue(tasks[r].key, p, TRUE)
          /\ cancelled' = cancelled \ {tasks[r].key}
          /\ Goto(r, "work")
    /\ UNCHANGED <<hostVars, letters>>

\* The handler returns, or panics, which counts as a failure.
Work(r) ==
    /\ At(r, "work")
    /\ Goto(r, "complete") \/ Goto(r, "failed")
    /\ UNCHANGED <<queueVars, hostVars, letters, cancelled>>

Settle(r, phase) ==
    /\ At(r, phase)
    /\ Complete(tasks[r].key, r)
    /\ End(r)
    /\ UNCHANGED <<hostVars, letters, cancelled>>

Succeed(r) == Settle(r, "complete")
DropUnhandled(r) == Settle(r, "drop")

\* A failed message is held back for as long as its attempts call for.
Backoff(r) ==
    /\ At(r, "failed") /\ ~Exhausted(tasks[r].attempts)
    /\ Reserve(tasks[r].key, r)
    /\ End(r)
    /\ UNCHANGED <<hostVars, letters, cancelled>>

\* Out of attempts: the letter is written first, then the message removed.
SetAside(r) ==
    /\ At(r, "failed") /\ Exhausted(tasks[r].attempts)
    /\ letters' = [letters EXCEPT ![tasks[r].key] = tasks[r].payload]
    /\ Goto(r, "remove")
    /\ UNCHANGED <<queueVars, hostVars, cancelled>>

RemoveSetAside(r) == Settle(r, "remove")

\* The run's reservation stands, though its timeout has passed.
HeldInTheOpen(r) == HeldBy(tasks[r].key, r) /\ ~rows[tasks[r].key].hidden

(* The database refuses one write.  The host logs it and carries on as if it *)
(* had happened; only a handler's own re-arm passes the error up.  To refuse *)
(* a write that would have changed nothing is to do that step.               *)
DatabaseError(r) ==
    /\ \/ At(r, "narrow") /\ HeldInTheOpen(r) /\ Goto(r, "handle")
       \/ /\ At(r, "handle") /\ Goto(r, "failed")
          /\ tasks[r].payload \in Readable /\ tasks[r].key \in Recurring
       \/ /\ At(r, "failed") /\ ~Exhausted(tasks[r].attempts)
          /\ HeldInTheOpen(r) /\ End(r)
       \/ /\ At(r, "failed") /\ Exhausted(tasks[r].attempts)
          /\ letters[tasks[r].key] # tasks[r].payload /\ Goto(r, "remove")
       \/ /\ At(r, "complete") \/ At(r, "drop") \/ At(r, "remove")
          /\ HeldBy(tasks[r].key, r) /\ End(r)
    /\ UNCHANGED <<queueVars, hostVars, letters, cancelled>>

\* A reservation lapses while its run is still under way, since no run is
\* stopped at its timeout; or after its run has gone, or a delay passes.
Overrun(k) ==
    /\ Lapse(k)
    /\ \E r \in Live : HeldBy(k, r)
    /\ UNCHANGED <<hostVars, tasks, letters, cancelled>>

FallDue(k) ==
    /\ Lapse(k)
    /\ ~\E r \in Live : HeldBy(k, r)
    /\ UNCHANGED <<hostVars, tasks, letters, cancelled>>

-----------------------------------------------------------------------------
RunStep(r) ==
    \/ Narrow(r) \/ Handle(r) \/ Work(r) \/ Succeed(r) \/ DropUnhandled(r)
    \/ Backoff(r) \/ SetAside(r) \/ RemoveSetAside(r)

Next ==
    \/ Start \/ Poll \/ Stop
    \/ \E k \in Keys :
        \/ SetUp(k) \/ Cancel(k) \/ Overrun(k) \/ FallDue(k)
        \/ \E p \in Payloads : Dispatch(k, p)
        \/ \E r \in Reservations : Dequeue(k, r)
    \/ \E r \in Reservations : RunStep(r) \/ DatabaseError(r)

Spec == Init /\ [][Next]_vars

(* tokio polls every ready task, a handler returns, and the clock advances. *)
Fairness ==
    /\ WF_vars(Start) /\ WF_vars(Poll)
    /\ \A k \in Keys : WF_vars(SetUp(k)) /\ WF_vars(FallDue(k))
    /\ WF_vars(\E k \in Keys, r \in Reservations : Dequeue(k, r))
    /\ \A r \in Reservations : WF_vars(RunStep(r))

FairSpec == Spec /\ Fairness

\* The same host over a database that refuses no write.
SoundDatabaseSpec == Init /\ [][Next /\ ~\E r \in Reservations : DatabaseError(r)]_vars
-----------------------------------------------------------------------------
(* The promise of WorkQueue, as this host keeps it: a message is running     *)
(* while the reservation written in its row belongs to a run under way, and  *)
(* finished once that run is about to delete it.                             *)
Stage(k) ==
    IF ~Present(k) THEN "idle"
    ELSE IF ~\E r \in Live : HeldBy(k, r) THEN "waiting"
    ELSE IF tasks[rows[k].holder].at \in {"complete", "remove", "drop"} THEN "finished"
    ELSE "running"

Promise == INSTANCE WorkQueue WITH
    pending <- [k \in Keys |-> IF Present(k) THEN rows[k].payload ELSE NoPayload],
    stage <- [k \in Keys |-> Stage(k)]

(* A message leaves the table only when the run that holds this submission   *)
(* of it has finished, or by hand (db/queue_sqlite.rs complete and purge,     *)
(* jobs/host.rs process): a stale run, a restart or a failed write forgets    *)
(* no work.                                                                  *)
NothingForgotten == Promise!Spec

(* A reservation proves what it claims (db/queue.rs QueueMessage): the run    *)
(* whose reservation a row carries works on that row, on the payload the row  *)
(* now has and at the attempt the row now counts, however often the message  *)
(* was rescheduled, lapsed or taken over meanwhile.                          *)
HolderIsCurrent ==
    \A k \in Keys, r \in Reservations :
        HeldBy(k, r) /\ Running(r) =>
            /\ tasks[r].key = k
            /\ tasks[r].payload = rows[k].payload
            /\ tasks[r].attempts = rows[k].attempts

(* A recurring job that has re-armed itself no longer holds its message       *)
(* (jobs/mod.rs, "Recurring work"), so what follows the re-arm, success,       *)
(* failure or takeover, cannot touch the rescheduled one.                    *)
RearmReleases ==
    \A r \in Reservations :
        Running(r) /\ tasks[r].key \in Recurring /\ tasks[r].at \in {"work", "complete"} =>
            ~HeldBy(tasks[r].key, r)

(* A schedule ends only in the dead letters or by hand: no successful run,    *)
(* failed run, lapse or restart removes a recurring job's message             *)
(* (jobs/mod.rs, jobs/host.rs process).                                      *)
ScheduleKept ==
    [][\A k \in Recurring :
          Present(k) /\ ~Present(k)' =>
              \/ \E r \in Reservations : HeldBy(k, r) /\ At(r, "remove")
              \/ k \in cancelled']_vars

(* Once nothing disturbs the host any more: no restart, no new work, no       *)
(* refused write and no run that outlives its reservation.                   *)
Disturbance ==
    \/ Stop
    \/ \E k \in Keys : Overrun(k) \/ Cancel(k) \/ \E p \in Payloads : Dispatch(k, p)
    \/ \E r \in Reservations : DatabaseError(r)

Calm == <>[][~Disturbance]_vars

(* With a ceiling on attempts, every message that is not a schedule leaves    *)
(* the table: completed, dead-lettered or dropped (jobs/host.rs run,          *)
(* process; config/jobs.rs is_exhausted).  The queue's order is what keeps a  *)
(* retried or recurring message from starving the others.                    *)
QueueDrains == Calm => \A k \in Keys \ Recurring : <>[]~Present(k)

(* A recurring job whose schedule is not lost runs again and again, whether   *)
(* its runs fail or succeed (jobs/mod.rs, "Recurring work").                 *)
ScheduleRuns ==
    Calm => \A k \in Recurring :
                \/ []<>(\E r \in Reservations : At(r, "work") /\ tasks[r].key = k)
                \/ <>[]~Present(k)

-----------------------------------------------------------------------------
(* What the comments of the code say and the code does not do.               *)

(* "a run that fails is one missed run rather than the end of the schedule"    *)
(* (jobs/mod.rs): while the host polls, every schedule is armed.              *)
FailedRunIsOneMissedRun == host = "polling" => \A k \in Recurring : Present(k)
=============================================================================
