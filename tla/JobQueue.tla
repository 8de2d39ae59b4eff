------------------------------ MODULE JobQueue ------------------------------
(***************************************************************************)
(* The `queues` table of rustak-server and the transactions of             *)
(* db/queue_sqlite.rs upon it.  Every operator below that primes a         *)
(* variable is one `BEGIN IMMEDIATE` transaction: the database has a single *)
(* writer, so a transaction is one step.                                   *)
(*                                                                         *)
(* A key stands for a (partition, key) pair.  Time is abstracted to what   *)
(* the queries ask of it: a row is hidden while its `hidden_until` lies     *)
(* ahead, and `older` is the order of the rows' `scheduled_at`.             *)
(***************************************************************************)
EXTENDS Naturals, FiniteSets

CONSTANTS
    Keys,          \* (partition, key) pairs
    Payloads,      \* what a message carries
    Reservations,  \* the uuids a reservation may draw
    Nobody,        \* `reserved_by` IS NULL
    NoRow,         \* there is no row under the key
    AttemptCap     \* attempts are counted up to here; see Bump

ASSUME QueueConstants ==
    /\ Nobody \notin Reservations
    /\ AttemptCap \in Nat \ {0}
    /\ NoRow \notin [payload: Payloads, holder: Reservations \cup {Nobody},
                     hidden: BOOLEAN, attempts: 0..AttemptCap]

VARIABLES
    rows,          \* the table, NoRow where a key is not in it
    older          \* <<j, k>> when row j was scheduled before row k

queueVars == <<rows, older>>

Row == [payload: Payloads, holder: Reservations \cup {Nobody},
        hidden: BOOLEAN, attempts: 0..AttemptCap]

QueueTypeOK ==
    /\ rows \in [Keys -> Row \cup {NoRow}]
    /\ older \subseteq Keys \X Keys

Present(k) == rows[k] # NoRow

HeldBy(k, r) == Present(k) /\ rows[k].holder = r

\* Mutant: a row somebody once reserved is never due again.
DueUnreserved == {k \in Keys : Present(k) /\ ~rows[k].hidden /\ rows[k].holder = Nobody}

\* The query of a reservation: the oldest row whose visibility timeout passed.
Due == {k \in Keys : Present(k) /\ ~rows[k].hidden}

\* Mutant: the order of `scheduled_at` is ignored, any due row may be taken.
NextDueUnordered(k) == k \in Due

NextDue(k) == k \in Due /\ \A j \in Due : <<j, k>> \notin older

\* Nothing in the code tells two counts beyond the ceiling apart.
Bump(n) == IF n < AttemptCap THEN n + 1 ELSE n

Forget(k) == {pair \in older : pair[1] # k /\ pair[2] # k}

-----------------------------------------------------------------------------
\* Mutant: the upsert leaves the reservation it finds in place.
EnqueueKeepsHolder(k, p, delayed) ==
    /\ rows' = [rows EXCEPT ![k] =
                   [payload |-> p,
                    holder |-> IF Present(k) THEN rows[k].holder ELSE Nobody,
                    hidden |-> delayed, attempts |-> 0]]
    /\ older' = Forget(k) \cup {<<j, k>> : j \in {i \in Keys \ {k} : Present(i)}}

(* An upsert: a key already queued is rescheduled, which clears whatever    *)
(* reservation and attempts it had.                                         *)
Enqueue(k, p, delayed) ==
    /\ rows' = [rows EXCEPT ![k] = [payload |-> p, holder |-> Nobody,
                                    hidden |-> delayed, attempts |-> 0]]
    /\ older' = Forget(k) \cup {<<j, k>> : j \in {i \in Keys \ {k} : Present(i)}}

ReserveNext(k, r) ==
    /\ NextDue(k)
    /\ rows' = [rows EXCEPT ![k] = [payload |-> rows[k].payload, holder |-> r,
                                    hidden |-> TRUE,
                                    attempts |-> Bump(rows[k].attempts)]]
    /\ UNCHANGED older

Delete(k) ==
    /\ rows' = [rows EXCEPT ![k] = NoRow]
    /\ older' = Forget(k)

\* Mutant: the message is deleted by its key alone.
CompleteByKey(k, r) ==
    \/ Present(k) /\ Delete(k)
    \/ ~Present(k) /\ UNCHANGED queueVars

(* DELETE ... WHERE reserved_by = r: only the reservation is compared, never *)
(* the visibility timeout.                                                   *)
Complete(k, r) ==
    \/ HeldBy(k, r) /\ Delete(k)
    \/ ~HeldBy(k, r) /\ UNCHANGED queueVars

(* UPDATE ... SET hidden_until WHERE reserved_by = r. *)
Reserve(k, r) ==
    /\ rows' = IF HeldBy(k, r)
               THEN [rows EXCEPT ![k] = [payload |-> rows[k].payload, holder |-> r,
                                         hidden |-> TRUE,
                                         attempts |-> rows[k].attempts]]
               ELSE rows
    /\ UNCHANGED older

\* Removes a row whether or not it is reserved.
Purge(k) == Present(k) /\ Delete(k)

(* `hidden_until` passes.  The reservation stays written in the row until    *)
(* somebody else reserves it.                                                *)
Lapse(k) ==
    /\ Present(k) /\ rows[k].hidden
    /\ rows' = [rows EXCEPT ![k] = [payload |-> rows[k].payload,
                                    holder |-> rows[k].holder, hidden |-> FALSE,
                                    attempts |-> rows[k].attempts]]
    /\ UNCHANGED older
=============================================================================
