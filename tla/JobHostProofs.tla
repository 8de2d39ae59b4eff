---------------------------- MODULE JobHostProofs ----------------------------
(***************************************************************************)
(* Proofs about JobHost, for any number of keys, payloads, reservations and *)
(* concurrent runs.  The argument is one inductive invariant, IInv: types,  *)
(* what a reservation proves about the run that carries it, that a          *)
(* recurring job lets go of its message when it re-arms, and that only      *)
(* messages without a handler are dropped.                                  *)
(***************************************************************************)
EXTENDS JobHost, TLAPS

\* Only a message nothing is registered to run is on its way to being dropped.
DropsUnhandled ==
    \A r \in Reservations : At(r, "drop") => tasks[r].key \in Unhandled

IInv == TypeOK /\ HolderIsCurrent /\ RearmReleases /\ DropsUnhandled

-----------------------------------------------------------------------------
(* Counting an attempt stays within the cap.                                 *)
LEMMA BumpType == ASSUME NEW n \in 0..AttemptCap PROVE Bump(n) \in 0..AttemptCap
  BY QueueConstants DEF Bump

(* The order of the rows stays a relation between keys, when a row is forgotten*)
(* and when one is added behind the others.                                  *)
LEMMA ForgetType ==
  ASSUME older \subseteq Keys \X Keys, NEW k \in Keys
  PROVE  /\ Forget(k) \subseteq Keys \X Keys
         /\ (Forget(k) \cup {<<j, k>> : j \in {i \in Keys \ {k} : Present(i)}})
                \subseteq Keys \X Keys
  BY DEF Forget

(* What each transaction leaves in the table: a well-typed row, and no        *)
(* holder it did not have or was not given.                                  *)
LEMMA EnqueueRow ==
  ASSUME QueueTypeOK, NEW k \in Keys, NEW p \in Payloads, NEW d \in BOOLEAN,
         Enqueue(k, p, d)
  PROVE  /\ QueueTypeOK'
         /\ rows'[k].holder = Nobody
         /\ Present(k)'
         /\ \A j \in Keys \ {k} : rows'[j] = rows[j]
<1>1. rows'[k] = [payload |-> p, holder |-> Nobody, hidden |-> d, attempts |-> 0]
  BY DEF QueueTypeOK, Enqueue
<1>2. rows'[k] \in Row
  BY <1>1, QueueConstants DEF Row
<1>3. rows' \in [Keys -> Row \cup {NoRow}]
  BY <1>2, <1>1 DEF QueueTypeOK, Enqueue
<1>4. older' \subseteq Keys \X Keys
  BY ForgetType DEF QueueTypeOK, Enqueue
<1>5. rows'[k] # NoRow
  BY <1>2, QueueConstants DEF Row
<1> QED
  BY <1>1, <1>3, <1>4, <1>5 DEF QueueTypeOK, Enqueue, Present

(* Dequeuing gives one row a new holder and counts the attempt (queue.rs dequeue).*)
LEMMA ReserveNextRow ==
  ASSUME QueueTypeOK, NEW k \in Keys, NEW r \in Reservations, ReserveNext(k, r)
  PROVE  /\ QueueTypeOK'
         /\ rows[k] \in Row
         /\ rows'[k] = [payload |-> rows[k].payload, holder |-> r, hidden |-> TRUE,
                        attempts |-> Bump(rows[k].attempts)]
         /\ Present(k)'
         /\ \A j \in Keys \ {k} : rows'[j] = rows[j]
<1>1. rows[k] \in Row
  BY DEF QueueTypeOK, ReserveNext, NextDue, Due, Present
<1>2. rows'[k] = [payload |-> rows[k].payload, holder |-> r, hidden |-> TRUE,
                  attempts |-> Bump(rows[k].attempts)]
  BY DEF QueueTypeOK, ReserveNext
<1>3. rows'[k] \in Row
  BY <1>1, <1>2, BumpType DEF Row
<1>4. rows' \in [Keys -> Row \cup {NoRow}]
  BY <1>2, <1>3 DEF QueueTypeOK, ReserveNext
<1>5. rows'[k] # NoRow
  BY <1>3, QueueConstants DEF Row
<1> QED
  BY <1>1, <1>2, <1>4, <1>5 DEF QueueTypeOK, ReserveNext, Present

(* A deletion takes one row and no other.                                    *)
LEMMA DeleteRow ==
  ASSUME QueueTypeOK, NEW k \in Keys, Delete(k)
  PROVE  /\ QueueTypeOK'
         /\ ~Present(k)'
         /\ \A j \in Keys \ {k} : rows'[j] = rows[j]
  BY ForgetType DEF QueueTypeOK, Delete, Present

(* Extending a reservation changes nothing a holder relies on (queue.rs).    *)
LEMMA ReserveRow ==
  ASSUME QueueTypeOK, NEW k \in Keys, NEW r \in Reservations, Reserve(k, r)
  PROVE  /\ QueueTypeOK'
         /\ \A j \in Keys : /\ Present(j)' <=> Present(j)
                            /\ Present(j) => /\ rows'[j].holder = rows[j].holder
                                             /\ rows'[j].payload = rows[j].payload
                                             /\ rows'[j].attempts = rows[j].attempts
<1>1. CASE HeldBy(k, r)
  <2>1. rows[k] \in Row
    BY <1>1 DEF HeldBy, Present, QueueTypeOK
  <2>2. rows'[k] = [payload |-> rows[k].payload, holder |-> r, hidden |-> TRUE,
                    attempts |-> rows[k].attempts]
    BY <1>1 DEF Reserve, QueueTypeOK
  <2>3. rows'[k] \in Row
    BY <2>1, <2>2 DEF Row
  <2>4. \A j \in Keys \ {k} : rows'[j] = rows[j]
    BY <1>1 DEF Reserve, QueueTypeOK
  <2>5. rows' \in [Keys -> Row \cup {NoRow}]
    BY <1>1, <2>2, <2>3 DEF Reserve, QueueTypeOK
  <2>6. rows'[k] # NoRow
    BY <2>3, QueueConstants DEF Row
  <2> QED
    BY <1>1, <2>2, <2>4, <2>5, <2>6 DEF Reserve, QueueTypeOK, HeldBy, Present
<1>2. CASE ~HeldBy(k, r)
  BY <1>2 DEF Reserve, QueueTypeOK, Present
<1> QED
  BY <1>1, <1>2

(* A reservation that lapses makes its row visible, and keeps holder and attempts.*)
LEMMA LapseRow ==
  ASSUME QueueTypeOK, NEW k \in Keys, Lapse(k)
  PROVE  /\ QueueTypeOK'
         /\ \A j \in Keys : /\ Present(j)' <=> Present(j)
                            /\ Present(j) => /\ rows'[j].holder = rows[j].holder
                                             /\ rows'[j].payload = rows[j].payload
                                             /\ rows'[j].attempts = rows[j].attempts
<1>1. rows[k] \in Row
  BY DEF Lapse, Present, QueueTypeOK
<1>2. rows'[k] = [payload |-> rows[k].payload, holder |-> rows[k].holder,
                  hidden |-> FALSE, attempts |-> rows[k].attempts]
  BY DEF Lapse, QueueTypeOK
<1>3. rows'[k] \in Row
  BY <1>1, <1>2 DEF Row
<1>4. \A j \in Keys \ {k} : rows'[j] = rows[j]
  BY DEF Lapse, QueueTypeOK
<1>5. rows' \in [Keys -> Row \cup {NoRow}]
  BY <1>2, <1>3 DEF Lapse, QueueTypeOK
<1>6. rows'[k] # NoRow
  BY <1>3, QueueConstants DEF Row
<1> QED
  BY <1>1, <1>2, <1>4, <1>5, <1>6 DEF Lapse, QueueTypeOK, Present
(* What the bookkeeping of a run changes: its own entry, and in it only the   *)
(* phase.                                                                    *)
LEMMA GotoTask ==
  ASSUME TypeOK, NEW r \in Reservations, Running(r), NEW phase \in Phases,
         Goto(r, phase)
  PROVE  /\ tasks' \in [Reservations -> Task \cup {NoTask}]
         /\ tasks[r] \in Task
         /\ tasks'[r] = [key |-> tasks[r].key, payload |-> tasks[r].payload,
                         attempts |-> tasks[r].attempts, at |-> phase]
         /\ Running(r)'
         /\ \A t \in Reservations \ {r} : tasks'[t] = tasks[t]
<1>1. tasks[r] \in Task
  BY DEF TypeOK, Running
<1>2. tasks'[r] = [key |-> tasks[r].key, payload |-> tasks[r].payload,
                   attempts |-> tasks[r].attempts, at |-> phase]
  BY DEF Goto, TypeOK
<1>3. tasks'[r] \in Task
  BY <1>1, <1>2 DEF Task
<1> QED
  BY <1>1, <1>2, <1>3, NoTaskIsNoTask DEF Goto, TypeOK, Running

(* A run that ends leaves the other runs alone.                              *)
LEMMA EndTask ==
  ASSUME TypeOK, NEW r \in Reservations, End(r)
  PROVE  /\ tasks' \in [Reservations -> Task \cup {NoTask}]
         /\ ~Running(r)'
         /\ \A t \in Reservations \ {r} : tasks'[t] = tasks[t]
  BY DEF End, TypeOK, Running

-----------------------------------------------------------------------------
(* The invariant holds where the server starts.                              *)
LEMMA InitInv == Init => IInv
<1> SUFFICES ASSUME Init PROVE IInv
  OBVIOUS
<1>1. rows \in [Keys -> Row \cup {NoRow}]
  <2>1. \A k \in Keys : Left(k) \subseteq Row \cup {NoRow}
    <3> SUFFICES ASSUME NEW k \in Keys, NEW row \in Left(k), row # NoRow
                 PROVE  row \in Row
      OBVIOUS
    <3>1. 0 \in 0..AttemptCap
      BY QueueConstants
    <3> QED
      BY <3>1 DEF Left, Row, Readable
  <2>2. \A k \in Keys : rows[k] \in Left(k)
    BY DEF Init
  <2>3. rows \in [Keys -> UNION {Left(k) : k \in Keys}]
    BY DEF Init
  <2> QED
    BY <2>1, <2>2, <2>3
<1>2. TypeOK
  BY <1>1 DEF Init, TypeOK, QueueTypeOK
<1>3. \A r \in Reservations : ~Running(r)
  BY DEF Init, Running
<1> QED
  BY <1>2, <1>3 DEF IInv, HolderIsCurrent, RearmReleases, DropsUnhandled, At

(* A step that hands nobody a row: whoever holds one afterwards held it       *)
(* before, on the same payload and attempt.                                  *)
KeepsHolders ==
    \A k \in Keys, r \in Reservations :
        HeldBy(k, r)' => /\ HeldBy(k, r)
                         /\ rows'[k].payload = rows[k].payload
                         /\ rows'[k].attempts = rows[k].attempts

(* What the queue does but for dequeuing gives no row to another holder.     *)
LEMMA QueueKeepsHolders ==
  ASSUME QueueTypeOK, NEW k \in Keys,
         \/ \E p \in Payloads, d \in BOOLEAN : Enqueue(k, p, d)
         \/ Delete(k) \/ Lapse(k) \/ UNCHANGED queueVars
         \/ \E r \in Reservations : Reserve(k, r) \/ Complete(k, r)
  PROVE  QueueTypeOK' /\ KeepsHolders
<1>1. ASSUME NEW p \in Payloads, NEW d \in BOOLEAN, Enqueue(k, p, d)
      PROVE  QueueTypeOK' /\ KeepsHolders
  BY <1>1, EnqueueRow, QueueConstants DEF KeepsHolders, HeldBy, Present
<1>2. ASSUME Delete(k) PROVE QueueTypeOK' /\ KeepsHolders
  BY <1>2, DeleteRow DEF KeepsHolders, HeldBy, Present
<1>3. CASE Lapse(k)
  BY <1>3, LapseRow DEF KeepsHolders, HeldBy
<1>4. ASSUME UNCHANGED queueVars PROVE QueueTypeOK' /\ KeepsHolders
  BY <1>4 DEF QueueTypeOK, KeepsHolders, HeldBy, Present, queueVars
<1>5. ASSUME NEW r \in Reservations, Reserve(k, r)
      PROVE  QueueTypeOK' /\ KeepsHolders
  BY <1>5, ReserveRow DEF KeepsHolders, HeldBy
<1>6. ASSUME NEW r \in Reservations, Complete(k, r)
      PROVE  QueueTypeOK' /\ KeepsHolders
  BY <1>2, <1>4, <1>6 DEF Complete
<1> QED
  BY <1>1, <1>2, <1>3, <1>4, <1>5, <1>6

(* The steps that leave every run where it is: a message is enqueued by        *)
(* somebody, removed by hand, or falls due.                                   *)
LEMMA OutsideInv ==
  ASSUME IInv, NEW k \in Keys,
         \/ SetUp(k) \/ Cancel(k) \/ Overrun(k) \/ FallDue(k)
         \/ \E p \in Payloads : Dispatch(k, p)
  PROVE  IInv'
<1> USE DEF IInv
<1>1. UNCHANGED tasks /\ UNCHANGED letters /\ cancelled' \subseteq Keys
  BY DEF SetUp, Cancel, Overrun, FallDue, Dispatch, TypeOK
<1>2. host' \in {"down", "setup", "polling"} /\ arming' \subseteq Recurring
  BY DEF SetUp, Cancel, Overrun, FallDue, Dispatch, hostVars, TypeOK
<1>3. \/ \E p \in Payloads, d \in BOOLEAN : Enqueue(k, p, d)
      \/ Delete(k) \/ Lapse(k) \/ UNCHANGED queueVars
  BY DEF SetUp, Cancel, Overrun, FallDue, Dispatch, Purge, Readable
<1>4. QueueTypeOK' /\ KeepsHolders
  BY <1>3, QueueKeepsHolders DEF TypeOK
<1>5. TypeOK'
  BY <1>1, <1>2, <1>4 DEF TypeOK
<1>6. HolderIsCurrent'
  BY <1>1, <1>4 DEF HolderIsCurrent, KeepsHolders, Running
<1>7. RearmReleases'
  <2> SUFFICES ASSUME NEW r \in Reservations, NEW j \in Recurring, Running(r),
                      tasks[r].key = j, tasks[r].at \in {"work", "complete"},
                      HeldBy(j, r)'
               PROVE  FALSE
    BY <1>1 DEF RearmReleases, Running
  <2> QED
    BY <1>4, HostConstants DEF RearmReleases, KeepsHolders
<1> QED
  BY <1>1, <1>5, <1>6, <1>7 DEF DropsUnhandled, At, Running

(* A run that moves to another phase, or ends, while nobody is handed a row.   *)
LEMMA RunInv ==
  ASSUME IInv, NEW r \in Reservations, Running(r), KeepsHolders, QueueTypeOK',
         UNCHANGED hostVars, letters' \in [Keys -> Payloads \cup {NoPayload}],
         cancelled' \subseteq Keys,
         NEW phase \in Phases \ {"drop"}, Goto(r, phase) \/ End(r),
         \A k \in Recurring : phase = "work" /\ tasks[r].key = k => ~HeldBy(k, r)',
         phase = "complete" => At(r, "work")
  PROVE  IInv'
<1> USE DEF IInv
<1>1. tasks[r] \in Task
  BY DEF TypeOK, Running
<1>2. /\ tasks' \in [Reservations -> Task \cup {NoTask}]
      /\ \A t \in Reservations \ {r} : tasks'[t] = tasks[t]
  BY GotoTask, EndTask
<1>3. \/ ~Running(r)'
      \/ /\ tasks'[r].key = tasks[r].key /\ tasks'[r].payload = tasks[r].payload
         /\ tasks'[r].attempts = tasks[r].attempts /\ tasks'[r].at = phase
  <2>1. CASE Goto(r, phase)
    <3>1. tasks'[r] = [key |-> tasks[r].key, payload |-> tasks[r].payload,
                       attempts |-> tasks[r].attempts, at |-> phase]
      BY <2>1, GotoTask
    <3> QED
      BY <3>1
  <2>2. CASE End(r)
    BY <2>2, EndTask
  <2> QED
    BY <2>1, <2>2
<1>4. TypeOK'
  BY <1>2 DEF TypeOK, hostVars
<1>5. HolderIsCurrent'
  BY <1>2, <1>3 DEF HolderIsCurrent, KeepsHolders, Running
<1>6. RearmReleases'
  <2> SUFFICES ASSUME NEW t \in Reservations, NEW k \in Recurring,
                      Running(t)', tasks'[t].key = k,
                      tasks'[t].at \in {"work", "complete"}, HeldBy(k, t)'
               PROVE  FALSE
    BY DEF RearmReleases
  <2>1. k \in Keys /\ HeldBy(k, t)
    BY HostConstants DEF KeepsHolders
  <2>2. CASE t # r
    BY <1>2, <2>1, <2>2 DEF RearmReleases, Running
  <2>3. CASE t = r
    BY <1>3, <2>1, <2>3 DEF RearmReleases, Running, At
  <2> QED
    BY <2>2, <2>3
<1>7. DropsUnhandled'
  BY <1>2, <1>3 DEF DropsUnhandled, At, Running
<1> QED
  BY <1>4, <1>5, <1>6, <1>7

(* A takeover keeps the invariant: the new holder is not one that runs already.*)
LEMMA DequeueInv ==
  ASSUME IInv, NEW k \in Keys, NEW r \in Reservations, Dequeue(k, r)
  PROVE  IInv'
<1> USE DEF IInv
<1>1. /\ QueueTypeOK'
      /\ rows[k] \in Row
      /\ rows'[k] = [payload |-> rows[k].payload, holder |-> r, hidden |-> TRUE,
                     attempts |-> Bump(rows[k].attempts)]
      /\ \A j \in Keys \ {k} : rows'[j] = rows[j]
  BY ReserveNextRow DEF Dequeue, TypeOK
<1>2. PICK phase \in {"drop", "narrow"} :
         /\ tasks' = [tasks EXCEPT ![r] = [key |-> k, payload |-> rows[k].payload,
                          attempts |-> Bump(rows[k].attempts), at |-> phase]]
         /\ phase = "drop" => k \in Unhandled
  BY DEF Dequeue
<1>3. /\ tasks'[r] = [key |-> k, payload |-> rows[k].payload,
                      attempts |-> Bump(rows[k].attempts), at |-> phase]
      /\ \A t \in Reservations \ {r} : tasks'[t] = tasks[t]
  BY <1>2 DEF TypeOK
<1>4. tasks'[r] \in Task
  BY <1>1, <1>3, BumpType DEF Task, Row, Phases
<1>5. TypeOK'
  BY <1>1, <1>2, <1>4 DEF TypeOK, Dequeue, hostVars
<1>6. \A j \in Keys, t \in Reservations :
         HeldBy(j, t)' => IF j = k THEN t = r ELSE t # r /\ HeldBy(j, t)
  BY <1>1 DEF HeldBy, Present, Dequeue, Fresh
<1>7. HolderIsCurrent'
  BY <1>1, <1>3, <1>6 DEF HolderIsCurrent, Running
<1>8. RearmReleases'
  BY <1>3, <1>6, HostConstants DEF RearmReleases, Running, Dequeue, Fresh
<1>9. DropsUnhandled'
  BY <1>2, <1>3 DEF DropsUnhandled, At, Running
<1> QED
  BY <1>5, <1>7, <1>8, <1>9
(* The phases of a run, one at a time.                                        *)
LEMMA RunStepInv ==
  ASSUME IInv, NEW r \in Reservations, RunStep(r) \/ DatabaseError(r)
  PROVE  IInv'
<1> USE DEF IInv
<1> DEFINE SameRest == /\ UNCHANGED hostVars
                       /\ letters' \in [Keys -> Payloads \cup {NoPayload}]
                       /\ cancelled' \subseteq Keys
<1>1. Running(r)
  BY DEF RunStep, DatabaseError, Narrow, Handle, Work, Succeed, DropUnhandled,
         Backoff, SetAside, RemoveSetAside, Settle, At
<1>2. tasks[r] \in Task /\ tasks[r].key \in Keys /\ tasks[r].payload \in Payloads
  BY <1>1 DEF TypeOK, Running, Task
<1>3. ASSUME Narrow(r) PROVE IInv'
  <2>1. SameRest /\ Goto(r, "handle")
    BY <1>3 DEF Narrow, TypeOK
  <2>2. QueueTypeOK' /\ KeepsHolders
    BY <1>2, <1>3, QueueKeepsHolders DEF Narrow, TypeOK
  <2> QED
    BY <1>1, <2>1, <2>2, RunInv DEF Phases
<1>4. ASSUME Handle(r) PROVE IInv'
  <2>1. SameRest
    BY <1>2, <1>4 DEF Handle, TypeOK
  <2>2. CASE UNCHANGED queueVars /\ Goto(r, "failed")
    <3>1. QueueTypeOK' /\ KeepsHolders
      BY <1>2, <2>2, QueueKeepsHolders DEF TypeOK
    <3> QED
      BY <1>1, <2>1, <2>2, <3>1, RunInv DEF Phases
  <2>3. CASE UNCHANGED queueVars /\ Goto(r, "work") /\ tasks[r].key \notin Recurring
    <3>1. QueueTypeOK' /\ KeepsHolders
      BY <1>2, <2>3, QueueKeepsHolders DEF TypeOK
    <3> QED
      BY <1>1, <2>1, <2>3, <3>1, RunInv DEF Phases
  <2>4. ASSUME NEW p \in Payloads, Enqueue(tasks[r].key, p, TRUE), Goto(r, "work")
        PROVE  IInv'
    <3>1. QueueTypeOK' /\ KeepsHolders
      BY <1>2, <2>4, QueueKeepsHolders DEF TypeOK
    <3>2. \A k \in Recurring : tasks[r].key = k => ~HeldBy(k, r)'
      BY <1>2, <2>4, EnqueueRow, QueueConstants DEF HeldBy, TypeOK
    <3> QED
      BY <1>1, <2>1, <2>4, <3>1, <3>2, RunInv DEF Phases
  <2> QED
    BY <1>4, <2>2, <2>3, <2>4 DEF Handle, Readable
<1>5. ASSUME Work(r) PROVE IInv'
  <2>1. SameRest /\ At(r, "work")
    BY <1>5 DEF Work, TypeOK
  <2>2. QueueTypeOK' /\ KeepsHolders
    BY <1>2, <1>5, QueueKeepsHolders DEF Work, TypeOK
  <2>3. Goto(r, "complete") => IInv'
    BY <1>1, <2>1, <2>2, RunInv DEF Phases
  <2>4. Goto(r, "failed") => IInv'
    BY <1>1, <2>1, <2>2, RunInv DEF Phases
  <2> QED
    BY <1>5, <2>3, <2>4 DEF Work
<1>6. ASSUME NEW phase \in Phases, Settle(r, phase) PROVE IInv'
  <2>1. SameRest /\ End(r)
    BY <1>6 DEF Settle, TypeOK
  <2>2. QueueTypeOK' /\ KeepsHolders
    BY <1>2, <1>6, QueueKeepsHolders DEF Settle, TypeOK
  <2> QED
    BY <1>1, <2>1, <2>2, RunInv DEF Phases
<1>7. ASSUME Backoff(r) PROVE IInv'
  <2>1. SameRest /\ End(r)
    BY <1>7 DEF Backoff, TypeOK
  <2>2. QueueTypeOK' /\ KeepsHolders
    BY <1>2, <1>7, QueueKeepsHolders DEF Backoff, TypeOK
  <2> QED
    BY <1>1, <2>1, <2>2, RunInv DEF Phases
<1>8. ASSUME SetAside(r) PROVE IInv'
  <2>1. SameRest /\ Goto(r, "remove")
    BY <1>2, <1>8 DEF SetAside, TypeOK
  <2>2. QueueTypeOK' /\ KeepsHolders
    BY <1>2, <1>8, QueueKeepsHolders DEF SetAside, TypeOK
  <2> QED
    BY <1>1, <2>1, <2>2, RunInv DEF Phases
<1>9. ASSUME DatabaseError(r) PROVE IInv'
  <2>1. SameRest
    BY <1>9 DEF DatabaseError, TypeOK
  <2>2. \E phase \in {"handle", "failed", "remove"} : Goto(r, phase) \/ End(r)
    BY <1>9 DEF DatabaseError
  <2>3. QueueTypeOK' /\ KeepsHolders
    BY <1>2, <1>9, QueueKeepsHolders DEF DatabaseError, TypeOK
  <2> QED
    BY <1>1, <2>1, <2>2, <2>3, RunInv DEF Phases
<1> QED
  BY <1>3, <1>4, <1>5, <1>6, <1>7, <1>8, <1>9
     DEF RunStep, Succeed, DropUnhandled, RemoveSetAside, Phases

(* Every step keeps the invariant: one case per action.                      *)
LEMMA NextInv == IInv /\ [Next]_vars => IInv'
<1> SUFFICES ASSUME IInv, [Next]_vars PROVE IInv'
  OBVIOUS
<1>1. CASE Start \/ Poll
  BY <1>1 DEF Start, Poll, IInv, TypeOK, QueueTypeOK, queueVars, HolderIsCurrent,
              RearmReleases, DropsUnhandled, HeldBy, Present, At, Running
<1>2. CASE Stop
  BY <1>2 DEF Stop, IInv, TypeOK, QueueTypeOK, queueVars, HolderIsCurrent,
              RearmReleases, DropsUnhandled, At, Running
<1>3. CASE UNCHANGED vars
  BY <1>3 DEF vars, IInv, TypeOK, QueueTypeOK, HolderIsCurrent,
              RearmReleases, DropsUnhandled, HeldBy, Present, At, Running
<1> QED
  BY <1>1, <1>2, <1>3, OutsideInv, DequeueInv, RunStepInv DEF Next

-----------------------------------------------------------------------------
(* The variables of the queue and the host hold what their declarations say,  *)
(* for any number of keys, reservations and concurrent runs.                 *)
THEOREM TypeCorrect == Spec => []TypeOK
<1>1. Init => IInv
  BY InitInv
<1>2. IInv /\ [Next]_vars => IInv'
  BY NextInv
<1>3. IInv => TypeOK
  BY DEF IInv
<1> QED
  BY <1>1, <1>2, <1>3, PTL DEF Spec

(* A reservation proves what it claims: the run it belongs to works on the     *)
(* row that carries it, on the payload and at the attempt of that row         *)
(* (db/queue_sqlite.rs reserve_next, complete, reserve).                      *)
THEOREM ReservationsAreCurrent == Spec => []HolderIsCurrent
<1>1. Init => IInv
  BY InitInv
<1>2. IInv /\ [Next]_vars => IInv'
  BY NextInv
<1>3. IInv => HolderIsCurrent
  BY DEF IInv
<1> QED
  BY <1>1, <1>2, <1>3, PTL DEF Spec

(* A recurring job that has re-armed itself no longer holds its message.       *)
THEOREM RearmingReleases == Spec => []RearmReleases
<1>1. Init => IInv
  BY InitInv
<1>2. IInv /\ [Next]_vars => IInv'
  BY NextInv
<1>3. IInv => RearmReleases
  BY DEF IInv
<1> QED
  BY <1>1, <1>2, <1>3, PTL DEF Spec
-----------------------------------------------------------------------------
(* Only a deletion removes a row.                                             *)
LEMMA RowsStay ==
  ASSUME QueueTypeOK, NEW k \in Keys, Present(k), NEW j \in Keys,
         \/ \E p \in Payloads, d \in BOOLEAN : Enqueue(j, p, d)
         \/ Lapse(j) \/ UNCHANGED queueVars
         \/ \E r \in Reservations : ReserveNext(j, r) \/ Reserve(j, r)
  PROVE  Present(k)'
<1>1. ASSUME NEW p \in Payloads, NEW d \in BOOLEAN, Enqueue(j, p, d) PROVE Present(k)'
  BY <1>1, EnqueueRow DEF Present
<1>2. ASSUME NEW r \in Reservations, ReserveNext(j, r) PROVE Present(k)'
  BY <1>2, ReserveNextRow DEF Present
<1>3. ASSUME NEW r \in Reservations, Reserve(j, r) PROVE Present(k)'
  BY <1>3, ReserveRow
<1>4. CASE Lapse(j)
  BY <1>4, LapseRow
<1>5. CASE UNCHANGED queueVars
  BY <1>5 DEF queueVars, Present
<1> QED
  BY <1>1, <1>2, <1>3, <1>4, <1>5

(* A recurring row only goes when its own run removes it, or by a cancellation.*)
LEMMA ScheduleStep ==
  ASSUME IInv, [Next]_vars, NEW k \in Recurring, Present(k), ~Present(k)'
  PROVE  \/ \E r \in Reservations : HeldBy(k, r) /\ At(r, "remove")
         \/ k \in cancelled'
<1> USE DEF IInv, TypeOK
<1>1. k \in Keys
  BY HostConstants
<1>2. \A j \in Keys : ~UNCHANGED queueVars /\ ~Lapse(j)
          /\ (\A p \in Payloads, d \in BOOLEAN : ~Enqueue(j, p, d))
          /\ (\A r \in Reservations : ~ReserveNext(j, r) /\ ~Reserve(j, r))
  BY <1>1, RowsStay
<1>3. ASSUME NEW j \in Keys, Cancel(j) PROVE k \in cancelled'
  BY <1>1, <1>3, DeleteRow DEF Cancel, Purge, Present
<1>4. ASSUME NEW r \in Reservations, NEW phase \in {"complete", "drop", "remove"},
             Settle(r, phase)
      PROVE  HeldBy(k, r) /\ At(r, "remove")
  <2>1. tasks[r] \in Task /\ tasks[r].key \in Keys
    BY <1>4 DEF Settle, At, Running, Task
  <2>2. HeldBy(tasks[r].key, r) /\ Delete(tasks[r].key)
    BY <1>2, <1>4, <2>1 DEF Settle, Complete
  <2>3. tasks[r].key = k
    BY <1>1, <2>1, <2>2, DeleteRow DEF Present
  <2>4. phase # "complete"
    BY <1>4, <2>2, <2>3 DEF RearmReleases, Settle, At
  <2>5. phase # "drop"
    BY <1>4, <2>3, HostConstants DEF DropsUnhandled, Settle
  <2> QED
    BY <1>4, <2>2, <2>3, <2>4, <2>5 DEF Settle
<1>5. ASSUME NEW r \in Reservations, RunStep(r) \/ DatabaseError(r)
      PROVE  HeldBy(k, r) /\ At(r, "remove")
  <2>1. tasks[r] \in Task /\ tasks[r].key \in Keys
    BY <1>5 DEF RunStep, DatabaseError, Narrow, Handle, Work, Succeed, DropUnhandled,
                Backoff, SetAside, RemoveSetAside, Settle, At, Running, Task
  <2>2. ~Narrow(r) /\ ~Handle(r) /\ ~Work(r) /\ ~Backoff(r) /\ ~SetAside(r)
          /\ ~DatabaseError(r)
    BY <1>1, <1>2, <2>1 DEF Narrow, Handle, Work, Backoff, SetAside, DatabaseError, Readable
  <2> QED
    BY <1>4, <1>5, <2>2 DEF RunStep, Succeed, DropUnhandled, RemoveSetAside
<1>6. ~Start /\ ~Poll /\ ~Stop /\ ~UNCHANGED vars
  BY <1>1, <1>2 DEF Start, Poll, Stop, vars, queueVars
<1>7. ASSUME NEW j \in Keys PROVE ~SetUp(j) /\ ~Overrun(j) /\ ~FallDue(j)
  BY <1>2 DEF SetUp, Overrun, FallDue, Readable
<1>8. ASSUME NEW j \in Keys
      PROVE  /\ \A p \in Payloads : ~Dispatch(j, p)
             /\ \A r \in Reservations : ~Dequeue(j, r)
  BY <1>2 DEF Dispatch, Dequeue
<1> QED
  BY <1>3, <1>5, <1>6, <1>7, <1>8 DEF Next

(* A schedule ends only in the dead letters or by hand.  The step lemma needs   *)
(* the whole of IInv: the re-arm must have released the message before the     *)
(* run completes, and no recurring job's message is ever dropped.             *)
THEOREM SchedulesAreKept == Spec => ScheduleKept
<1>1. Init => IInv
  BY InitInv
<1>2. IInv /\ [Next]_vars => IInv'
  BY NextInv
<1>3. IInv /\ [Next]_vars =>
        [\A k \in Recurring :
            Present(k) /\ ~Present(k)' =>
                \/ \E r \in Reservations : HeldBy(k, r) /\ At(r, "remove")
                \/ k \in cancelled']_vars
  BY ScheduleStep
<1> QED
  BY <1>1, <1>2, <1>3, PTL DEF Spec, ScheduleKept
-----------------------------------------------------------------------------
(* The host over the queue implements WorkQueue: each step of JobHost is a       *)
(* step of the promise or leaves it alone.  The argument adds to IInv that a      *)
(* message cancelled by hand is gone, and rests on HolderIsCurrent: what a        *)
(* run does concerns the message of its own key, and only while it holds it.      *)

CancelledIsGone == \A k \in cancelled : ~Present(k)

RInv == IInv /\ CancelledIsGone

\* What the refinement mapping takes for pending[k].
Owed(k) == IF Present(k) THEN rows[k].payload ELSE NoPayload

Ended == {"complete", "remove", "drop"}

Same(k) == Owed(k)' = Owed(k) /\ Stage(k)' = Stage(k)

-----------------------------------------------------------------------------
(* The steps of the promise, in terms of Owed and Stage.                      *)
LEMMA AsStutter ==
  ASSUME \A k \in Keys : Same(k), UNCHANGED cancelled
  PROVE  UNCHANGED Promise!vars
  BY DEF Promise!vars, Same, Owed

(* A step that puts one key's work on the table is a submission.             *)
LEMMA AsSubmit ==
  ASSUME NEW k \in Keys, NEW p \in Payloads, \A j \in Keys \ {k} : Same(j),
         Owed(k)' = p, Stage(k)' = "waiting", cancelled' = cancelled \ {k}
  PROVE  Promise!Next
<1>1. Promise!Submit(k, p)
  BY DEF Promise!Submit, Same, Owed
<1> QED
  BY <1>1 DEF Promise!Next

(* A step that moves one key's work between waiting, running and finished is a move.*)
LEMMA AsMove ==
  ASSUME NEW k \in Keys, NEW to \in Promise!Stages, \A j \in Keys \ {k} : Same(j),
         Owed(k)' = Owed(k), Stage(k)' = to, UNCHANGED cancelled,
         \/ to \in {"running", "finished"} /\ Stage(k) # "idle"
         \/ to = "waiting" /\ Stage(k) \in {"running", "finished"}
  PROVE  Promise!Next
<1>1. Stage(k) \in Promise!Stages
  BY DEF Stage, Promise!Stages
<1>2. ASSUME NEW from, Stage(k) \in from PROVE Promise!Move(k, from, to)
  BY <1>2 DEF Promise!Move, Same, Owed
<1>3. \/ Promise!Begin(k) \/ Promise!Refuse(k) \/ Promise!Retry(k)
  BY <1>1, <1>2 DEF Promise!Begin, Promise!Refuse, Promise!Retry, Promise!Stages
<1> QED
  BY <1>3 DEF Promise!Next

(* A step that takes one key's work off the table, finished or cancelled, is a removal.*)
LEMMA AsRemoval ==
  ASSUME NEW k \in Keys, \A j \in Keys \ {k} : Same(j),
         Owed(k)' = NoPayload, Stage(k)' = "idle",
         \/ Stage(k) = "finished" /\ UNCHANGED cancelled
         \/ Stage(k) # "idle" /\ cancelled' = cancelled \cup {k}
  PROVE  Promise!Next
<1>1. Promise!Forgotten(k)
  BY DEF Promise!Forgotten, Same, Owed
<1>2. Promise!Settle(k) \/ Promise!Cancel(k)
  BY <1>1 DEF Promise!Settle, Promise!Cancel
<1> QED
  BY <1>2 DEF Promise!Next

-----------------------------------------------------------------------------
(* How far a message has come, before a step and after it.                    *)
StageIsWhatItSeems(k) ==
    /\ Stage(k) = "idle" <=> ~Present(k)
    /\ Present(k) /\ (\A r \in Reservations : HeldBy(k, r) => ~Running(r)) =>
           Stage(k) = "waiting"
    /\ \A r \in Reservations :
           HeldBy(k, r) /\ Running(r) =>
               Stage(k) = IF tasks[r].at \in Ended THEN "finished" ELSE "running"

(* A key's stage, before and after a step, from its row and its runs.        *)
LEMMA StageCases ==
  ASSUME NEW k \in Keys
  PROVE  StageIsWhatItSeems(k) /\ StageIsWhatItSeems(k)'
<1>1. StageIsWhatItSeems(k)
  BY DEF StageIsWhatItSeems, Stage, Live, HeldBy, Ended
<1>2. StageIsWhatItSeems(k)'
  BY DEF StageIsWhatItSeems, Stage, Live, HeldBy, Ended
<1> QED
  BY <1>1, <1>2

(* A message is where it was when its row keeps payload and holder, and the   *)
(* holder's run neither starts, ends, nor finishes.                          *)
LEMMA StageKept ==
  ASSUME NEW k \in Keys,
         Present(k)' <=> Present(k),
         Present(k) => /\ rows'[k].payload = rows[k].payload
                       /\ rows'[k].holder = rows[k].holder,
         \A r \in Reservations :
             HeldBy(k, r) =>
                 /\ Running(r)' <=> Running(r)
                 /\ Running(r) => (tasks'[r].at \in Ended <=> tasks[r].at \in Ended)
  PROVE  Same(k)
<1>1. Owed(k)' = Owed(k)
  BY DEF Owed
<1>2. \A r \in Reservations : HeldBy(k, r)' <=> HeldBy(k, r)
  BY DEF HeldBy
<1>3. Stage(k)' = Stage(k)
  BY <1>2, StageCases DEF StageIsWhatItSeems
<1> QED
  BY <1>1, <1>3 DEF Same

-----------------------------------------------------------------------------
(* The host starts where the abstract queue starts.                          *)
LEMMA InitRefines == Init => Promise!Init /\ CancelledIsGone
<1> SUFFICES ASSUME Init PROVE Promise!Init /\ CancelledIsGone
  OBVIOUS
<1>1. TypeOK
  BY InitInv DEF IInv
<1>2. \A r \in Reservations : ~Running(r)
  BY DEF Init, Running
<1>3. \A k \in Keys : Stage(k) = IF Present(k) THEN "waiting" ELSE "idle"
  BY <1>2, StageCases DEF StageIsWhatItSeems
<1>4. \A k \in Keys : Present(k) => rows[k].payload \in Payloads
  BY <1>1 DEF TypeOK, QueueTypeOK, Present, Row
<1>5. Promise!Init
  BY <1>3, <1>4, HostConstants DEF Promise!Init, Init
<1>6. CancelledIsGone
  BY DEF Init, CancelledIsGone
<1> QED
  BY <1>5, <1>6

(* What an upsert does to every message: the key starts over, whoever held it. *)
LEMMA EnqueueSubmits ==
  ASSUME TypeOK, NEW k \in Keys, NEW p \in Payloads, NEW d \in BOOLEAN,
         Enqueue(k, p, d), cancelled' = cancelled \ {k},
         \A j \in Keys \ {k}, r \in Reservations :
             HeldBy(j, r) => tasks'[r] = tasks[r]
  PROVE  Promise!Next
<1>1. /\ rows'[k] = [payload |-> p, holder |-> Nobody, hidden |-> d, attempts |-> 0]
      /\ Present(k)'
      /\ \A j \in Keys \ {k} : rows'[j] = rows[j]
  BY EnqueueRow DEF Enqueue, TypeOK, QueueTypeOK
<1>2. \A j \in Keys \ {k} : Same(j)
  BY <1>1, StageKept DEF Present, Running
<1>3. Owed(k)' = p
  BY <1>1 DEF Owed
<1>4. Stage(k)' = "waiting"
  BY <1>1, StageCases, QueueConstants DEF StageIsWhatItSeems, HeldBy
<1> QED
  BY <1>2, <1>3, <1>4, AsSubmit

(* What is done to the queue from outside a run is a step of the abstract queue.*)
LEMMA OutsideRefines ==
  ASSUME RInv, NEW k \in Keys,
         \/ SetUp(k) \/ Cancel(k) \/ Overrun(k) \/ FallDue(k)
         \/ \E p \in Payloads : Dispatch(k, p)
  PROVE  [Promise!Next]_Promise!vars
<1> USE DEF RInv, IInv
<1>1. UNCHANGED tasks
  BY DEF SetUp, Cancel, Overrun, FallDue, Dispatch
<1>2. ASSUME NEW p \in Payloads, NEW d \in BOOLEAN, Enqueue(k, p, d),
             cancelled' = cancelled \ {k}
      PROVE  Promise!Next
  BY <1>1, <1>2, EnqueueSubmits
<1>3. CASE SetUp(k)
  <2>1. CASE UNCHANGED queueVars
    <3>1. Present(k) \/ \E p \in Readable, d \in BOOLEAN : Enqueue(k, p, d)
      BY <1>3 DEF SetUp, Armed
    <3>2. cancelled' = cancelled \ {k}
      BY <1>3 DEF SetUp
    <3>3. CASE Present(k)
      <4>1. UNCHANGED cancelled
        BY <3>2, <3>3 DEF CancelledIsGone
      <4>2. \A j \in Keys : Same(j)
        BY <1>1, <2>1, StageKept DEF queueVars, Present, Running
      <4> QED
        BY <4>1, <4>2, AsStutter
    <3> QED
      BY <1>2, <3>1, <3>2, <3>3 DEF Readable
  <2>2. CASE ~UNCHANGED queueVars
    BY <1>2, <1>3, <2>2 DEF SetUp, Readable
  <2> QED
    BY <2>1, <2>2
<1>4. CASE Cancel(k)
  <2>1. Present(k) /\ Delete(k) /\ cancelled' = cancelled \cup {k}
    BY <1>4 DEF Cancel, Purge
  <2>2. ~Present(k)' /\ \A j \in Keys \ {k} : rows'[j] = rows[j]
    BY <2>1, DeleteRow DEF TypeOK
  <2>3. \A j \in Keys \ {k} : Same(j)
    BY <1>1, <2>2, StageKept DEF Present, Running
  <2>4. Owed(k)' = NoPayload /\ Stage(k)' = "idle" /\ Stage(k) # "idle"
    BY <2>1, <2>2, StageCases DEF Owed, StageIsWhatItSeems
  <2> QED
    BY <2>1, <2>3, <2>4, AsRemoval
<1>5. CASE Overrun(k) \/ FallDue(k)
  <2>1. Lapse(k) /\ UNCHANGED cancelled
    BY <1>5 DEF Overrun, FallDue
  <2>2. \A j \in Keys : Same(j)
    BY <1>1, <2>1, LapseRow, StageKept DEF TypeOK, Running
  <2> QED
    BY <2>1, <2>2, AsStutter
<1>6. ASSUME NEW p \in Payloads, Dispatch(k, p) PROVE Promise!Next
  BY <1>2, <1>6 DEF Dispatch
<1> QED
  BY <1>3, <1>4, <1>5, <1>6

(* Dequeuing moves the work to running.                                      *)
LEMMA DequeueRefines ==
  ASSUME RInv, NEW k \in Keys, NEW r \in Reservations, Dequeue(k, r)
  PROVE  Promise!Next
<1> USE DEF RInv, IInv
<1>1. /\ rows'[k] = [payload |-> rows[k].payload, holder |-> r, hidden |-> TRUE,
                     attempts |-> Bump(rows[k].attempts)]
      /\ Present(k) /\ Present(k)'
      /\ \A j \in Keys \ {k} : rows'[j] = rows[j]
  BY ReserveNextRow DEF Dequeue, ReserveNext, NextDue, Due, TypeOK
<1>2. /\ \A t \in Reservations \ {r} : tasks'[t] = tasks[t]
      /\ Fresh(r) /\ UNCHANGED cancelled
  BY DEF Dequeue, TypeOK
<1>3. Running(r)'
  <2>1. rows[k] \in Row
    BY ReserveNextRow DEF Dequeue, TypeOK
  <2>2. PICK phase \in Phases :
           tasks'[r] = [key |-> k, payload |-> rows[k].payload,
                        attempts |-> Bump(rows[k].attempts), at |-> phase]
    BY DEF Dequeue, TypeOK, Phases
  <2>3. tasks'[r] \in Task
    BY <2>1, <2>2, BumpType DEF Task, Row
  <2> QED
    BY <2>3, NoTaskIsNoTask DEF Running
<1>4. \A j \in Keys \ {k} : Same(j)
  BY <1>1, <1>2, StageKept DEF Present, Running, HeldBy, Fresh
<1>5. Owed(k)' = Owed(k)
  BY <1>1 DEF Owed
<1>6. Stage(k)' \in {"running", "finished"} /\ Stage(k) # "idle"
  BY <1>1, <1>3, StageCases DEF StageIsWhatItSeems, HeldBy
<1> QED
  BY <1>2, <1>4, <1>5, <1>6, AsMove DEF Promise!Stages

-----------------------------------------------------------------------------
(* A run concerns its own key's message alone, and that only while it holds it. *)
LEMMA OthersSame ==
  ASSUME RInv, NEW r \in Reservations, Running(r),
         \A t \in Reservations \ {r} : tasks'[t] = tasks[t],
         NEW k \in Keys,
         Present(k)' <=> Present(k),
         Present(k) => /\ rows'[k].payload = rows[k].payload
                       /\ rows'[k].holder = rows[k].holder,
         ~HeldBy(k, r)
  PROVE  Same(k)
<1>1. \A t \in Reservations : HeldBy(k, t) => tasks'[t] = tasks[t]
  OBVIOUS
<1> QED
  BY <1>1, StageKept DEF Running

(* The run moves on, or ends, and no row changes payload or holder.            *)
LEMMA RunMoves ==
  ASSUME RInv, NEW r \in Reservations, Running(r), UNCHANGED cancelled,
         \A t \in Reservations \ {r} : tasks'[t] = tasks[t],
         \A k \in Keys : /\ Present(k)' <=> Present(k)
                         /\ Present(k) => /\ rows'[k].payload = rows[k].payload
                                          /\ rows'[k].holder = rows[k].holder,
         \/ /\ Running(r)'
            /\ tasks'[r].at \in Ended \/ tasks[r].at \notin Ended
         \/ ~Running(r)'
  PROVE  [Promise!Next]_Promise!vars
<1> USE DEF RInv, IInv
<1>1. PICK k \in Keys : k = tasks[r].key
  BY DEF TypeOK, Running, Task
<1>2. \A j \in Keys \ {k} : Same(j)
  BY <1>1, OthersSame DEF HolderIsCurrent
<1>3. CASE ~HeldBy(k, r)
  BY <1>1, <1>2, <1>3, OthersSame, AsStutter
<1>4. CASE HeldBy(k, r)
  <2>1. HeldBy(k, r)' /\ Present(k) /\ Present(k)'
    BY <1>1, <1>4 DEF HeldBy
  <2>2. Owed(k)' = Owed(k)
    BY <1>1, <2>1 DEF Owed
  <2>3. Stage(k) = IF tasks[r].at \in Ended THEN "finished" ELSE "running"
    BY <1>1, <1>4, StageCases DEF StageIsWhatItSeems
  <2>4. CASE Running(r)'
    <3>1. Stage(k)' = IF tasks'[r].at \in Ended THEN "finished" ELSE "running"
      BY <1>1, <2>1, <2>4, StageCases DEF StageIsWhatItSeems
    <3> QED
      BY <1>1, <1>2, <2>2, <2>3, <3>1, AsMove DEF Promise!Stages
  <2>5. CASE ~Running(r)'
    <3>1. \A t \in Reservations : HeldBy(k, t)' => t = r
      BY <2>1 DEF HeldBy
    <3>2. Stage(k)' = "waiting"
      BY <1>1, <2>1, <2>5, <3>1, StageCases DEF StageIsWhatItSeems
    <3> QED
      BY <1>1, <1>2, <2>2, <2>3, <3>2, AsMove DEF Promise!Stages
  <2> QED
    BY <2>4, <2>5
<1> QED
  BY <1>3, <1>4

(* A run that holds its message and is done with it takes it out of the table. *)
LEMMA SettleRefines ==
  ASSUME RInv, NEW r \in Reservations, NEW phase \in Ended, Settle(r, phase)
  PROVE  [Promise!Next]_Promise!vars
<1> USE DEF RInv, IInv
<1>1. PICK k \in Keys : k = tasks[r].key
  BY DEF Settle, At, Running, TypeOK, Task
<1>2. /\ Running(r) /\ tasks[r].at \in Ended /\ UNCHANGED cancelled
      /\ ~Running(r)' /\ \A t \in Reservations \ {r} : tasks'[t] = tasks[t]
  BY EndTask DEF Settle, At
<1>3. CASE HeldBy(k, r)
  <2>1. Delete(k)
    BY <1>1, <1>3 DEF Settle, Complete
  <2>2. ~Present(k)' /\ \A j \in Keys \ {k} : rows'[j] = rows[j]
    BY <2>1, DeleteRow DEF TypeOK
  <2>3. \A j \in Keys \ {k} : Same(j)
    BY <1>1, <1>2, <2>2, OthersSame DEF HolderIsCurrent, Present
  <2>4. Owed(k)' = NoPayload /\ Stage(k)' = "idle" /\ Stage(k) = "finished"
    BY <1>2, <1>3, <2>2, StageCases DEF Owed, StageIsWhatItSeems
  <2> QED
    BY <1>2, <2>3, <2>4, AsRemoval
<1>4. CASE ~HeldBy(k, r)
  <2>1. UNCHANGED queueVars
    BY <1>1, <1>4 DEF Settle, Complete
  <2> QED
    BY <1>2, <2>1, RunMoves DEF queueVars, Present
<1> QED
  BY <1>3, <1>4

(* A step of a run, or a refused write, is a step of the abstract queue or none.*)
LEMMA RunStepRefines ==
  ASSUME RInv, NEW r \in Reservations, RunStep(r) \/ DatabaseError(r)
  PROVE  [Promise!Next]_Promise!vars
<1> USE DEF RInv, IInv
<1>1. Running(r)
  BY DEF RunStep, DatabaseError, Narrow, Handle, Work, Succeed, DropUnhandled,
         Backoff, SetAside, RemoveSetAside, Settle, At
<1>2. tasks[r] \in Task /\ tasks[r].key \in Keys
  BY <1>1 DEF TypeOK, Running, Task
<1> DEFINE RowsKept == \A k \in Keys :
                          /\ Present(k)' <=> Present(k)
                          /\ Present(k) => /\ rows'[k].payload = rows[k].payload
                                           /\ rows'[k].holder = rows[k].holder
<1>3. ASSUME NEW phase \in Phases, Goto(r, phase), RowsKept, UNCHANGED cancelled,
             phase \in Ended \/ tasks[r].at \notin Ended
      PROVE  [Promise!Next]_Promise!vars
  <2>1. /\ Running(r)' /\ \A t \in Reservations \ {r} : tasks'[t] = tasks[t]
        /\ tasks'[r] = [key |-> tasks[r].key, payload |-> tasks[r].payload,
                        attempts |-> tasks[r].attempts, at |-> phase]
    BY <1>1, <1>3, GotoTask
  <2>2. tasks'[r].at = phase
    BY <2>1
  <2> QED
    BY <1>1, <1>3, <2>1, <2>2, RunMoves
<1>4. ASSUME End(r), RowsKept, UNCHANGED cancelled
      PROVE  [Promise!Next]_Promise!vars
  <2>1. ~Running(r)' /\ \A t \in Reservations \ {r} : tasks'[t] = tasks[t]
    BY <1>4, EndTask
  <2> QED
    BY <1>1, <1>4, <2>1, RunMoves
<1>5. UNCHANGED queueVars => RowsKept
  BY DEF queueVars, Present
<1>6. Reserve(tasks[r].key, r) => RowsKept
  BY <1>2, ReserveRow DEF TypeOK
<1>7. CASE Narrow(r)
  BY <1>3, <1>6, <1>7 DEF Narrow, At, Ended, Phases
<1>8. CASE Handle(r)
  <2>1. ASSUME UNCHANGED <<queueVars, cancelled>>, Goto(r, "work") \/ Goto(r, "failed")
        PROVE  [Promise!Next]_Promise!vars
    BY <1>3, <1>5, <1>8, <2>1 DEF Handle, At, Ended, Phases
  <2>2. ASSUME NEW p \in Payloads, Enqueue(tasks[r].key, p, TRUE),
               cancelled' = cancelled \ {tasks[r].key}, Goto(r, "work")
        PROVE  Promise!Next
    <3>1. \A t \in Reservations \ {r} : tasks'[t] = tasks[t]
      BY <1>1, <2>2, GotoTask DEF Phases
    <3>2. \A j \in Keys \ {tasks[r].key}, t \in Reservations :
             HeldBy(j, t) => tasks'[t] = tasks[t]
      BY <1>1, <3>1 DEF HolderIsCurrent
    <3> QED
      BY <1>2, <2>2, <3>2, EnqueueSubmits
  <2> QED
    BY <1>8, <2>1, <2>2 DEF Handle, Readable
<1>9. CASE Work(r)
  BY <1>3, <1>5, <1>9 DEF Work, At, Ended, Phases
<1>10. CASE Backoff(r)
  BY <1>4, <1>6, <1>10 DEF Backoff
<1>11. CASE SetAside(r)
  BY <1>3, <1>5, <1>11 DEF SetAside, At, Ended, Phases
<1>12. CASE Succeed(r) \/ DropUnhandled(r) \/ RemoveSetAside(r)
  BY <1>12, SettleRefines DEF Succeed, DropUnhandled, RemoveSetAside, Ended
<1>13. CASE DatabaseError(r)
  <2>1. UNCHANGED queueVars /\ UNCHANGED cancelled
    BY <1>13 DEF DatabaseError
  <2>2. \/ End(r)
        \/ \E phase \in {"handle", "failed", "remove"} :
              Goto(r, phase) /\ tasks[r].at \notin Ended
    BY <1>13 DEF DatabaseError, At, Ended
  <2> QED
    BY <1>3, <1>4, <1>5, <2>1, <2>2 DEF Phases
<1> QED
  BY <1>7, <1>8, <1>9, <1>10, <1>11, <1>12, <1>13 DEF RunStep

(* A restart abandons every run, and no message.                              *)
LEMMA StopRefines ==
  ASSUME RInv, Stop
  PROVE  [Promise!Next]_Promise!vars
<1>1. /\ UNCHANGED queueVars /\ UNCHANGED cancelled
      /\ \A r \in Reservations : ~Running(r)'
  BY DEF Stop, Running
<1>2. \A k \in Keys : /\ Owed(k)' = Owed(k)
                      /\ Stage(k)' = IF Stage(k) = "idle" THEN "idle" ELSE "waiting"
  BY <1>1, StageCases DEF StageIsWhatItSeems, Owed, queueVars, Present
<1>3. Promise!Abandon
  BY <1>1, <1>2 DEF Promise!Abandon, Owed
<1> QED
  BY <1>3 DEF Promise!Next

(* Every step of the host is a step of the abstract queue or none.           *)
LEMMA NextRefines == RInv /\ [Next]_vars => [Promise!Next]_Promise!vars
<1> SUFFICES ASSUME RInv, [Next]_vars PROVE [Promise!Next]_Promise!vars
  OBVIOUS
<1>1. CASE Start \/ Poll \/ UNCHANGED vars
  <2>1. UNCHANGED queueVars /\ UNCHANGED tasks /\ UNCHANGED cancelled
    BY <1>1 DEF Start, Poll, vars, queueVars
  <2>2. \A k \in Keys : Same(k)
    BY <2>1, StageKept DEF queueVars, Present, Running
  <2> QED
    BY <2>1, <2>2, AsStutter
<1> QED
  BY <1>1, StopRefines, OutsideRefines, DequeueRefines, RunStepRefines DEF Next

-----------------------------------------------------------------------------
(* A message that was cancelled stays away until its key is enqueued afresh:   *)
(* the promise has it so, and the host takes none but the promise's steps.     *)
LEMMA RInvStep == RInv /\ [Next]_vars => RInv'
<1> SUFFICES ASSUME RInv, [Next]_vars PROVE RInv'
  OBVIOUS
<1> USE DEF RInv
<1>1. IInv'
  BY NextInv
<1>2. \A k \in Keys : Present(k) <=> Owed(k) # NoPayload
  BY HostConstants DEF IInv, TypeOK, QueueTypeOK, Row, Present, Owed
<1>3. \A k \in Keys : Present(k)' <=> Owed(k)' # NoPayload
  BY <1>1, HostConstants DEF IInv, TypeOK, QueueTypeOK, Row, Present, Owed
<1>4. cancelled \subseteq Keys /\ cancelled' \subseteq Keys
  BY <1>1 DEF IInv, TypeOK
<1>5. CASE UNCHANGED Promise!vars
  <2>1. UNCHANGED cancelled /\ \A k \in Keys : Owed(k)' = Owed(k)
    BY <1>5 DEF Promise!vars, Owed
  <2> QED
    BY <1>1, <1>2, <1>3, <1>4, <2>1 DEF CancelledIsGone
<1>6. CASE Promise!Abandon
  <2>1. UNCHANGED cancelled /\ \A k \in Keys : Owed(k)' = Owed(k)
    BY <1>6 DEF Promise!Abandon, Owed
  <2> QED
    BY <1>1, <1>2, <1>3, <1>4, <2>1 DEF CancelledIsGone
<1>7. ASSUME NEW k \in Keys, NEW p \in Payloads, Promise!Submit(k, p) PROVE RInv'
  <2>1. cancelled' = cancelled \ {k} /\ \A j \in Keys \ {k} : Owed(j)' = Owed(j)
    BY <1>7 DEF Promise!Submit, Owed
  <2> QED
    BY <1>1, <1>2, <1>3, <1>4, <2>1 DEF CancelledIsGone
<1>8. ASSUME NEW k \in Keys, NEW from, NEW to, Promise!Move(k, from, to) PROVE RInv'
  <2>1. UNCHANGED cancelled /\ \A j \in Keys : Owed(j)' = Owed(j)
    BY <1>8 DEF Promise!Move, Owed
  <2> QED
    BY <1>1, <1>2, <1>3, <1>4, <2>1 DEF CancelledIsGone
<1>9. ASSUME NEW k \in Keys, Promise!Settle(k) \/ Promise!Cancel(k) PROVE RInv'
  <2>1. /\ Owed(k)' = NoPayload /\ \A j \in Keys \ {k} : Owed(j)' = Owed(j)
        /\ cancelled' \subseteq cancelled \cup {k}
    BY <1>9 DEF Promise!Settle, Promise!Cancel, Promise!Forgotten, Owed
  <2> QED
    BY <1>1, <1>2, <1>3, <1>4, <2>1 DEF CancelledIsGone
<1> QED
  BY <1>5, <1>6, <1>7, <1>8, <1>9, NextRefines
     DEF Promise!Next, Promise!Begin, Promise!Refuse, Promise!Finish, Promise!Retry

(* The host forgets nothing: a message leaves the table only when the run that *)
(* holds that submission of it has finished, or by hand (db/queue_sqlite.rs,    *)
(* jobs/host.rs process), whatever lapses, is enqueued again, is refused by the *)
(* database or restarts meanwhile.                                            *)
THEOREM HostKeepsThePromise == Spec => NothingForgotten
<1>1. Init => Promise!Init /\ RInv
  BY InitRefines, InitInv DEF RInv
<1>2. RInv /\ [Next]_vars => RInv'
  BY RInvStep
<1>3. RInv /\ [Next]_vars => [Promise!Next]_Promise!vars
  BY NextRefines
<1> QED
  BY <1>1, <1>2, <1>3, PTL DEF Spec, NothingForgotten, Promise!Spec
=============================================================================
