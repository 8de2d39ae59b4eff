------------------------------ MODULE WorkQueue ------------------------------
(***************************************************************************)
(* What the job queue and its host promise whoever dispatches work: a       *)
(* message is never forgotten.  It stays until a run of that very           *)
(* submission has finished with it, or until somebody cancels it by hand;   *)
(* submitting under the same key starts over, whatever run is under way.    *)
(*                                                                         *)
(*   idle -> waiting -> running -> finished -> idle                         *)
(*                                                                         *)
(* "finished" means that the run which holds the message has succeeded, has *)
(* exhausted its attempts, or found no handler registered for it.           *)
(***************************************************************************)
CONSTANTS Keys, Payloads, NoPayload

VARIABLES
    pending,    \* the payload that is owed a run, by key
    stage,      \* how far it has come
    cancelled   \* the keys whose last message was cancelled by hand

vars == <<pending, stage, cancelled>>

Stages == {"idle", "waiting", "running", "finished"}

TypeOK ==
    /\ pending \in [Keys -> Payloads \cup {NoPayload}]
    /\ stage \in [Keys -> Stages]
    /\ cancelled \subseteq Keys

Init ==
    /\ pending \in [Keys -> Payloads \cup {NoPayload}]
    /\ stage = [k \in Keys |-> IF pending[k] = NoPayload THEN "idle" ELSE "waiting"]
    /\ cancelled = {}

Submit(k, p) ==
    /\ pending' = [pending EXCEPT ![k] = p]
    /\ stage' = [stage EXCEPT ![k] = "waiting"]
    /\ cancelled' = cancelled \ {k}

Move(k, from, to) ==
    /\ stage[k] \in from
    /\ stage' = [stage EXCEPT ![k] = to]
    /\ UNCHANGED <<pending, cancelled>>

\* A message may be begun again: delivery is at least once.
Begin(k) == Move(k, {"waiting", "running", "finished"}, "running")
Refuse(k) == Move(k, {"waiting", "running", "finished"}, "finished")
Finish(k) == Move(k, {"running"}, "finished")
Retry(k) == Move(k, {"running", "finished"}, "waiting")

Forgotten(k) ==
    /\ pending' = [pending EXCEPT ![k] = NoPayload]
    /\ stage' = [stage EXCEPT ![k] = "idle"]

Settle(k) == stage[k] = "finished" /\ Forgotten(k) /\ UNCHANGED cancelled

Cancel(k) ==
    /\ stage[k] # "idle"
    /\ Forgotten(k)
    /\ cancelled' = cancelled \cup {k}

\* The process stops: every run is abandoned, no message is.
Abandon ==
    /\ stage' = [k \in Keys |-> IF stage[k] = "idle" THEN "idle" ELSE "waiting"]
    /\ UNCHANGED <<pending, cancelled>>

Next ==
    \/ \E k \in Keys :
        \/ \E p \in Payloads : Submit(k, p)
        \/ Begin(k) \/ Refuse(k) \/ Finish(k) \/ Retry(k)
        \/ Settle(k) \/ Cancel(k)
    \/ Abandon

Spec == Init /\ [][Next]_vars
=============================================================================
