----------------------------- MODULE MessagePipe -----------------------------
(***************************************************************************)
(* What a connection promises whoever delivers to it: the client reads what   *)
(* was accepted, in the order in which it was accepted, each once and with     *)
(* nothing left out, up to where the connection ends; and that is not before    *)
(* what was accepted before the end was decided, unless the client takes no      *)
(* more.                                                                      *)
(*                                                                          *)
(* A message is "late" that was accepted after that, until it is being written    *)
(* after all.                                                                  *)
(***************************************************************************)
EXTENDS Naturals, Sequences

CONSTANT Contents

VARIABLES
    pending,   \* accepted and not read, oldest first
    ending,    \* the end is decided
    open,      \* the pipe accepts, and may still write
    taking     \* the client takes what it is sent

vars == <<pending, ending, open, taking>>

Init ==
    /\ pending = <<>>
    /\ ending = FALSE /\ open = TRUE /\ taking = TRUE

Accept(content) ==
    /\ open
    /\ pending' = Append(pending, [kind |-> content, late |-> ending])
    /\ UNCHANGED <<ending, open, taking>>

\* A late message is written after all, those before it having been.
Write(i) ==
    /\ open
    /\ pending[i].late /\ \A j \in 1..(i - 1) : ~pending[j].late
    /\ pending' = [pending EXCEPT ![i].late = FALSE]
    /\ UNCHANGED <<ending, open, taking>>

Deliver ==
    /\ taking /\ pending # <<>>
    /\ pending' = Tail(pending)
    /\ UNCHANGED <<ending, open, taking>>

Decide ==
    /\ ending' = TRUE
    /\ UNCHANGED <<pending, open, taking>>

\* What is left out is late, if the client takes anything.
End(n) ==
    /\ open /\ open' = FALSE
    /\ ending /\ UNCHANGED ending
    /\ pending' = SubSeq(pending, 1, n)
    /\ taking => \A i \in (n + 1)..Len(pending) : pending[i].late
    /\ UNCHANGED taking

\* The client is gone, or takes no more: what was sent to it is lost.
Lose(n) ==
    /\ taking' = FALSE
    /\ pending' = SubSeq(pending, n + 1, Len(pending))
    /\ UNCHANGED <<ending, open>>

Next ==
    \/ \E content \in Contents : Accept(content)
    \/ \E i \in DOMAIN pending : Write(i)
    \/ Deliver
    \/ Decide
    \/ \E n \in 0..Len(pending) : End(n) \/ Lose(n)

Spec == Init /\ [][Next]_vars
=============================================================================
