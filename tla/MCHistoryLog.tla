---------------------------- MODULE MCHistoryLog ----------------------------
(* An instance of HistoryLog for TLC. *)
EXTENDS HistoryLog, TLC

\* The second record of the first segment: the same write may fail again, or succeed behind
\* what the first left.
SecondRecord == {<<1, 2>>}
=============================================================================
