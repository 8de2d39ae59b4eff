-------------------------- MODULE MCStreamSessions --------------------------
(* Instances of StreamSessions for TLC.  Attempts, certificates and requests   *)
(* are interchangeable, so the runs of invariants take them up to renaming.   *)
EXTENDS StreamSessions, TLC

Symmetry == Permutations(Sessions) \cup Permutations(Certs) \cup Permutations(Admins)
=============================================================================
