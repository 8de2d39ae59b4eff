---------------------------- MODULE MCEnrolment ----------------------------
(* Enrolment for TLC: three requests that may present one token, one password  *)
(* or a workload identity, from two devices.  Requests and devices are        *)
(* interchangeable.                                                          *)
EXTENDS Enrolment, TLC

Symmetry == Permutations(Enrolments) \cup Permutations(Devices)
=============================================================================
