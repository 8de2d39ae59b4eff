------------------------------ MODULE MCJobHost ------------------------------
(* JobHost on small sets of keys, for TLC. *)
EXTENDS JobHost, TLC

\* A reservation id that is always free to draw: a row may keep one that nobody
\* holds any more, and a run may hold one that no row carries any more.
ASSUME EnoughReservations ==
    Cardinality(Reservations) >= Cardinality(Keys) + InFlight

AnyReservation == Permutations(Reservations)
=============================================================================
