--------------------------- MODULE MCSingleFlight ---------------------------
(* SingleFlight for TLC: a handful of requests as model values. *)
EXTENDS SingleFlight, TLC

Interchangeable == Permutations(Callers) \cup Permutations(Keys)
=============================================================================
