--------------------------- MODULE MCClientLimits ---------------------------
(* ClientLimits for TLC: a table of a row or two, and a clock of a few ticks. *)
EXTENDS ClientLimits, TLC

Interchangeable == Permutations(Clients)
=============================================================================
