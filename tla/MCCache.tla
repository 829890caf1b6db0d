------------------------------ MODULE MCCache ------------------------------
(* Cache for TLC: a burst of callers as model values. *)
EXTENDS Cache, TLC

AllStores == {"none", "inline", "remote"}
RemoteOnly == {"remote"}
=============================================================================
