--------------------------- MODULE MCRedisStore ---------------------------
(* RedisStore for TLC: entries of one and of two bytes, on a budget of two. *)
EXTENDS RedisStore, TLC

CONSTANTS small, large

Weighing(e) == IF e = small THEN 1 ELSE 2
Interchangeable == Permutations(Keys)
=============================================================================
