---------------------------- MODULE MemoryStore ----------------------------
(***************************************************************************)
(* The cache's store in this process: an LruBySize of entries, each with   *)
(* the time until which it may be answered.  Nothing suspends, so get and  *)
(* put are each one step.                                                  *)
(***************************************************************************)
EXTENDS LruBySize

CONSTANTS None, Ttl, MaxUsage, SizeOf(_)

VARIABLES now,     \* the steady clock
          memory,  \* held_
          answer   \* what a get has just answered

Init == memory = EmptyLru

Found(k) == Holds(memory, k) /\ now < memory.node[k].value.until

(* Mutant of Get: what has expired is answered once more before it goes. *)
GetExpired(k) ==
  /\ IF Found(k)
     THEN /\ memory' = [Promoted(memory, k) EXCEPT !.node[k].value.until = now + Ttl]
          /\ answer' = memory.node[k].value.entry
     ELSE /\ memory' = Erased(memory, k)
          /\ answer' = IF Holds(memory, k) THEN memory.node[k].value.entry ELSE None
  /\ UNCHANGED now

(* get: a hit is a promotion and a renewal; what has expired is erased. *)
Get(k) ==
  /\ IF Found(k)
     THEN /\ memory' = [Promoted(memory, k) EXCEPT !.node[k].value.until = now + Ttl]
          /\ answer' = memory.node[k].value.entry
     ELSE /\ memory' = Erased(memory, k)
          /\ answer' = None
  /\ UNCHANGED now

(* put *)
Put(k, e) ==
  /\ memory' = Kept(memory, k, [entry |-> e, until |-> now + Ttl], SizeOf(e), MaxUsage)
  /\ answer' = None
  /\ UNCHANGED now

Entry(k) == IF Holds(memory, k) THEN memory.node[k].value.entry ELSE None
Used(k) == IF Holds(memory, k) THEN memory.node[k].value.until - Ttl ELSE 0
Size(k) == IF Holds(memory, k) THEN memory.node[k].size ELSE 0
=============================================================================
