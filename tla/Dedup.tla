------------------------------- MODULE Dedup -------------------------------
(***************************************************************************)
(* What haio's cache promises of concurrent requests for one key, without  *)
(* the coroutines, the event and the map that carry it out (those are in   *)
(* SingleFlight, which implements this specification).                     *)
(*                                                                         *)
(* At any moment a key has at most one production.  A caller that asks     *)
(* while one runs shares it, and is answered by it the moment it answers.  *)
(* A production that throws answers nobody but the caller it ran for: the  *)
(* others are orphaned, and each shares or starts a production again.      *)
(***************************************************************************)
CONSTANTS Callers,      \* the calls of SingleFlight::run that can be alive at once
          Keys,         \* cache keys
          Answers,      \* what a production can answer: an entry or an error
          Thrown,       \* the outcome of a production that ends in an exception
          None          \* "nobody", "nothing": where a caller or a key could be

VARIABLES phase,        \* phase[c]: where the call of c stands
          wants,        \* wants[c]: the key c asks for
          producer,     \* producer[k]: the caller whose production of k is running
          got           \* got[c]: which production answered c, and with what

vars == <<phase, wants, producer, got>>

Nothing == [by |-> None, what |-> Thrown]

Init == /\ phase = [c \in Callers |-> "idle"]
        /\ wants = [c \in Callers |-> None]
        /\ producer = [k \in Keys |-> None]
        /\ got = [c \in Callers |-> Nothing]

(* c shares the running production of k, or starts it. *)
Share(c, k) ==
  /\ phase' = [phase EXCEPT ![c] = "asking"]
  /\ wants' = [wants EXCEPT ![c] = k]
  /\ producer' = [producer EXCEPT ![k] = IF @ = None THEN c ELSE @]
  /\ UNCHANGED got

Ask(c, k) == phase[c] = "idle" /\ Share(c, k)

Retry(c) == phase[c] = "orphan" /\ Share(c, wants[c])

Sharing(k) == {c \in Callers : phase[c] = "asking" /\ wants[c] = k}

(* The production of k answers, and so everyone sharing it is answered. *)
Answer(k, a) ==
  /\ producer[k] # None
  /\ phase' = [c \in Callers |-> IF c \in Sharing(k) THEN "served" ELSE phase[c]]
  /\ got' = [c \in Callers |-> IF c \in Sharing(k) THEN [by |-> producer[k], what |-> a]
                                                    ELSE got[c]]
  /\ producer' = [producer EXCEPT ![k] = None]
  /\ UNCHANGED wants

(* The production of k throws: its own caller fails, the rest are orphaned. *)
Throw(k) ==
  /\ producer[k] # None
  /\ phase' = [c \in Callers |-> IF c = producer[k] THEN "served"
                                 ELSE IF c \in Sharing(k) THEN "orphan" ELSE phase[c]]
  /\ got' = [got EXCEPT ![producer[k]] = [by |-> producer[k], what |-> Thrown]]
  /\ producer' = [producer EXCEPT ![k] = None]
  /\ UNCHANGED wants

Leave(c) ==
  /\ phase[c] = "served"
  /\ phase' = [phase EXCEPT ![c] = "idle"]
  /\ got' = [got EXCEPT ![c] = Nothing]
  /\ wants' = [wants EXCEPT ![c] = None]
  /\ UNCHANGED producer

Next == \/ \E c \in Callers : Retry(c) \/ Leave(c) \/ \E k \in Keys : Ask(c, k)
        \/ \E k \in Keys : Throw(k) \/ \E a \in Answers : Answer(k, a)

Spec == Init /\ [][Next]_vars
=============================================================================
