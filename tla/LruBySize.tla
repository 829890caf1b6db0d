----------------------------- MODULE LruBySize -----------------------------
(***************************************************************************)
(* Detail::LruBySize, the list both the memory store and the archives keep *)
(* their values in.  A list is a record of what the object holds: the keys *)
(* in order of use, the latest first, a node for each, and their weight.   *)
(***************************************************************************)
EXTENDS Naturals, Sequences, SequencesExt

EmptyLru == [order |-> <<>>, node |-> [k \in {} |-> 0], held |-> 0]

Holds(lru, k) == k \in DOMAIN lru.node

(* The order without the node of k. *)
Unlinked(order, k) == RemoveAt(order, CHOOSE i \in DOMAIN order : order[i] = k)

(* Mutant of Promoted: a hit leaves the key where it was put. *)
PromotedNever(lru, k) == lru

(* find: the node moves to the front. *)
Promoted(lru, k) ==
  IF Holds(lru, k) THEN [lru EXCEPT !.order = <<k>> \o Unlinked(@, k)] ELSE lru

(* erase *)
Erased(lru, k) ==
  IF Holds(lru, k)
  THEN [order |-> Unlinked(lru.order, k),
        node |-> [j \in DOMAIN lru.node \ {k} |-> lru.node[j]],
        held |-> lru.held - lru.node[k].size]
  ELSE lru

(* What the first n of the order weigh. *)
Weight(lru, n) == SumFunction([i \in 1..n |-> lru.node[lru.order[i]].size])

(* The loop that evicts from the back until what is held fits the budget. *)
Evicted(lru, budget) ==
  LET all == Len(lru.order)
      left(n) == lru.held - (Weight(lru, all) - Weight(lru, n))
      fits == {n \in 0..all : n = 0 \/ left(n) <= budget}
      most == CHOOSE n \in fits : \A m \in fits : m <= n
      kept == SubSeq(lru.order, 1, most)
  IN [order |-> kept, node |-> [k \in {kept[i] : i \in 1..most} |-> lru.node[k]], held |-> left(most)]

(* The value pushed on the front, whatever it weighs. *)
Pushed(lru, k, value, size) ==
  [order |-> <<k>> \o lru.order,
   node |-> [j \in DOMAIN lru.node \cup {k} |->
               IF j = k THEN [value |-> value, size |-> size] ELSE lru.node[j]],
   held |-> lru.held + size]

(* Mutant of Kept: what the key weighed before is still counted. *)
KeptTwice(lru, k, value, size, budget) ==
  IF size > budget THEN lru
  ELSE Evicted([Pushed(Erased(lru, k), k, value, size) EXCEPT !.held = lru.held + size], budget)

(* keep: a value bigger than the whole budget is not kept and evicts nothing. *)
Kept(lru, k, value, size, budget) ==
  IF size > budget THEN lru ELSE Evicted(Pushed(Erased(lru, k), k, value, size), budget)
=============================================================================
