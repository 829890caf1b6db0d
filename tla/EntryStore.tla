----------------------------- MODULE EntryStore -----------------------------
(***************************************************************************)
(* What a CacheStore promises, whatever keeps the entries: get answers     *)
(* with what was last put under the key, or with nothing, and never with   *)
(* an entry nobody has put or read for a ttl.  "A hit renews the entry's   *)
(* ttl, so what is being asked for keeps living" (haio_cache.hpp:40-44).   *)
(*                                                                         *)
(* It does not promise to keep anything: a store may drop what it likes.   *)
(***************************************************************************)
EXTENDS Naturals

CONSTANTS Keys, Entries, None, Ttl, MaxTime

VARIABLES now,    \* the clock
          entry,  \* entry[k]: what was last put under k, if it is still kept
          used,   \* used[k]: when it was put, or last read and found
          answer  \* what a get has just answered

vars == <<now, entry, used, answer>>

Init == /\ now = 0
        /\ entry = [k \in Keys |-> None]
        /\ used = [k \in Keys |-> 0]
        /\ answer = None

(* Some keys may be lost at any step. *)
Loses(before, times) ==
  \E lost \in SUBSET Keys :
    /\ entry' = [k \in Keys |-> IF k \in lost THEN None ELSE before[k]]
    /\ used' = [k \in Keys |-> IF k \in lost THEN 0 ELSE times[k]]

(* A store whose answer is lost has still renewed the entry. *)
Get(k) ==
  /\ \/ /\ entry[k] # None /\ now - used[k] < Ttl
        /\ answer' \in {entry[k], None}
        /\ Loses(entry, [used EXCEPT ![k] = now])
     \/ answer' = None /\ Loses(entry, used)
  /\ UNCHANGED now

(* An entry a store does not take leaves what the key had, or not even that. *)
Put(k, e) ==
  /\ \/ Loses([entry EXCEPT ![k] = e], [used EXCEPT ![k] = now])
     \/ Loses(entry, used)
  /\ answer' = None
  /\ UNCHANGED now

Lose == Loses(entry, used) /\ answer' = None /\ UNCHANGED now

Tick == now < MaxTime /\ now' = now + 1 /\ answer' = None /\ UNCHANGED <<entry, used>>

Next == Tick \/ Lose \/ \E k \in Keys : Get(k) \/ \E e \in Entries : Put(k, e)

Spec == Init /\ [][Next]_vars
=============================================================================
