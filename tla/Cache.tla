------------------------------- MODULE Cache -------------------------------
(***************************************************************************)
(* Cache::fetch: look in the store, then share or lead the key's flight,   *)
(* and store what was made before the flight ends.                         *)
(*                                                                         *)
(* The flight is SingleFlight, unchanged.  Its producer is fetch's lambda: *)
(* the server's produce(), the quota and the put are one production.  The  *)
(* store is the one the configuration names: none, one that answers in     *)
(* place (memory, files), or a redis behind one connection whose replies   *)
(* come back in the order the requests went out.                           *)
(***************************************************************************)
EXTENDS Naturals, Sequences

CONSTANTS Callers, Keys, Thrown, None, InlineProducers,
          Entry, Failure,   \* what produce() answers: an entry, or an error
          Stores            \* the stores to consider, among none, inline, remote

Answers == {Entry, Failure}

ASSUME StoresAssumption == Stores \subseteq {"none", "inline", "remote"}
ASSUME NamesAssumption == /\ None \notin Callers \cup Keys \cup Answers \cup {Thrown}
                          /\ Thrown \notin Answers
                          /\ InlineProducers \in BOOLEAN

VARIABLES pc, key, on, pending, inFlight, ready, got, shared, missed, \* SingleFlight's
          store,    \* the configured store; never changes
          stage,    \* stage[c]: where c stands in fetch
          wants,    \* wants[c]: the key c fetches
          wire,     \* requests redis has not answered yet, oldest first
          stored,   \* the keys the store holds
          answered, \* history: callers that were fetching when a production answered
          kept,     \* history: those whose key was stored meanwhile, and still is
          orphaned  \* history: those of kept a throw had woken and who had yet to look again

Flight == INSTANCE SingleFlight

flight == <<pc, key, on, pending, inFlight, ready, got, shared, missed>>
vars == <<flight, store, stage, wants, wire, stored, answered, kept, orphaned>>

Init == /\ Flight!Init
        /\ store \in Stores
        /\ stage = [c \in Callers |-> "out"]
        /\ wants = [c \in Callers |-> None]
        /\ wire = <<>>
        /\ stored = {}
        /\ answered = {}
        /\ kept = {}
        /\ orphaned = {}

(* Woken by a throw: c is about to look its key up in the flights again, and
   will not ask the store again. *)
Loose(c) == pc[c] = "woken" /\ pending[on[c]].answer = None

(* Callers of k still to be answered. *)
Fetching(k) == {c \in Callers : wants[c] = k /\ (stage[c] = "looking" \/ pc[c] = "waiting" \/ Loose(c))}

(* The store did not answer: c goes on to flight.run. *)
Enter(c, k) == stage' = [stage EXCEPT ![c] = "flying"] /\ Flight!Ask(c, k)

Hit(c) == stage' = [stage EXCEPT ![c] = "hit"] /\ UNCHANGED flight

Fetch(c, k) ==
  /\ ready = <<>>
  /\ stage[c] = "out"
  /\ wants' = [wants EXCEPT ![c] = k]
  /\ IF store = "remote"
     THEN /\ stage' = [stage EXCEPT ![c] = "looking"]
          /\ wire' = Append(wire, [op |-> "get", by |-> c])
          /\ UNCHANGED flight
     ELSE /\ IF store = "inline" /\ k \in stored THEN Hit(c) ELSE Enter(c, k)
          /\ UNCHANGED wire
  /\ UNCHANGED <<store, stored, answered, kept, orphaned>>

(* Mutant of GetReply: replies come back in any order, so one may carry what
   the store held before a put that has been answered since. *)
GetReplyUnordered(c, failed) ==
  /\ ready = <<>>
  /\ stage[c] = "looking"
  /\ wire' = SelectSeq(wire, LAMBDA r : r.by # c)
  /\ IF wants[c] \in stored /\ c \notin kept /\ ~failed THEN Hit(c) ELSE Enter(c, wants[c])
  /\ kept' = IF failed THEN kept \ {c} ELSE kept
  /\ UNCHANGED <<store, wants, stored, answered, orphaned>>

(* redis answers a GET; a connection that failed reads as a miss. *)
GetReply(c, failed) ==
  /\ ready = <<>>
  /\ wire # <<>> /\ Head(wire) = [op |-> "get", by |-> c]
  /\ wire' = Tail(wire)
  /\ IF wants[c] \in stored /\ ~failed THEN Hit(c) ELSE Enter(c, wants[c])
  /\ kept' = IF failed THEN kept \ {c} ELSE kept
  /\ UNCHANGED <<store, wants, stored, answered, orphaned>>

(* The flight ends, the entry having been put in the store or not. *)
End(c, outcome, put) ==
  LET others == Fetching(wants[c]) IN
  /\ Flight!Finish(c, outcome)
  /\ stored' = IF put THEN stored \cup {wants[c]} ELSE stored
  /\ kept' = IF put THEN kept \cup others ELSE kept
  /\ orphaned' = IF put THEN (orphaned \ others) \cup {d \in others : Loose(d)} ELSE orphaned
  /\ answered' = IF outcome \in Answers THEN answered \cup others ELSE answered
  /\ stage' = [stage EXCEPT ![c] = "flying"]

(* Mutant of Made: the flight ends first and the entry is put after it. *)
MadeThenStored(c, outcome, allowed, fits) ==
  /\ stage[c] = "flying"
  /\ End(c, outcome, outcome = Entry /\ store = "inline" /\ fits)
  /\ wire' = IF outcome = Entry /\ store = "remote" /\ allowed
             THEN Append(wire, [op |-> "put", by |-> c]) ELSE wire
  /\ UNCHANGED <<store, wants>>

(* produce() ended.  An entry the quota allows is put in the store first; a
   put in place may fail to keep it, one to redis waits for the reply. *)
Made(c, outcome, allowed, fits) ==
  LET keep == outcome = Entry /\ store # "none" /\ allowed IN
  /\ stage[c] = "flying"
  /\ IF keep /\ store = "remote"
     THEN /\ pc[c] = "producing"
          /\ \/ ready = <<>> /\ UNCHANGED flight
             \/ InlineProducers /\ Flight!Suspend(c)
          /\ stage' = [stage EXCEPT ![c] = "storing"]
          /\ wire' = Append(wire, [op |-> "put", by |-> c])
          /\ UNCHANGED <<stored, answered, kept, orphaned>>
     ELSE End(c, outcome, keep /\ fits) /\ UNCHANGED wire
  /\ UNCHANGED <<store, wants>>

(* redis answers the SET; one that failed leaves the entry out and no more. *)
PutReply(c, failed) ==
  /\ ready = <<>>
  /\ wire # <<>> /\ Head(wire) = [op |-> "put", by |-> c]
  /\ wire' = Tail(wire)
  /\ End(c, Entry, ~failed)
  /\ UNCHANGED <<store, wants>>

(* The stack runs: waiters read their answer or look again, leaders return. *)
Run(c) ==
  /\ stage[c] = "flying"
  /\ Flight!Run(c)
  /\ UNCHANGED <<store, stage, wants, wire, stored, answered, kept, orphaned>>

(* Mutant of Leave: a client that hangs up takes its fetch along while the
   put is out. *)
LeaveStoring(c) ==
  /\ stage[c] \in {"hit", "storing"} /\ ready = <<>>
  /\ stage' = [stage EXCEPT ![c] = "out"]
  /\ wants' = [wants EXCEPT ![c] = None]
  /\ answered' = answered \ {c}
  /\ kept' = kept \ {c}
  /\ orphaned' = orphaned \ {c}
  /\ UNCHANGED <<flight, store, wire, stored>>

(* The response is written. *)
Leave(c) ==
  /\ \/ stage[c] = "hit" /\ ready = <<>> /\ UNCHANGED flight
     \/ stage[c] = "flying" /\ Flight!Leave(c)
  /\ stage' = [stage EXCEPT ![c] = "out"]
  /\ wants' = [wants EXCEPT ![c] = None]
  /\ answered' = answered \ {c}
  /\ kept' = kept \ {c}
  /\ orphaned' = orphaned \ {c}
  /\ UNCHANGED <<store, wire, stored>>

(* The store drops a key: its ttl ran out or the budget evicted it. *)
Drop(k) ==
  /\ ready = <<>>
  /\ k \in stored
  /\ stored' = stored \ {k}
  /\ kept' = {c \in kept : wants[c] # k}
  /\ orphaned' = {c \in orphaned : wants[c] # k}
  /\ UNCHANGED <<flight, store, stage, wants, wire, answered>>

Replies(c) == \E failed \in BOOLEAN : GetReply(c, failed) \/ PutReply(c, failed)
Produces(c) == \E outcome \in Answers \cup {Thrown}, allowed, fits \in BOOLEAN :
                 Made(c, outcome, allowed, fits)

Next == \/ \E c \in Callers : \/ \E k \in Keys : Fetch(c, k)
                              \/ Replies(c) \/ Produces(c) \/ Run(c) \/ Leave(c)
        \/ \E k \in Keys : Drop(k)

Spec == Init /\ [][Next]_vars
-----------------------------------------------------------------------------
TypeOK ==
  /\ Flight!TypeOK
  /\ store \in Stores
  /\ stage \in [Callers -> {"out", "looking", "flying", "storing", "hit"}]
  /\ wants \in [Callers -> Keys \cup {None}]
  /\ wire \in Seq([op : {"get", "put"}, by : Callers])
  /\ stored \subseteq Keys
  /\ answered \subseteq Callers
  /\ orphaned \subseteq kept /\ kept \subseteq Callers

(* A production that stores its entry is the last of the burst around it: the
   flight is held until the put is answered, and redis answers in order, so
   whoever looked before the put joins the flight and whoever looked after it
   finds the entry.  Two callers alone produce again: one whose lookup failed,
   and one a throw had woken when the caller woken before it produced and
   stored without ever suspending, inside set(): run() looks for a flight and
   never asks the store, and that flight is already over.  It takes a store
   and a producer that both end in place. *)
StoredBurstProducesOnce ==
  \A c \in kept : pc[c] = "producing" => store = "inline" /\ InlineProducers /\ c \in orphaned

(* "a burst on a key reaches the producer once whether or not the answer is
   kept afterwards" (cache.hpp:17-19): nobody produces a key after a
   production of it answered while it was already asking. *)
BurstProducesOnce == \A c \in answered : pc[c] # "producing"

(* Storing is part of producing: a request of redis waits behind it, one per
   caller, and it is over before the flight is. *)
WireIsOurs ==
  \A c \in Callers :
    LET mine == {i \in DOMAIN wire : wire[i].by = c} IN
    /\ \A i, j \in mine : i = j
    /\ stage[c] = "looking" <=> \E i \in mine : wire[i].op = "get"
    /\ stage[c] = "storing" <=> \E i \in mine : wire[i].op = "put"
    /\ stage[c] = "storing" => inFlight[wants[c]] = c
=============================================================================
