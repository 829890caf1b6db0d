---------------------------- MODULE SingleFlight ----------------------------
(***************************************************************************)
(* SingleFlight::run and the Event it waits on, as coroutines on the one   *)
(* thread that drives the loop.                                            *)
(*                                                                         *)
(* An action is the code a coroutine runs between two suspension points.   *)
(* `ready` holds the coroutines the current call stack still has to run,   *)
(* the running one first: Event::set resumes its waiters in place, one     *)
(* after another, before the coroutine that called it goes on.  The loop   *)
(* hands out its next event (a new request, an upstream's answer) only     *)
(* once that stack is empty.                                               *)
(*                                                                         *)
(* A Pending is named by the caller that leads it: a call leads at most    *)
(* one, and nobody reads it once the call has ended (FlightOutlived).     *)
(***************************************************************************)
EXTENDS Naturals, Sequences, FiniteSets, Functions

CONSTANTS Callers,        \* the calls of run() that can be alive at once
          Keys,           \* cache keys
          Answers,        \* what a producer can answer: an entry or an error
          Thrown,         \* the outcome of a producer that ends in an exception
          None,           \* no caller, no key, no answer
          InlineProducers \* whether a producer may end without ever suspending

ASSUME NoneAssumption == None \notin Callers \cup Keys \cup Answers \cup {Thrown}
ASSUME ThrownAssumption == Thrown \notin Answers
ASSUME InlineAssumption == InlineProducers \in BOOLEAN

VARIABLES pc,         \* pc[c]: where the call of c stands
          key,        \* key[c]: the key it was called with
          on,         \* on[c]: the leader of the Pending it holds
          pending,    \* pending[c]: the Pending c leads, or last led
          inFlight,   \* inFlight[k]: the leader of the key's flight
          ready,      \* the coroutines left to run before the next loop event
          got,        \* got[c]: what the call of c returned
          shared,     \* history: the producers that ran while c was asking
          missed      \* history: those among them c did not wait on

vars == <<pc, key, on, pending, inFlight, ready, got, shared, missed>>

Fresh == [set |-> FALSE, answer |-> None, waiters |-> <<>>]
Nothing == [by |-> None, what |-> Thrown]

Init == /\ pc = [c \in Callers |-> "idle"]
        /\ key = [c \in Callers |-> None]
        /\ on = [c \in Callers |-> None]
        /\ pending = [c \in Callers |-> Fresh]
        /\ inFlight = [k \in Keys |-> None]
        /\ ready = <<>>
        /\ got = [c \in Callers |-> Nothing]
        /\ shared = [c \in Callers |-> {}]
        /\ missed = [c \in Callers |-> {}]

(* The callers still without an answer, and those that produce the key. *)
Asking == {c \in Callers : pc[c] \in {"waiting", "woken", "producing"}}

Producing(k) == {c \in Callers : pc[c] = "producing" /\ key[c] = k}

(* co_await pending->finished: an event already set does not suspend. *)
Await(c, k, rest) ==
  LET leader == inFlight[k] IN
  /\ on' = [on EXCEPT ![c] = leader]
  /\ shared' = [shared EXCEPT ![c] = @ \cup Producing(k)]
  /\ missed' = [missed EXCEPT ![c] = @ \ {leader}]
  /\ IF pending[leader].set
     THEN /\ pc' = [pc EXCEPT ![c] = "woken"]
          /\ ready' = <<c>> \o rest
          /\ UNCHANGED pending
     ELSE /\ pc' = [pc EXCEPT ![c] = "waiting"]
          /\ pending' = [pending EXCEPT ![leader].waiters = Append(@, c)]
          /\ ready' = rest
  /\ UNCHANGED inFlight

(* A new Pending for the key; the producer starts running in this very stack. *)
Lead(c, k, rest) ==
  /\ inFlight' = [inFlight EXCEPT ![k] = c]
  /\ pending' = [pending EXCEPT ![c] = Fresh]
  /\ pc' = [pc EXCEPT ![c] = "producing"]
  /\ ready' = <<c>> \o rest
  /\ LET others == {d \in Asking \ {c} : key[d] = k} IN
     /\ shared' = [d \in Callers |-> IF d \in others \cup {c} THEN shared[d] \cup {c} ELSE shared[d]]
     /\ missed' = [d \in Callers |-> IF d \in others THEN missed[d] \cup {c} ELSE missed[d]]
  /\ on' = [on EXCEPT ![c] = None]

(* Mutant of Look: a woken caller leads without looking the key up again. *)
LookOnce(c, k, rest) == IF pc[c] = "idle" /\ inFlight[k] # None THEN Await(c, k, rest)
                                                                ELSE Lead(c, k, rest)

(* The loop of run(): look the key up, wait for its flight or lead one. *)
Look(c, k, rest) == IF inFlight[k] # None THEN Await(c, k, rest) ELSE Lead(c, k, rest)

(* A request reaches run(). *)
Ask(c, k) ==
  /\ ready = <<>>
  /\ pc[c] = "idle"
  /\ key' = [key EXCEPT ![c] = k]
  /\ Look(c, k, <<>>)
  /\ UNCHANGED got

(* Mutant of Resume: the answer is returned without asking whether there is one. *)
ResumeUnchecked(c) ==
  /\ ready # <<>> /\ Head(ready) = c
  /\ pc[c] = "woken"
  /\ pc' = [pc EXCEPT ![c] = "served"]
  /\ got' = [got EXCEPT ![c] = [by |-> on[c], what |-> pending[on[c]].answer]]
  /\ ready' = Tail(ready)
  /\ UNCHANGED <<key, on, pending, inFlight, shared, missed>>

(* A waiter resumed by set(): it returns the answer, or looks again. *)
Resume(c) ==
  /\ ready # <<>> /\ Head(ready) = c
  /\ pc[c] = "woken"
  /\ IF pending[on[c]].answer # None
     THEN /\ pc' = [pc EXCEPT ![c] = "served"]
          /\ got' = [got EXCEPT ![c] = [by |-> on[c], what |-> pending[on[c]].answer]]
          /\ ready' = Tail(ready)
          /\ UNCHANGED <<on, pending, inFlight, shared, missed>>
     ELSE Look(c, key[c], Tail(ready)) /\ UNCHANGED got
  /\ UNCHANGED key

(* The producer waits for the network: back to the loop, or to set()'s next waiter. *)
Suspend(c) ==
  /\ ready # <<>> /\ Head(ready) = c
  /\ pc[c] = "producing"
  /\ ready' = Tail(ready)
  /\ UNCHANGED <<pc, key, on, pending, inFlight, got, shared, missed>>

(* What set() does to the callers it resumes, in the order given. *)
Resumed(c, woken, rest) ==
  /\ ready' = woken \o <<c>> \o rest
  /\ pc' = [d \in Callers |-> IF d = c THEN "returning"
                              ELSE IF d \in Range(woken) THEN "woken" ELSE pc[d]]

(* Mutants of Wake: the flight stays in the map; only the first waiter is
   resumed; the last to arrive is resumed first. *)
WakeKeeps(c, rest) == Resumed(c, pending[c].waiters, rest) /\ UNCHANGED inFlight

WakeFirst(c, rest) ==
  /\ inFlight' = [inFlight EXCEPT ![key[c]] = None]
  /\ LET w == pending[c].waiters IN
     Resumed(c, IF w = <<>> THEN <<>> ELSE <<Head(w)>>, rest)

WakeLastFirst(c, rest) ==
  /\ inFlight' = [inFlight EXCEPT ![key[c]] = None]
  /\ LET w == pending[c].waiters IN
     Resumed(c, [i \in DOMAIN w |-> w[Len(w) + 1 - i]], rest)

(* ~Wake: the flight leaves the map, and set() resumes whoever waits on it. *)
Wake(c, rest) ==
  /\ inFlight' = [inFlight EXCEPT ![key[c]] = None]
  /\ Resumed(c, pending[c].waiters, rest)

(* Mutant of Finish: an exception leaves before anybody is woken. *)
FinishUnwatched(c, outcome) ==
  /\ pc[c] = "producing" /\ ready = <<>>
  /\ pending' = [pending EXCEPT ![c].set = TRUE,
                                ![c].answer = IF outcome = Thrown THEN None ELSE outcome]
  /\ IF outcome = Thrown
     THEN /\ inFlight' = [inFlight EXCEPT ![key[c]] = None]
          /\ Resumed(c, <<>>, <<>>)
     ELSE Wake(c, <<>>)
  /\ UNCHANGED <<key, on, got, shared, missed>>

(* The producer answers or throws; Wake runs either way, after the answer is written. *)
Finish(c, outcome) ==
  /\ pc[c] = "producing"
  /\ \/ ready = <<>>
     \/ InlineProducers /\ ready # <<>> /\ Head(ready) = c
  /\ pending' = [pending EXCEPT ![c] =
        [set |-> TRUE, answer |-> IF outcome = Thrown THEN None ELSE outcome, waiters |-> <<>>]]
  /\ Wake(c, IF ready = <<>> THEN <<>> ELSE Tail(ready))
  /\ UNCHANGED <<key, on, got, shared, missed>>

(* The leader's own call ends, after the waiters it woke have had their turn. *)
Return(c) ==
  /\ ready # <<>> /\ Head(ready) = c
  /\ pc[c] = "returning"
  /\ pc' = [pc EXCEPT ![c] = "served"]
  /\ got' = [got EXCEPT ![c] = [by |-> c, what |-> IF pending[c].answer = None
                                                   THEN Thrown ELSE pending[c].answer]]
  /\ ready' = Tail(ready)
  /\ UNCHANGED <<key, on, pending, inFlight, shared, missed>>

(* The response has been written and the connection may ask again. *)
Leave(c) ==
  /\ ready = <<>>
  /\ pc[c] = "served"
  /\ pc' = [pc EXCEPT ![c] = "idle"]
  /\ key' = [key EXCEPT ![c] = None]
  /\ on' = [on EXCEPT ![c] = None]
  /\ pending' = [pending EXCEPT ![c] = Fresh]
  /\ got' = [got EXCEPT ![c] = Nothing]
  /\ shared' = [shared EXCEPT ![c] = {}]
  /\ missed' = [missed EXCEPT ![c] = {}]
  /\ UNCHANGED <<inFlight, ready>>

Run(c) == Resume(c) \/ Suspend(c) \/ Return(c)
Ends(c) == \E outcome \in Answers \cup {Thrown} : Finish(c, outcome)

Next == \E c \in Callers : \/ \E k \in Keys : Ask(c, k)
                           \/ Run(c) \/ Ends(c) \/ Leave(c)

Spec == Init /\ [][Next]_vars

(***************************************************************************)
(* The stack unwinds by itself.  A producer ends, because what it awaits   *)
(* (a bounded fetch, a conversion of a bounded size) ends, and the loop    *)
(* serves the events it is handed in order, so other requests keeping the  *)
(* stack busy cannot put this one off for ever: strong fairness.  Nothing  *)
(* makes anyone ask.                                                       *)
(***************************************************************************)
Fairness == \A c \in Callers : WF_vars(Run(c)) /\ SF_vars(Ends(c))

FairSpec == Spec /\ Fairness
-----------------------------------------------------------------------------
TypeOK ==
  /\ pc \in [Callers -> {"idle", "waiting", "woken", "producing", "returning", "served"}]
  /\ key \in [Callers -> Keys \cup {None}]
  /\ on \in [Callers -> Callers \cup {None}]
  /\ pending \in [Callers -> [set : BOOLEAN, answer : Answers \cup {None}, waiters : Seq(Callers)]]
  /\ inFlight \in [Keys -> Callers \cup {None}]
  /\ ready \in Seq(Callers)
  /\ got \in [Callers -> [by : Callers \cup {None}, what : Answers \cup {Thrown}]]
  /\ shared \in [Callers -> SUBSET Callers]
  /\ missed \in [Callers -> SUBSET Callers]

(* A key never has two productions running: the point of the whole thing.
   A second leader would need the flight to leave the map, or be overwritten
   in it, while its producer still runs. *)
OneProducerPerKey ==
  \A c, d \in Callers :
    pc[c] = "producing" /\ pc[d] = "producing" /\ key[c] = key[d] => c = d

(* No coroutine is resumed twice or forgotten: a parked caller is in exactly
   one waiters list, once, and that flight is still registered for its key; a
   woken one is on the stack, once.  Resuming a handle twice is undefined
   behaviour, and one nobody resumes is a request that never ends. *)
Running(c) == {i \in DOMAIN ready : ready[i] = c}
Parked(c) == {p \in Callers \X (1..Cardinality(Callers)) :
                /\ p[2] \in DOMAIN pending[p[1]].waiters
                /\ pending[p[1]].waiters[p[2]] = c}

NoLostWaiter ==
  \A c \in Callers :
    /\ Cardinality(Running(c)) + Cardinality(Parked(c)) <= 1
    /\ pc[c] = "waiting" => /\ inFlight[key[c]] = on[c]
                            /\ c \in Range(pending[on[c]].waiters)
    /\ pc[c] \in {"woken", "returning"} => c \in Range(ready)

(* Nobody is answered with something made before it asked: what a call returns
   comes from a production of its key that was running during the call. *)
AnswerIsFresh ==
  \A c \in Callers : pc[c] = "served" => got[c].by \in shared[c]

(* When a leader leaves without an answer, "the first waiter to wake takes over
   while the rest wait on it instead" (deduplication.cpp:20-21): nobody starts a
   production after one it was around for and did not wait on. *)
RestWaitOnTheHeir == \A c \in Callers : pc[c] = "producing" => missed[c] = {}

(* Every call returns, however many productions throw under it: set() resumes
   in the order of arrival, so a waiter moves up the line with each throw. *)
EveryCallReturns == \A c \in Callers : c \in Asking ~> pc[c] = "served"

(***************************************************************************)
(* The coroutines implement Dedup.  A woken caller whose flight answered   *)
(* has been served already, it only has not run yet; one whose flight      *)
(* threw is an orphan until it looks again.                                *)
(***************************************************************************)
Phase(c) ==
  CASE pc[c] = "idle" -> "idle"
    [] pc[c] \in {"waiting", "producing"} -> "asking"
    [] pc[c] = "woken" -> IF pending[on[c]].answer # None THEN "served" ELSE "orphan"
    [] OTHER -> "served"

Outcome(c) ==
  CASE pc[c] = "woken" /\ pending[on[c]].answer # None ->
         [by |-> on[c], what |-> pending[on[c]].answer]
    [] pc[c] = "returning" ->
         [by |-> c, what |-> IF pending[c].answer = None THEN Thrown ELSE pending[c].answer]
    [] OTHER -> got[c]

PhaseMap == [c \in Callers |-> Phase(c)]
OutcomeMap == [c \in Callers |-> Outcome(c)]

Promise == INSTANCE Dedup WITH phase <- PhaseMap, wants <- key,
                               producer <- inFlight, got <- OutcomeMap

ImplementsDedup == Promise!Spec
=============================================================================
