----------------------------- MODULE RedisStore -----------------------------
(***************************************************************************)
(* The cache's store in a redis that several processes share.  A get or a  *)
(* put is one request; every TrimEvery-th put of a process goes on to trim *)
(* in four more: it lists the index, asks what is still there, asks what   *)
(* it weighs, and drops.  It waits for each answer, and in between the     *)
(* other requests, of its own process and of the others, are served.       *)
(*                                                                         *)
(* Requests on a connection are answered in order, so what a process does  *)
(* when an answer comes may be taken together with the request.  A         *)
(* connection that is lost has served some of the commands of a request,   *)
(* and the process is told of an error.                                    *)
(***************************************************************************)
EXTENDS Naturals, Sequences, FiniteSets, SequencesExt, FiniteSetsExt

CONSTANTS Procs, Keys, Entries, None, Ttl, MaxUsage, SizeOf(_), TrimEvery,
          Trims,    \* bound: as many trims run at a time
          MaxTime,  \* bound: the last tick
          MaxLost   \* bound: how often a connection is lost

ASSUME KeysAssumption == IsFiniteSet(Keys)   \* a key is a digest
ASSUME TtlAssumption == Ttl \in Nat \ {0}
ASSUME TrimEveryAssumption == TrimEvery \in Nat \ {0}
ASSUME BudgetAssumption == MaxUsage \in Nat
ASSUME BoundsAssumption == MaxTime \in Nat /\ MaxLost \in Nat
ASSUME EntriesAssumption == None \notin Entries /\ \A e \in Entries : SizeOf(e) \in Nat \ {0}

VARIABLES now,
          db,     \* what redis holds
          since,  \* since[p]: sinceTrim_ of the process
          trim,   \* trim[t]: how far a trim is, and what it knows
          answer, \* what a get has just answered
          lost

vars == <<now, db, since, trim, answer, lost>>

Never == MaxTime + 2 * Ttl + 1
R == INSTANCE Redis

Idle == [at |-> "idle", keys |-> <<>>, alive |-> {}, drops |-> <<>>, disturbed |-> FALSE]

Init == /\ now = 0 /\ db = R!EmptyDb
        /\ since = [p \in Procs |-> 0]
        /\ trim = [t \in Trims |-> Idle]
        /\ answer = None /\ lost = 0

(* History: what a trim already knows has changed under it. *)
Disturbed(trims) ==
  [t \in Trims |-> IF trims[t].at = "idle" THEN trims[t] ELSE [trims[t] EXCEPT !.disturbed = TRUE]]

GetRequest(k) == <<[cmd |-> "EXPIRE XX", key |-> k, arg |-> None],
                   [cmd |-> "ZADD", key |-> k, arg |-> None]>>

PutRequest(k, e) == <<[cmd |-> "SET", key |-> k, arg |-> e],
                      [cmd |-> "ZADD", key |-> k, arg |-> None],
                      [cmd |-> "HSET", key |-> k, arg |-> SizeOf(e)],
                      [cmd |-> "EXPIRE index", key |-> k, arg |-> None],
                      [cmd |-> "EXPIRE sizes", key |-> k, arg |-> None]>>

Served(commands) == db' = R!AllApplied(db, commands, now)

(* Only the first commands are served, and the process learns of an error. *)
Cut(commands) ==
  /\ lost < MaxLost /\ lost' = lost + 1
  /\ \E n \in 0..Len(commands) : db' = R!AllApplied(db, SubSeq(commands, 1, n), now)

(* get: the GET of the request reads, the rest renew; an error is a miss. *)
Get(k) ==
  /\ \/ /\ answer' = IF R!Alive(db, k, now) THEN db.held[k].entry ELSE None
        /\ Served(GetRequest(k)) /\ UNCHANGED lost
     \/ answer' = None /\ Cut(GetRequest(k))
  /\ trim' = Disturbed(trim)
  /\ UNCHANGED <<now, since>>

(* put, up to its trim *)
Put(p, k, e) ==
  /\ answer' = None
  /\ \/ /\ Served(PutRequest(k, e)) /\ UNCHANGED lost
        /\ IF since[p] + 1 < TrimEvery
           THEN since' = [since EXCEPT ![p] = @ + 1] /\ trim' = Disturbed(trim)
           ELSE /\ since' = [since EXCEPT ![p] = 0]
                /\ \E t \in Trims :
                     /\ trim[t].at = "idle"
                     /\ trim' = [Disturbed(trim) EXCEPT ![t].at = "listing"]
     \/ Cut(PutRequest(k, e)) /\ trim' = Disturbed(trim) /\ UNCHANGED since
  /\ UNCHANGED now
-----------------------------------------------------------------------------
(* ZRANGE: the keys by their score; redis has an order for those of one score. *)
Listed == {order \in SetToSeqs(DOMAIN db.index) :
             \A i, j \in DOMAIN order : i < j => db.index[order[i]] <= db.index[order[j]]}

List(t) ==
  /\ trim[t].at = "listing"
  /\ \E order \in Listed :
       trim' = [trim EXCEPT ![t] = IF order = <<>> THEN Idle
                                   ELSE [Idle EXCEPT !.at = "measuring", !.keys = order]]
  /\ UNCHANGED <<db, lost>>

Measure(t) ==
  /\ trim[t].at = "measuring"
  /\ trim' = [trim EXCEPT ![t].at = "weighing",
                          ![t].alive = {k \in Range(trim[t].keys) : R!Alive(db, k, now)}]
  /\ UNCHANGED <<db, lost>>

(* HGET: a size that is not there counts as nothing. *)
Cost(k) == IF k \in DOMAIN db.sizes THEN db.sizes[k] ELSE 0
Costs(keys) == SumFunction([k \in keys |-> Cost(k)])

(* How many of the keys go, oldest first, for the rest to fit. *)
Surplus(keys, alive) ==
  LET first(n) == alive \cap {keys[i] : i \in 1..n}
      fits == {n \in 0..Len(keys) : Costs(alive) - Costs(first(n)) <= MaxUsage}
  IN Min(fits)

Forgetting(k) == <<[cmd |-> "ZREM", key |-> k, arg |-> None], [cmd |-> "HDEL", key |-> k, arg |-> None]>>
Evicting(k) == <<[cmd |-> "DEL", key |-> k, arg |-> None]>> \o Forgetting(k)

(* What redis has expired is forgotten, then of the first n keys what is
   there goes, oldest first. *)
Request(keys, alive, n) ==
  FlattenSeq([i \in DOMAIN keys |-> IF keys[i] \in alive THEN <<>> ELSE Forgetting(keys[i])])
    \o FlattenSeq([i \in 1..n |-> IF keys[i] \in alive THEN Evicting(keys[i]) ELSE <<>>])

(* Mutant of Drops: what redis has expired is counted too. *)
DropsCountingGhosts(keys, alive) == Request(keys, alive, Surplus(keys, Range(keys)))

(* The request that drops, until the rest fits. *)
Drops(keys, alive) == Request(keys, alive, Surplus(keys, alive))

(* Mutant of Weigh: a request is made although there is nothing to drop. *)
WeighAlways(t) ==
  /\ trim[t].at = "weighing"
  /\ trim' = [trim EXCEPT ![t] =
       [@ EXCEPT !.at = "dropping", !.keys = <<>>, !.alive = {}, !.drops = Drops(trim[t].keys, trim[t].alive)]]
  /\ UNCHANGED <<db, lost>>

(* A trim with nothing to drop is over. *)
Weigh(t) ==
  /\ trim[t].at = "weighing"
  /\ LET drops == Drops(trim[t].keys, trim[t].alive) IN
     trim' = [trim EXCEPT ![t] = IF drops = <<>> THEN Idle
                                 ELSE [@ EXCEPT !.at = "dropping", !.keys = <<>>, !.alive = {}, !.drops = drops]]
  /\ UNCHANGED <<db, lost>>

Drop(t) ==
  /\ trim[t].at = "dropping"
  /\ (Served(trim[t].drops) /\ UNCHANGED lost) \/ Cut(trim[t].drops)
  /\ trim' = [Disturbed(trim) EXCEPT ![t] = Idle]

(* A request of a trim fails: it goes no further. *)
Fail(t) ==
  /\ trim[t].at \in {"listing", "measuring", "weighing"}
  /\ lost < MaxLost /\ lost' = lost + 1
  /\ trim' = [trim EXCEPT ![t] = Idle]
  /\ UNCHANGED db

Trim(t) == /\ List(t) \/ Measure(t) \/ Weigh(t) \/ Drop(t) \/ Fail(t)
           /\ answer' = None
           /\ UNCHANGED <<now, since>>

Tick == /\ now < MaxTime /\ now' = now + 1
        /\ db' = R!RunOut(db, now + 1)
        /\ trim' = Disturbed(trim)
        /\ answer' = None
        /\ UNCHANGED <<since, lost>>

Next == \/ Tick
        \/ \E t \in Trims : Trim(t)
        \/ \E k \in Keys : Get(k) \/ \E p \in Procs, e \in Entries : Put(p, k, e)

Spec == Init /\ [][Next]_vars
-----------------------------------------------------------------------------
Times == 0..Never

TypeOK ==
  /\ now \in 0..MaxTime
  /\ \A k \in DOMAIN db.held : k \in Keys /\ db.held[k] \in [entry : Entries, until : Times]
  /\ \A k \in DOMAIN db.index : k \in Keys /\ db.index[k] \in 0..MaxTime
  /\ \A k \in DOMAIN db.sizes : k \in Keys /\ db.sizes[k] \in {SizeOf(e) : e \in Entries}
  /\ db.indexUntil \in Times /\ db.sizesUntil \in Times
  /\ since \in [Procs -> 0..(TrimEvery - 1)]
  /\ \A t \in Trims : /\ trim[t].at \in {"idle", "listing", "measuring", "weighing", "dropping"}
                      /\ trim[t].keys \in Seq(Keys) /\ trim[t].alive \subseteq Keys
                      /\ (trim[t].at = "dropping") = (trim[t].drops # <<>>)
  /\ answer \in Entries \cup {None}
  /\ lost \in 0..MaxLost

Live(d, time) == {k \in Keys : R!Alive(d, k, time)}

(* A trim nothing comes between reconciles the index and meets the budget, as
   far as it knows what the entries weigh: it forgets every key redis has
   expired, evicts only when it must, and then what was wanted longest ago. *)
Complete(t) == trim[t].at \in {"weighing", "dropping"} /\ trim'[t].at = "idle" /\ lost' = lost

TrimReconciles ==
  [][\A t \in Trims : Complete(t) /\ ~trim[t].disturbed =>
       LET before == Live(db, now) after == Live(db', now)
           weighed == before \cap DOMAIN db.index
           weigh(keys) == SumFunction([k \in keys |-> IF k \in DOMAIN db.sizes THEN db.sizes[k] ELSE 0]) IN
       /\ DOMAIN db'.index = after \cap DOMAIN db.index
       /\ weigh(after \cap DOMAIN db.index) <= MaxUsage
       /\ before # after => weigh(weighed) > MaxUsage
       /\ \A k \in before \ after, j \in after \cap DOMAIN db.index : db.index[k] <= db.index[j]]_vars

(* "The index says which keys are ours and when each was last wanted; the hash
   beside it says what each one costs" (redis.cpp:136-137). *)
Accounted ==
  \A k \in Live(db, now) : k \in DOMAIN db.index /\ k \in DOMAIN db.sizes

EntryMap == [k \in Keys |-> IF k \in DOMAIN db.held THEN db.held[k].entry ELSE None]
UsedMap == [k \in Keys |-> IF k \in DOMAIN db.held THEN db.held[k].until - Ttl ELSE 0]

(* Several processes on one redis, whatever is trimmed between their calls and
   whatever is lost, answer with what was last put under the key, if it was put
   or read within the ttl, or with nothing (haio_cache.hpp:40-44). *)
Promise == INSTANCE EntryStore WITH entry <- EntryMap, used <- UsedMap
ImplementsPromise == Promise!Spec
=============================================================================
