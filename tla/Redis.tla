------------------------------- MODULE Redis -------------------------------
(***************************************************************************)
(* The redis the cache shares, as far as RedisStore uses it: the entries,  *)
(* each with its expiry, the sorted set haio:index and the hash haio:sizes *)
(* with theirs.  A key whose time has come reads as missing, and a set or  *)
(* hash that loses its last member is a missing key, with no expiry left.  *)
(***************************************************************************)
EXTENDS Naturals, Sequences

CONSTANTS Ttl, Never   \* Never: the expiry of what has none

Missing == [k \in {} |-> 0]

EmptyDb == [held |-> Missing, index |-> Missing, sizes |-> Missing,
            indexUntil |-> Never, sizesUntil |-> Never]

Bound(f, k, x) == [j \in DOMAIN f \cup {k} |-> IF j = k THEN x ELSE f[j]]
Unbound(f, k) == [j \in DOMAIN f \ {k} |-> f[j]]

Alive(db, k, now) == k \in DOMAIN db.held /\ now < db.held[k].until

(* SET key entry EX ttl; the mutant sets it without an expiry. *)
SetForGood(db, k, e, now) == [db EXCEPT !.held = Bound(@, k, [entry |-> e, until |-> Never])]
Set(db, k, e, now) == [db EXCEPT !.held = Bound(@, k, [entry |-> e, until |-> now + Ttl])]

(* EXPIRE key ttl XX: a missing key stays missing. *)
Renew(db, k, now) ==
  IF Alive(db, k, now) THEN [db EXCEPT !.held[k].until = now + Ttl] ELSE db

Del(db, k) == [db EXCEPT !.held = Unbound(@, k)]

(* ZADD and ZREM on the index, HSET and HDEL on the sizes. *)
ZAdd(db, k, stamp) == [db EXCEPT !.index = Bound(@, k, stamp)]
ZRem(db, k) == [db EXCEPT !.index = Unbound(@, k),
                          !.indexUntil = IF DOMAIN db.index \subseteq {k} THEN Never ELSE @]

HSet(db, k, size) == [db EXCEPT !.sizes = Bound(@, k, size)]
HDel(db, k) == [db EXCEPT !.sizes = Unbound(@, k),
                          !.sizesUntil = IF DOMAIN db.sizes \subseteq {k} THEN Never ELSE @]

(* EXPIRE haio:index and EXPIRE haio:sizes *)
ExpireIndex(db, until) == [db EXCEPT !.indexUntil = IF db.index = Missing THEN Never ELSE until]
ExpireSizes(db, until) == [db EXCEPT !.sizesUntil = IF db.sizes = Missing THEN Never ELSE until]

(* One command, by what it is called. *)
Applied(db, c, now) ==
  CASE c.cmd = "SET" -> Set(db, c.key, c.arg, now)
    [] c.cmd = "EXPIRE XX" -> Renew(db, c.key, now)
    [] c.cmd = "DEL" -> Del(db, c.key)
    [] c.cmd = "ZADD" -> ZAdd(db, c.key, now)
    [] c.cmd = "ZREM" -> ZRem(db, c.key)
    [] c.cmd = "HSET" -> HSet(db, c.key, c.arg)
    [] c.cmd = "HDEL" -> HDel(db, c.key)
    [] c.cmd = "EXPIRE index" -> ExpireIndex(db, now + 2 * Ttl)
    [] c.cmd = "EXPIRE sizes" -> ExpireSizes(db, now + 2 * Ttl)

(* The commands of a request, one after the other. *)
AllApplied(db, commands, now) ==
  LET after[n \in 0..Len(commands)] == IF n = 0 THEN db ELSE Applied(after[n - 1], commands[n], now)
  IN after[Len(commands)]

(* What has run out by then is gone. *)
RunOut(db, now) ==
  [db EXCEPT !.index = IF now >= db.indexUntil THEN Missing ELSE @,
             !.indexUntil = IF now >= @ THEN Never ELSE @,
             !.sizes = IF now >= db.sizesUntil THEN Missing ELSE @,
             !.sizesUntil = IF now >= @ THEN Never ELSE @]
=============================================================================
