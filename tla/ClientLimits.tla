---------------------------- MODULE ClientLimits ----------------------------
(***************************************************************************)
(* What the cdn counts per address: RateLimiter::allow, asked by every     *)
(* request, and ClientQuota::mayStore, asked by every entry about to be    *)
(* stored.  Both keep one row per address in a ClientTable, which drops    *)
(* the rows its limit says can go, and clears itself when that is not      *)
(* enough.                                                                 *)
(*                                                                         *)
(* The two limits share nothing but the clock, so a behaviour exercises one *)
(* of them.                                                                *)
(*                                                                         *)
(* Time is counted in ticks, Second of them to the second, and credit in   *)
(* Second-ths of a request, so a bucket gains Rate of them in a tick.      *)
(***************************************************************************)
EXTENDS Naturals, FiniteSets

CONSTANTS Clients,    \* addresses
          Rate,       \* security.max_requests_by_ip
          PerWindow,  \* cache.max_cache_entries_by_ip
          Window,     \* ticks a quota window lasts
          Second,     \* ticks in a second
          MaxRows,    \* clientsBeforePrune
          MaxTime     \* bound: the last tick

ASSUME RateAssumption == Rate \in Nat \ {0} /\ Second \in Nat \ {0}
ASSUME QuotaAssumption == PerWindow \in Nat \ {0} /\ Window \in Nat \ {0}
ASSUME TableAssumption == MaxRows \in Nat /\ MaxTime \in Nat

VARIABLES limit,     \* the limit that is exercised; never changes
          now,       \* the steady clock
          buckets,   \* RateLimiter::seen_
          windows,   \* ClientQuota::seen_
          allowed,   \* history: requests allowed since the buckets were cleared
          created    \* history: entries allowed since the windows were cleared

vars == <<limit, now, buckets, windows, allowed, created>>

Full == Rate * Second
NoRows == [c \in {} |-> 0]
Never == [c \in Clients |-> [t \in 0..MaxTime |-> 0]]

Init == /\ limit \in {"rate", "quota"}
        /\ now = 0
        /\ buckets = NoRows /\ windows = NoRows
        /\ allowed = Never /\ created = Never

(* Mutant of StillKept: the rows that can go are dropped, and no more. *)
KeptBusy(rows, gone) ==
  IF Cardinality(DOMAIN rows) <= MaxRows THEN rows ELSE [c \in (DOMAIN rows) \ gone |-> rows[c]]

(* ClientTable::row before it looks for the client: a crowded table drops the
   rows that can go, and every row when that leaves it crowded. *)
StillKept(rows, gone) ==
  LET left == (DOMAIN rows) \ gone IN
  IF Cardinality(DOMAIN rows) <= MaxRows THEN rows
  ELSE IF Cardinality(left) <= MaxRows THEN [c \in left |-> rows[c]] ELSE NoRows

(* The table had to be cleared: everyone starts fresh. *)
Cleared(rows, gone) == Cardinality((DOMAIN rows) \ gone) > MaxRows

(* The table with the row of c set. *)
With(rows, c, row) == [d \in DOMAIN rows \cup {c} |-> IF d = c THEN row ELSE rows[d]]

(* History: one more for c now, of what happened since the table was cleared. *)
Tally(history, forgotten, c, granted) ==
  [(IF forgotten THEN Never ELSE history) EXCEPT ![c][now] = IF granted THEN @ + 1 ELSE @]

(* Mutants of Credit: credit is saved up without end, or only per whole second. *)
CreditUncapped(bucket) == bucket.tokens + (now - bucket.filled) * Rate

CreditBySecond(bucket) ==
  LET refilled == bucket.tokens + ((now - bucket.filled) \div Second) * Full IN
  IF refilled > Full THEN Full ELSE refilled

(* What the bucket holds now, never above one second of the rate. *)
Credit(bucket) ==
  LET refilled == bucket.tokens + (now - bucket.filled) * Rate IN
  IF refilled > Full THEN Full ELSE refilled

(* Mutant of Refilled: a bucket with credit for a request can go. *)
RefilledSome == {c \in DOMAIN buckets : Credit(buckets[c]) >= Second}

Refilled == {c \in DOMAIN buckets : Credit(buckets[c]) >= Full}

(* RateLimiter::allow; without a limit or an address it allows and counts nothing. *)
Allow(c) ==
  LET rows == StillKept(buckets, Refilled)
      held == IF c \in DOMAIN rows THEN Credit(rows[c]) ELSE Full
      granted == held >= Second
  IN /\ limit = "rate"
     /\ buckets' = With(rows, c, [tokens |-> IF granted THEN held - Second ELSE held, filled |-> now])
     /\ allowed' = Tally(allowed, Cleared(buckets, Refilled), c, granted)
     /\ UNCHANGED <<limit, now, windows, created>>

(* Mutant of Open: the window ends a tick early. *)
OpenShort(window) ==
  IF now >= window.resets THEN [created |-> 0, resets |-> now + Window - 1] ELSE window

(* The window to count in: a new one when the old has run out. *)
Open(window) ==
  IF now >= window.resets THEN [created |-> 0, resets |-> now + Window] ELSE window

Elapsed == {c \in DOMAIN windows : now >= windows[c].resets}

(* ClientQuota::mayStore; a quota of zero and no address are never counted. *)
MayStore(c) ==
  LET rows == StillKept(windows, Elapsed)
      window == Open(IF c \in DOMAIN rows THEN rows[c] ELSE [created |-> 0, resets |-> 0])
      granted == window.created < PerWindow
  IN /\ limit = "quota"
     /\ windows' = With(rows, c, IF granted THEN [window EXCEPT !.created = @ + 1] ELSE window)
     /\ created' = Tally(created, Cleared(windows, Elapsed), c, granted)
     /\ UNCHANGED <<limit, now, buckets, allowed>>

Tick == /\ now < MaxTime
        /\ now' = now + 1
        /\ UNCHANGED <<limit, buckets, windows, allowed, created>>

Next == Tick \/ \E c \in Clients : Allow(c) \/ MayStore(c)

Spec == Init /\ [][Next]_vars
-----------------------------------------------------------------------------
TypeOK ==
  /\ limit \in {"rate", "quota"}
  /\ now \in 0..MaxTime
  /\ DOMAIN buckets \subseteq Clients
  /\ \A c \in DOMAIN buckets : buckets[c] \in [tokens : 0..Full, filled : 0..now]
  /\ DOMAIN windows \subseteq Clients
  /\ \A c \in DOMAIN windows : windows[c] \in [created : 1..PerWindow, resets : 1..(now + Window)]
  /\ Cardinality(DOMAIN buckets) <= MaxRows + 1
  /\ Cardinality(DOMAIN windows) <= MaxRows + 1

(* How many the history counts for c from tick `from` to tick `to`. *)
Count(history, c, from, to) ==
  LET sum[t \in 0..MaxTime] ==
        (IF t = 0 THEN 0 ELSE sum[t - 1]) + (IF t >= from THEN history[c][t] ELSE 0)
  IN sum[to]

Spans == {span \in (0..MaxTime) \X (0..MaxTime) : span[1] <= span[2] /\ span[2] <= now}

(* An address "may burst that much at once and is then held to the rate"
   (server.cpp:237-238): over any stretch of time it is allowed one second's
   burst and the rate, until the table is cleared. *)
HeldToRate ==
  \A c \in Clients, span \in Spans :
    Count(allowed, c, span[1], span[2]) * Second <= Full + (span[2] - span[1]) * Rate

(* And no less: what it was not allowed in the last second it may have now, so
   one that has been idle is not refused (server.cpp:239-240). *)
Available(c) == IF c \in DOMAIN buckets THEN Credit(buckets[c]) ELSE Full

QuietMayBurst ==
  \A c \in Clients :
    LET from == IF now < Second THEN 0 ELSE now - Second + 1 IN
    Available(c) + Count(allowed, c, from, now) * Second >= Full

(* Dropping rows forgets nothing: what a crowded table has left says of every
   client what a table that never drops would say ("a bucket that has refilled
   says nothing a new one would not", server.cpp:251). *)
CreditOf(c) ==
  LET level[t \in 0..MaxTime] ==
        LET before == IF t = 0 \/ level[t - 1] + Rate > Full THEN Full ELSE level[t - 1] + Rate
        IN before - allowed[c][t] * Second
  IN level[now]

QuotaOf(c) ==
  LET window[t \in 0..MaxTime] ==
        LET before == IF t = 0 THEN [created |-> 0, resets |-> 0] ELSE window[t - 1] IN
        IF created[c][t] = 0 THEN before
        ELSE IF t >= before.resets THEN [created |-> created[c][t], resets |-> t + Window]
        ELSE [before EXCEPT !.created = @ + created[c][t]]
  IN IF now >= window[now].resets THEN PerWindow ELSE PerWindow - window[now].created

QuotaLeft(c) == IF c \notin DOMAIN windows \/ now >= windows[c].resets THEN PerWindow
                ELSE PerWindow - windows[c].created

ForgetsNothing == \A c \in Clients : Available(c) = CreditOf(c) /\ QuotaLeft(c) = QuotaOf(c)

(* An address creates at most its quota in a window, and windows do not overlap:
   a stretch of time meets those it holds and one that had begun before it. *)
HeldToQuota ==
  \A c \in Clients, span \in Spans :
    Count(created, c, span[1], span[2])
      <= PerWindow * ((span[2] - span[1] + Window - 1) \div Window + 1)
=============================================================================
