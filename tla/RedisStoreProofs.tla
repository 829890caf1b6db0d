-------------------------- MODULE RedisStoreProofs --------------------------
(***************************************************************************)
(* Proofs about RedisStore, for any processes, trims, keys, entries, ttl   *)
(* and budget.                                                             *)
(***************************************************************************)
EXTENDS RedisStore, LruProofs, SequenceTheorems

(* What redis may hold, and what it may be asked to do. *)
Maps(S) == UNION {[D -> S] : D \in SUBSET Keys}
Holdings == [entry : Entries, until : Times]
Stamps == 0..MaxTime
Weights == {SizeOf(e) : e \in Entries}
Dbs == [held : Maps(Holdings), index : Maps(Stamps), sizes : Maps(Weights),
        indexUntil : Times, sizesUntil : Times]

Droppings == [cmd : {"DEL", "ZREM", "HDEL"}, key : Keys, arg : {None}]
Commands ==
  Droppings \cup [cmd : {"EXPIRE XX", "ZADD", "EXPIRE index", "EXPIRE sizes"}, key : Keys, arg : {None}]
    \cup [cmd : {"SET"}, key : Keys, arg : Entries] \cup [cmd : {"HSET"}, key : Keys, arg : Weights]
-----------------------------------------------------------------------------
(* One command. *)
LEMMA MapsAre ==
  ASSUME NEW S, NEW f
  PROVE  f \in Maps(S) <=> /\ DOMAIN f \subseteq Keys /\ f = [k \in DOMAIN f |-> f[k]]
                           /\ \A k \in DOMAIN f : f[k] \in S
BY DEF Maps

LEMMA BoundOk ==
  ASSUME NEW S, NEW f \in Maps(S), NEW k \in Keys, NEW x \in S
  PROVE  R!Bound(f, k, x) \in Maps(S)
<1>1. DOMAIN f \subseteq Keys /\ \A j \in DOMAIN f : f[j] \in S
  BY MapsAre
<1>2. /\ R!Bound(f, k, x) = [j \in DOMAIN R!Bound(f, k, x) |-> R!Bound(f, k, x)[j]]
      /\ DOMAIN R!Bound(f, k, x) = DOMAIN f \cup {k}
      /\ R!Bound(f, k, x)[k] = x /\ \A j \in DOMAIN f \ {k} : R!Bound(f, k, x)[j] = f[j]
  BY DEF R!Bound
<1>. QED
  BY <1>1, <1>2, MapsAre

LEMMA UnboundOk ==
  ASSUME NEW S, NEW f \in Maps(S), NEW k
  PROVE  R!Unbound(f, k) \in Maps(S)
<1>1. DOMAIN f \subseteq Keys /\ \A j \in DOMAIN f : f[j] \in S
  BY MapsAre
<1>2. /\ R!Unbound(f, k) = [j \in DOMAIN R!Unbound(f, k) |-> R!Unbound(f, k)[j]]
      /\ DOMAIN R!Unbound(f, k) = DOMAIN f \ {k}
      /\ \A j \in DOMAIN f \ {k} : R!Unbound(f, k)[j] = f[j]
  BY DEF R!Unbound
<1>. QED
  BY <1>1, <1>2, MapsAre

LEMMA MissingIs ==
  ASSUME NEW S
  PROVE  R!Missing \in Maps(S) /\ DOMAIN R!Missing = {}
BY MapsAre, ZenonT(60) DEF R!Missing

LEMMA TimesAre ==
  ASSUME NEW time \in 0..MaxTime
  PROVE  time + Ttl \in Times /\ time + 2 * Ttl \in Times /\ Never \in Times
BY TtlAssumption, BoundsAssumption DEF Times, Never

LEMMA HeldNext ==
  ASSUME NEW d \in Dbs, NEW h \in Maps(Holdings)
  PROVE  [d EXCEPT !.held = h] \in Dbs /\ [d EXCEPT !.held = h].held = h
         /\ [d EXCEPT !.held = h].index = d.index
BY DEF Dbs

LEMMA IndexNext ==
  ASSUME NEW d \in Dbs, NEW i \in Maps(Stamps), NEW until \in Times
  PROVE  [d EXCEPT !.index = i, !.indexUntil = until] \in Dbs
BY DEF Dbs

LEMMA SizesNext ==
  ASSUME NEW d \in Dbs, NEW s \in Maps(Weights), NEW until \in Times
  PROVE  [d EXCEPT !.sizes = s, !.sizesUntil = until] \in Dbs
         /\ [d EXCEPT !.sizes = s, !.sizesUntil = until].held = d.held
         /\ [d EXCEPT !.sizes = s, !.sizesUntil = until].index = d.index
BY DEF Dbs

(* What is renewed is held as it was, but for longer. *)
LEMMA RenewIs ==
  ASSUME NEW d \in Dbs, NEW k \in Keys, NEW time \in 0..MaxTime
  PROVE  /\ R!Renew(d, k, time) \in Dbs /\ R!Renew(d, k, time).index = d.index
         /\ DOMAIN R!Renew(d, k, time).held = DOMAIN d.held
         /\ \A j \in DOMAIN d.held :
              R!Renew(d, k, time).held[j] = IF j = k /\ R!Alive(d, k, time) THEN [entry |-> d.held[j].entry, until |-> time + Ttl]
                                            ELSE d.held[j]
<1>1. CASE R!Alive(d, k, time)
  <2>. DEFINE h == [d.held EXCEPT ![k] = [@ EXCEPT !.until = time + Ttl]]
  <2>1. /\ DOMAIN d.held \subseteq Keys /\ d.held = [j \in DOMAIN d.held |-> d.held[j]]
        /\ \A j \in DOMAIN d.held : d.held[j] \in Holdings
    BY MapsAre DEF Dbs
  <2>2. k \in DOMAIN d.held /\ time + Ttl \in Times
    BY <1>1, TimesAre DEF R!Alive
  <2>3. DOMAIN h = DOMAIN d.held /\ h = [j \in DOMAIN h |-> h[j]] /\ \A j \in DOMAIN d.held \ {k} : h[j] = d.held[j]
    BY <2>1
  <2>4. h[k] = [entry |-> d.held[k].entry, until |-> time + Ttl]
    BY <2>1, <2>2 DEF Holdings
  <2>5. R!Renew(d, k, time) = [d EXCEPT !.held = h]
    BY <1>1 DEF R!Renew, Dbs
  <2>. HIDE DEF h
  <2>6. h \in Maps(Holdings)
    <3>1. h[k] \in Holdings
      BY <2>1, <2>2, <2>4 DEF Holdings
    <3>2. \A j \in DOMAIN h : h[j] \in Holdings
      BY <2>1, <2>3, <3>1
    <3>. QED
      BY <2>1, <2>3, <3>2, MapsAre
  <2>7. R!Renew(d, k, time) \in Dbs /\ R!Renew(d, k, time).index = d.index /\ R!Renew(d, k, time).held = h
    <3>1. /\ [d EXCEPT !.held = h] \in Dbs /\ [d EXCEPT !.held = h].held = h
          /\ [d EXCEPT !.held = h].index = d.index
      BY <2>6, HeldNext, Zenon
    <3>. QED
      BY <2>5, <3>1, Zenon
  <2>8. \A j \in DOMAIN d.held : h[j] = IF j = k /\ R!Alive(d, k, time) THEN [entry |-> d.held[j].entry, until |-> time + Ttl]
                                        ELSE d.held[j]
    BY <1>1, <2>3, <2>4
  <2>. QED
    BY <2>3, <2>7, <2>8
<1>2. CASE ~R!Alive(d, k, time)
  BY <1>2 DEF R!Renew
<1>. QED
  BY <1>1, <1>2

(* A command that drops takes one key out of one of the three. *)
Taken(c, cmd) == IF c.cmd = cmd THEN {c.key} ELSE {}

LEMMA DropIs ==
  ASSUME NEW d \in Dbs, NEW c \in Droppings, NEW time
  PROVE  /\ R!Applied(d, c, time) \in Dbs
         /\ DOMAIN R!Applied(d, c, time).held = DOMAIN d.held \ Taken(c, "DEL")
         /\ \A k \in DOMAIN R!Applied(d, c, time).held : R!Applied(d, c, time).held[k] = d.held[k]
         /\ DOMAIN R!Applied(d, c, time).index = DOMAIN d.index \ Taken(c, "ZREM")
<1>1. d.held \in Maps(Holdings) /\ d.index \in Maps(Stamps) /\ d.sizes \in Maps(Weights)
      /\ d.indexUntil \in Times /\ d.sizesUntil \in Times /\ Never \in Times
  BY BoundsAssumption, TtlAssumption DEF Dbs, Times, Never
<1>2. c.cmd \in {"DEL", "ZREM", "HDEL"}
  BY DEF Droppings
<1>3. CASE c.cmd = "DEL"
  <2>1. R!Applied(d, c, time) = [d EXCEPT !.held = R!Unbound(d.held, c.key)]
    BY <1>3 DEF R!Applied, R!Del, Dbs
  <2>2. /\ R!Unbound(d.held, c.key) \in Maps(Holdings)
        /\ DOMAIN R!Unbound(d.held, c.key) = DOMAIN d.held \ {c.key}
        /\ \A k \in DOMAIN d.held \ {c.key} : R!Unbound(d.held, c.key)[k] = d.held[k]
    <3>1. R!Unbound(d.held, c.key) \in Maps(Holdings)
      BY <1>1, UnboundOk, Zenon
    <3>. QED
      BY <3>1 DEF R!Unbound
  <2>3. /\ R!Applied(d, c, time) \in Dbs /\ R!Applied(d, c, time).held = R!Unbound(d.held, c.key)
        /\ R!Applied(d, c, time).index = d.index
    <3>1. /\ [d EXCEPT !.held = R!Unbound(d.held, c.key)] \in Dbs
          /\ [d EXCEPT !.held = R!Unbound(d.held, c.key)].held = R!Unbound(d.held, c.key)
          /\ [d EXCEPT !.held = R!Unbound(d.held, c.key)].index = d.index
      BY <2>2, HeldNext, Zenon
    <3>. QED
      BY <2>1, <3>1, Zenon
  <2>4. Taken(c, "DEL") = {c.key} /\ Taken(c, "ZREM") = {}
    BY <1>3 DEF Taken
  <2>. QED
    BY <2>2, <2>3, <2>4
<1>4. CASE c.cmd = "ZREM"
  <2>. DEFINE until == IF DOMAIN d.index \subseteq {c.key} THEN Never ELSE d.indexUntil
  <2>1. R!Applied(d, c, time) = [d EXCEPT !.index = R!Unbound(d.index, c.key), !.indexUntil = until]
    BY <1>4 DEF R!Applied, R!ZRem, Dbs
  <2>2. R!Unbound(d.index, c.key) \in Maps(Stamps) /\ DOMAIN R!Unbound(d.index, c.key) = DOMAIN d.index \ {c.key}
    <3>1. R!Unbound(d.index, c.key) \in Maps(Stamps)
      BY <1>1, UnboundOk, Zenon
    <3>. QED
      BY <3>1 DEF R!Unbound
  <2>3. until \in Times
    BY <1>1
  <2>. HIDE DEF until
  <2>4. /\ R!Applied(d, c, time) \in Dbs /\ R!Applied(d, c, time).held = d.held
        /\ R!Applied(d, c, time).index = R!Unbound(d.index, c.key)
    <3>. DEFINE next == [d EXCEPT !.index = R!Unbound(d.index, c.key), !.indexUntil = until]
    <3>1. next \in Dbs
      BY <2>2, <2>3, IndexNext, Zenon
    <3>2. next.held = d.held /\ next.index = R!Unbound(d.index, c.key)
      BY DEF Dbs
    <3>. QED
      BY <2>1, <3>1, <3>2, Zenon
  <2>5. Taken(c, "DEL") = {} /\ Taken(c, "ZREM") = {c.key}
    BY <1>4 DEF Taken
  <2>. QED
    BY <2>2, <2>4, <2>5
<1>5. CASE c.cmd = "HDEL"
  <2>. DEFINE until == IF DOMAIN d.sizes \subseteq {c.key} THEN Never ELSE d.sizesUntil
  <2>1. R!Applied(d, c, time) = [d EXCEPT !.sizes = R!Unbound(d.sizes, c.key), !.sizesUntil = until]
    BY <1>5 DEF R!Applied, R!HDel, Dbs
  <2>2. R!Unbound(d.sizes, c.key) \in Maps(Weights)
    BY <1>1, UnboundOk, Zenon
  <2>3. until \in Times
    BY <1>1
  <2>. HIDE DEF until
  <2>4. R!Applied(d, c, time) \in Dbs /\ R!Applied(d, c, time).held = d.held /\ R!Applied(d, c, time).index = d.index
    <3>. DEFINE next == [d EXCEPT !.sizes = R!Unbound(d.sizes, c.key), !.sizesUntil = until]
    <3>1. next \in Dbs /\ next.held = d.held /\ next.index = d.index
      BY <2>2, <2>3, SizesNext, ZenonT(60)
    <3>. QED
      BY <2>1, <3>1, Zenon
  <2>5. Taken(c, "DEL") = {} /\ Taken(c, "ZREM") = {}
    BY <1>5 DEF Taken
  <2>. QED
    BY <2>4, <2>5
<1>. QED
  BY <1>2, <1>3, <1>4, <1>5

(* Whatever redis is asked, it goes on holding what it may. *)
LEMMA AppliedOk ==
  ASSUME NEW d \in Dbs, NEW c \in Commands, NEW time \in 0..MaxTime
  PROVE  R!Applied(d, c, time) \in Dbs
<1>1. d.held \in Maps(Holdings) /\ d.index \in Maps(Stamps) /\ d.sizes \in Maps(Weights)
      /\ d.indexUntil \in Times /\ d.sizesUntil \in Times
      /\ time + Ttl \in Times /\ time + 2 * Ttl \in Times /\ Never \in Times
  BY TimesAre DEF Dbs
<1>2. CASE c \in Droppings
  BY <1>2, DropIs
<1>3. CASE c \in [cmd : {"EXPIRE XX"}, key : Keys, arg : {None}]
  BY <1>3, RenewIs DEF R!Applied
<1>4. CASE c \in [cmd : {"ZADD"}, key : Keys, arg : {None}]
  <2>1. R!Applied(d, c, time) = [d EXCEPT !.index = R!Bound(d.index, c.key, time)] /\ c.key \in Keys
    BY <1>4 DEF R!Applied, R!ZAdd, Dbs
  <2>2. R!Bound(d.index, c.key, time) \in Maps(Stamps)
    BY <1>1, <2>1, BoundOk DEF Stamps
  <2>. QED
    BY <2>1, <2>2 DEF Dbs
<1>5. CASE c \in [cmd : {"EXPIRE index"}, key : Keys, arg : {None}]
  <2>1. R!Applied(d, c, time) = [d EXCEPT !.indexUntil = IF d.index = R!Missing THEN Never ELSE time + 2 * Ttl]
    BY <1>5 DEF R!Applied, R!ExpireIndex, Dbs
  <2>. QED
    BY <1>1, <2>1 DEF Dbs
<1>6. CASE c \in [cmd : {"EXPIRE sizes"}, key : Keys, arg : {None}]
  <2>1. R!Applied(d, c, time) = [d EXCEPT !.sizesUntil = IF d.sizes = R!Missing THEN Never ELSE time + 2 * Ttl]
    BY <1>6 DEF R!Applied, R!ExpireSizes, Dbs
  <2>. QED
    BY <1>1, <2>1 DEF Dbs
<1>7. CASE c \in [cmd : {"SET"}, key : Keys, arg : Entries]
  <2>1. R!Applied(d, c, time) = [d EXCEPT !.held = R!Bound(d.held, c.key, [entry |-> c.arg, until |-> time + Ttl])]
        /\ c.key \in Keys /\ [entry |-> c.arg, until |-> time + Ttl] \in Holdings
    BY <1>1, <1>7 DEF Holdings, R!Applied, R!Set, Dbs
  <2>2. R!Bound(d.held, c.key, [entry |-> c.arg, until |-> time + Ttl]) \in Maps(Holdings)
    BY <1>1, <2>1, BoundOk
  <2>. QED
    BY <2>1, <2>2, HeldNext
<1>8. CASE c \in [cmd : {"HSET"}, key : Keys, arg : Weights]
  <2>1. R!Applied(d, c, time) = [d EXCEPT !.sizes = R!Bound(d.sizes, c.key, c.arg)] /\ c.key \in Keys /\ c.arg \in Weights
    BY <1>8 DEF R!Applied, R!HSet, Dbs
  <2>2. R!Bound(d.sizes, c.key, c.arg) \in Maps(Weights)
    BY <1>1, <2>1, BoundOk
  <2>. QED
    BY <2>1, <2>2 DEF Dbs
<1>. QED
  <2>1. \/ c \in Droppings \/ c \in [cmd : {"SET"}, key : Keys, arg : Entries] \/ c \in [cmd : {"HSET"}, key : Keys, arg : Weights]
        \/ c \in [cmd : {"EXPIRE XX", "ZADD", "EXPIRE index", "EXPIRE sizes"}, key : Keys, arg : {None}]
    BY DEF Commands
  <2>2. ASSUME c \in [cmd : {"EXPIRE XX", "ZADD", "EXPIRE index", "EXPIRE sizes"}, key : Keys, arg : {None}]
        PROVE  \/ c \in [cmd : {"EXPIRE XX"}, key : Keys, arg : {None}] \/ c \in [cmd : {"ZADD"}, key : Keys, arg : {None}]
               \/ c \in [cmd : {"EXPIRE index"}, key : Keys, arg : {None}]
               \/ c \in [cmd : {"EXPIRE sizes"}, key : Keys, arg : {None}]
    BY <2>2
  <2>. QED
    BY <1>2, <1>3, <1>4, <1>5, <1>6, <1>7, <1>8, <2>1, <2>2
-----------------------------------------------------------------------------
(* The commands of a request, and of a loop. *)
LEMMA AllAppliedIs ==
  ASSUME NEW d \in Dbs, NEW cs \in Seq(Commands), NEW time \in Stamps
  PROVE  \E after \in [0..Len(cs) -> Dbs] :
           /\ after[0] = d /\ R!AllApplied(d, cs, time) = after[Len(cs)]
           /\ \A n \in 1..Len(cs) : after[n] = R!Applied(after[n - 1], cs[n], time)
<1>. DEFINE N == Len(cs)
            step == [n \in Nat |-> [e \in Dbs |-> IF n \in 1..N THEN R!Applied(e, cs[n], time) ELSE e]]
            Is(f) == f = [n \in 0..N |-> IF n = 0 THEN d ELSE R!Applied(f[n - 1], cs[n], time)]
<1>1. N \in Nat /\ \A n \in 1..N : cs[n] \in Commands
  OBVIOUS
<1>2. step \in [Nat -> [Dbs -> Dbs]]
  <2>1. \A n \in Nat, e \in Dbs : (IF n \in 1..N THEN R!Applied(e, cs[n], time) ELSE e) \in Dbs
    BY <1>1, AppliedOk DEF Stamps
  <2>. QED
    BY <2>1
<1>3. \A n \in 1..N : \A e \in Dbs : step[n][e] = R!Applied(e, cs[n], time)
  BY <1>1
<1>. HIDE DEF step, N
<1>4. PICK f \in [0..N -> Dbs] : Iterates(f, d, step, N)
  BY <1>1, <1>2, Recursion
<1>5. f[0] = d /\ \A n \in 1..N : f[n] = R!Applied(f[n - 1], cs[n], time)
  <2>1. \A n \in 1..N : n - 1 \in 0..N /\ f[n - 1] \in Dbs
    BY <1>1
  <2>. QED
    BY <1>3, <1>4, <2>1 DEF Iterates
<1>6. \E g : Is(g)
  <2>1. \A n \in 0..N : f[n] = IF n = 0 THEN d ELSE R!Applied(f[n - 1], cs[n], time)
    BY <1>1, <1>5
  <2>2. f = [n \in 0..N |-> f[n]]
    OBVIOUS
  <2>3. Is(f)
    BY <2>1, <2>2
  <2>. QED
    BY <2>3
<1>7. PICK g : Is(g) /\ R!AllApplied(d, cs, time) = g[N]
  <2>1. R!AllApplied(d, cs, time) = (CHOOSE g : Is(g))[N]
    BY DEF R!AllApplied, N
  <2>. HIDE DEF Is
  <2>. QED
    BY <1>6, <2>1
<1>8. \A n \in 0..N : g[n] = f[n]
  <2>. DEFINE Same == {n \in Nat : n \in 0..N => g[n] = f[n]}
  <2>1. \A n \in 0..N : g[n] = IF n = 0 THEN d ELSE R!Applied(g[n - 1], cs[n], time)
    BY <1>7
  <2>2. 0 \in Same
    BY <1>1, <1>5, <2>1
  <2>3. ASSUME NEW n \in Same PROVE n + 1 \in Same
    <3>1. CASE n + 1 \in 0..N
      <4>1. n \in 0..N /\ n + 1 \in 1..N /\ n + 1 # 0 /\ (n + 1) - 1 = n
        BY <1>1, <3>1
      <4>2. g[n + 1] = R!Applied(g[n], cs[n + 1], time) /\ f[n + 1] = R!Applied(f[n], cs[n + 1], time) /\ g[n] = f[n]
        BY <4>1, <1>5, <2>1, <2>3
      <4>. QED
        BY <4>2
    <3>. QED
      BY <3>1
  <2>4. Same \in SUBSET Nat
    OBVIOUS
  <2>5. Same = Nat
    <3>. HIDE DEF Same
    <3>. QED
      BY <2>2, <2>3, <2>4, NatSetInduction
  <2>. QED
    BY <1>1, <2>5
<1>9. R!AllApplied(d, cs, time) = f[N]
  BY <1>1, <1>7, <1>8
<1>. QED
  BY <1>5, <1>9 DEF N

LEMMA AllAppliedOk ==
  ASSUME NEW d \in Dbs, NEW cs \in Seq(Commands), NEW time \in Stamps
  PROVE  R!AllApplied(d, cs, time) \in Dbs
BY AllAppliedIs

LEMMA FlattenIs ==
  ASSUME NEW S, NEW seqs \in Seq(Seq(S))
  PROVE  \E f \in [0..Len(seqs) -> Seq(S)] :
           /\ f[0] = <<>> /\ FlattenSeq(seqs) = f[Len(seqs)]
           /\ \A n \in 1..Len(seqs) : f[n] = f[n - 1] \o seqs[n]
<1>. DEFINE N == Len(seqs)
            step == [n \in Nat |-> [s \in Seq(S) |-> IF n \in 1..N THEN s \o seqs[n] ELSE s]]
            Is(f) == f = [i \in 1..N |-> IF i = 1 THEN seqs[i] ELSE f[i - 1] \o seqs[i]]
<1>1. N \in Nat /\ \A n \in 1..N : seqs[n] \in Seq(S)
  OBVIOUS
<1>2. step \in [Nat -> [Seq(S) -> Seq(S)]]
  <2>1. \A n \in Nat, s \in Seq(S) : (IF n \in 1..N THEN s \o seqs[n] ELSE s) \in Seq(S)
    BY <1>1
  <2>. QED
    BY <2>1
<1>3. ASSUME NEW n \in 1..N, NEW s \in Seq(S) PROVE step[n][s] = s \o seqs[n]
  <2>1. n \in Nat /\ step[n] = [r \in Seq(S) |-> IF n \in 1..N THEN r \o seqs[n] ELSE r]
    BY <1>1
  <2>. HIDE DEF step
  <2>. QED
    BY <2>1
<1>. HIDE DEF step, N
<1>4. PICK f \in [0..N -> Seq(S)] : Iterates(f, <<>>, step, N)
  <2>1. <<>> \in Seq(S)
    OBVIOUS
  <2>. QED
    BY <1>1, <1>2, <2>1, Recursion
<1>5. f[0] = <<>> /\ \A n \in 1..N : f[n] = f[n - 1] \o seqs[n]
  <2>1. \A n \in 1..N : n - 1 \in 0..N /\ f[n - 1] \in Seq(S)
    BY <1>1
  <2>. QED
    BY <1>3, <1>4, <2>1 DEF Iterates
<1>6. CASE N = 0
  BY <1>5, <1>6 DEF FlattenSeq, N
<1>7. CASE N # 0
  <2>1. \A n \in 1..N : f[n] = IF n = 1 THEN seqs[n] ELSE f[n - 1] \o seqs[n]
    <3>1. 1 \in 1..N /\ seqs[1] \in Seq(S) /\ f[1] = f[0] \o seqs[1]
      <4>1. 1 \in 1..N /\ 1 - 1 = 0
        BY <1>1, <1>7
      <4>. QED
        BY <1>1, <1>5, <4>1
    <3>2. <<>> \o seqs[1] = seqs[1]
      BY <3>1, ConcatEmptySeq, Zenon
    <3>. QED
      BY <1>5, <3>1, <3>2
  <2>2. \E g : Is(g)
    <3>. DEFINE g == [n \in 1..N |-> f[n]]
    <3>1. \A n \in 1..N : n # 1 => n - 1 \in 1..N
      BY <1>1
    <3>2. \A n \in 1..N : g[n] = IF n = 1 THEN seqs[n] ELSE g[n - 1] \o seqs[n]
      BY <2>1, <3>1
    <3>3. g = [n \in 1..N |-> g[n]]
      OBVIOUS
    <3>. HIDE DEF g
    <3>4. Is(g)
      BY <3>2, <3>3
    <3>. QED
      BY <3>4
  <2>3. PICK g : Is(g) /\ FlattenSeq(seqs) = g[N]
    <3>1. FlattenSeq(seqs) = (CHOOSE g : Is(g))[N]
      BY <1>7 DEF FlattenSeq, N
    <3>. HIDE DEF Is
    <3>. QED
      BY <2>2, <3>1
  <2>. DEFINE Same == {n \in Nat : n + 1 \in 1..N => g[n + 1] = f[n + 1]}
  <2>4. \A n \in 1..N : g[n] = IF n = 1 THEN seqs[n] ELSE g[n - 1] \o seqs[n]
    BY <2>3
  <2>5. 0 \in Same
    BY <2>1, <2>4
  <2>6. ASSUME NEW n \in Same PROVE n + 1 \in Same
    <3>1. CASE (n + 1) + 1 \in 1..N
      <4>1. n + 1 \in 1..N /\ (n + 1) + 1 # 1 /\ ((n + 1) + 1) - 1 = n + 1
        BY <1>1, <3>1
      <4>2. g[(n + 1) + 1] = g[n + 1] \o seqs[(n + 1) + 1] /\ f[(n + 1) + 1] = f[n + 1] \o seqs[(n + 1) + 1] /\ g[n + 1] = f[n + 1]
        BY <3>1, <4>1, <2>1, <2>4, <2>6
      <4>3. g[(n + 1) + 1] = f[(n + 1) + 1] /\ n + 1 \in Nat
        BY <4>2
      <4>. QED
        BY <4>3
    <3>. QED
      BY <3>1
  <2>7. Same = Nat
    <3>1. Same \in SUBSET Nat
      OBVIOUS
    <3>. HIDE DEF Same
    <3>. QED
      BY <2>5, <2>6, <3>1, NatSetInduction
  <2>8. N - 1 \in Nat /\ (N - 1) + 1 = N /\ N \in 1..N
    BY <1>1, <1>7
  <2>9. g[N] = f[N]
    <3>1. N - 1 \in Same
      BY <2>7, <2>8
    <3>. QED
      BY <2>8, <3>1
  <2>. QED
    BY <1>5, <2>3, <2>9 DEF N
<1>. QED
  BY <1>6, <1>7
-----------------------------------------------------------------------------
(* What the commands that drop drop, all in all. *)
Told(cs, cmd) == UNION {Taken(cs[i], cmd) : i \in DOMAIN cs}

LEMMA ToldConcat ==
  ASSUME NEW a \in Seq(Droppings), NEW b \in Seq(Droppings), NEW cmd
  PROVE  Told(a \o b, cmd) = Told(a, cmd) \cup Told(b, cmd)
<1>1. /\ Len(a) \in Nat /\ Len(b) \in Nat /\ DOMAIN a = 1..Len(a) /\ DOMAIN b = 1..Len(b)
      /\ DOMAIN (a \o b) = 1..Len(a) + Len(b)
      /\ \A i \in 1..Len(a) : (a \o b)[i] = a[i]
      /\ \A i \in 1..Len(b) : (a \o b)[Len(a) + i] = b[i]
  OBVIOUS
<1>2. ASSUME NEW k \in Told(a \o b, cmd) PROVE k \in Told(a, cmd) \cup Told(b, cmd)
  <2>1. PICK i \in 1..Len(a) + Len(b) : k \in Taken((a \o b)[i], cmd)
    BY <1>1, <1>2 DEF Told
  <2>2. CASE i <= Len(a)
    <3>1. i \in 1..Len(a)
      BY <1>1, <2>2
    <3>. QED
      BY <1>1, <2>1, <3>1 DEF Told
  <2>3. CASE i > Len(a)
    <3>1. i - Len(a) \in 1..Len(b) /\ Len(a) + (i - Len(a)) = i
      BY <1>1, <2>3
    <3>2. k \in Taken(b[i - Len(a)], cmd)
      BY <1>1, <2>1, <3>1
    <3>. QED
      BY <1>1, <3>1, <3>2 DEF Told
  <2>. QED
    BY <1>1, <2>2, <2>3
<1>3. ASSUME NEW k \in Told(a, cmd) PROVE k \in Told(a \o b, cmd)
  <2>1. PICK i \in 1..Len(a) : k \in Taken(a[i], cmd)
    BY <1>1, <1>3 DEF Told
  <2>2. i \in 1..Len(a) + Len(b)
    BY <1>1
  <2>. QED
    BY <1>1, <2>1, <2>2 DEF Told
<1>4. ASSUME NEW k \in Told(b, cmd) PROVE k \in Told(a \o b, cmd)
  <2>1. PICK i \in 1..Len(b) : k \in Taken(b[i], cmd)
    BY <1>1, <1>4 DEF Told
  <2>2. Len(a) + i \in 1..Len(a) + Len(b)
    BY <1>1
  <2>3. k \in Taken((a \o b)[Len(a) + i], cmd)
    BY <1>1, <2>1
  <2>. QED
    BY <1>1, <2>2, <2>3 DEF Told
<1>. QED
  BY <1>2, <1>3, <1>4

LEMMA ToldFlatten ==
  ASSUME NEW seqs \in Seq(Seq(Droppings)), NEW cmd
  PROVE  /\ FlattenSeq(seqs) \in Seq(Droppings)
         /\ Told(FlattenSeq(seqs), cmd) = UNION {Told(seqs[i], cmd) : i \in 1..Len(seqs)}
<1>. DEFINE N == Len(seqs)
            Sofar(n) == UNION {Told(seqs[i], cmd) : i \in 1..n}
<1>1. N \in Nat /\ \A i \in 1..N : seqs[i] \in Seq(Droppings)
  OBVIOUS
<1>2. PICK f \in [0..N -> Seq(Droppings)] :
        /\ f[0] = <<>> /\ FlattenSeq(seqs) = f[N]
        /\ \A n \in 1..N : f[n] = f[n - 1] \o seqs[n]
  BY FlattenIs
<1>. HIDE DEF N
<1>. DEFINE T == {n \in Nat : n \in 0..N => Told(f[n], cmd) = Sofar(n)}
<1>3. 0 \in T
  BY <1>2 DEF Told
<1>4. ASSUME NEW n \in T PROVE n + 1 \in T
  <2>1. CASE n + 1 \in 0..N
    <3>1. n \in 0..N /\ n + 1 \in 1..N /\ (n + 1) - 1 = n
      BY <1>1, <2>1
    <3>2. f[n + 1] = f[n] \o seqs[n + 1] /\ f[n] \in Seq(Droppings) /\ seqs[n + 1] \in Seq(Droppings)
      BY <1>1, <1>2, <3>1
    <3>3. Told(f[n + 1], cmd) = Told(f[n], cmd) \cup Told(seqs[n + 1], cmd)
      BY <3>2, ToldConcat
    <3>4. Told(f[n], cmd) = Sofar(n)
      BY <1>4, <3>1
    <3>5. 1..n + 1 = (1..n) \cup {n + 1}
      BY <3>1
    <3>6. Sofar(n + 1) = Sofar(n) \cup Told(seqs[n + 1], cmd)
      BY <3>5, SMTT(30)
    <3>7. n + 1 \in Nat /\ Told(f[n + 1], cmd) = Sofar(n + 1)
      BY <3>1, <3>3, <3>4, <3>6, SMTT(30)
    <3>. HIDE DEF Sofar
    <3>. QED
      BY <3>7
  <2>. QED
    BY <2>1
<1>5. T = Nat
  <2>1. T \in SUBSET Nat
    OBVIOUS
  <2>. HIDE DEF T
  <2>. QED
    BY <1>3, <1>4, <2>1, NatSetInduction
<1>6. Told(f[N], cmd) = Sofar(N) /\ f[N] \in Seq(Droppings)
  <2>1. N \in 0..N
    BY <1>1
  <2>. HIDE DEF Sofar
  <2>2. Told(f[N], cmd) = Sofar(N)
    <3>. HIDE DEF T
    <3>1. N \in T
      BY <1>1, <1>5
    <3>. QED
      BY <2>1, <3>1 DEF T
  <2>. QED
    BY <1>2, <2>1, <2>2
<1>. QED
  BY <1>2, <1>6 DEF N

LEMMA DropsIs ==
  ASSUME NEW d \in Dbs, NEW cs \in Seq(Droppings), NEW time \in Stamps
  PROVE  /\ R!AllApplied(d, cs, time) \in Dbs
         /\ DOMAIN R!AllApplied(d, cs, time).held = DOMAIN d.held \ Told(cs, "DEL")
         /\ \A k \in DOMAIN R!AllApplied(d, cs, time).held : R!AllApplied(d, cs, time).held[k] = d.held[k]
         /\ DOMAIN R!AllApplied(d, cs, time).index = DOMAIN d.index \ Told(cs, "ZREM")
<1>. DEFINE N == Len(cs)
            Sofar(n, cmd) == UNION {Taken(cs[i], cmd) : i \in 1..n}
<1>1. N \in Nat /\ DOMAIN cs = 1..N /\ cs \in Seq(Commands) /\ \A i \in 1..N : cs[i] \in Droppings
  <2>1. \A c \in Droppings : c \in Commands
    BY DEF Commands
  <2>. HIDE DEF Droppings, Commands
  <2>2. N \in Nat /\ cs \in [1..N -> Droppings]
    OBVIOUS
  <2>. QED
    BY <2>1, <2>2
<1>2. PICK after \in [0..N -> Dbs] :
        /\ after[0] = d /\ R!AllApplied(d, cs, time) = after[N]
        /\ \A n \in 1..N : after[n] = R!Applied(after[n - 1], cs[n], time)
  BY <1>1, AllAppliedIs
<1>. HIDE DEF N
<1>. DEFINE Ok(n) == /\ DOMAIN after[n].held = DOMAIN d.held \ Sofar(n, "DEL")
                     /\ \A k \in DOMAIN after[n].held : after[n].held[k] = d.held[k]
                     /\ DOMAIN after[n].index = DOMAIN d.index \ Sofar(n, "ZREM")
            T == {n \in Nat : n \in 0..N => Ok(n)}
<1>3. 0 \in T
  BY <1>2
<1>4. ASSUME NEW n \in T PROVE n + 1 \in T
  <2>1. CASE n + 1 \in 0..N
    <3>1. n \in 0..N /\ n + 1 \in 1..N /\ (n + 1) - 1 = n
      BY <1>1, <2>1
    <3>2. PICK e \in Dbs : e = after[n]
      BY <3>1
    <3>3. PICK c \in Droppings : c = cs[n + 1]
      BY <1>1, <3>1
    <3>4. PICK b : b = R!Applied(e, c, time)
      OBVIOUS
    <3>5. after[n + 1] = b
      BY <1>2, <3>1, <3>2, <3>3, <3>4
    <3>6. /\ DOMAIN b.held = DOMAIN e.held \ Taken(c, "DEL")
          /\ \A k \in DOMAIN b.held : b.held[k] = e.held[k]
          /\ DOMAIN b.index = DOMAIN e.index \ Taken(c, "ZREM")
      BY <3>4, DropIs
    <3>7. /\ DOMAIN e.held = DOMAIN d.held \ Sofar(n, "DEL")
          /\ \A k \in DOMAIN e.held : e.held[k] = d.held[k]
          /\ DOMAIN e.index = DOMAIN d.index \ Sofar(n, "ZREM")
      BY <1>4, <3>1, <3>2
    <3>8. \A cmd : Sofar(n + 1, cmd) = Sofar(n, cmd) \cup Taken(c, cmd)
      <4>1. 1..n + 1 = (1..n) \cup {n + 1}
        BY <3>1
      <4>. QED
        BY <3>3, <4>1
    <3>. HIDE DEF Sofar
    <3>9. Ok(n + 1)
      BY <3>5, <3>6, <3>7, <3>8
    <3>. HIDE DEF Ok
    <3>. QED
      BY <3>9
  <2>. QED
    BY <2>1
<1>5. T = Nat
  <2>1. T \in SUBSET Nat
    OBVIOUS
  <2>. HIDE DEF T
  <2>. QED
    BY <1>3, <1>4, <2>1, NatSetInduction
<1>6. Ok(N) /\ after[N] \in Dbs
  <2>1. N \in T /\ N \in 0..N
    BY <1>1, <1>5
  <2>. HIDE DEF Ok
  <2>. QED
    BY <2>1
<1>7. Sofar(N, "DEL") = Told(cs, "DEL") /\ Sofar(N, "ZREM") = Told(cs, "ZREM")
  BY <1>1 DEF Told
<1>. HIDE DEF Sofar
<1>. QED
  BY <1>2, <1>6, <1>7

(* The request of a trim. *)
First(keys, n) == {keys[i] : i \in 1..n}

LEMMA OneKey ==
  ASSUME NEW k \in Keys
  PROVE  /\ Forgetting(k) \in Seq(Droppings) /\ Told(Forgetting(k), "DEL") = {} /\ Told(Forgetting(k), "ZREM") = {k}
         /\ Evicting(k) \in Seq(Droppings) /\ Told(Evicting(k), "DEL") = {k} /\ Told(Evicting(k), "ZREM") = {k}
         /\ <<>> \in Seq(Droppings) /\ Told(<<>>, "DEL") = {} /\ Told(<<>>, "ZREM") = {}
<1>. DEFINE c(cmd) == [cmd |-> cmd, key |-> k, arg |-> None]
<1>1. c("DEL") \in Droppings /\ c("ZREM") \in Droppings /\ c("HDEL") \in Droppings
  BY DEF Droppings
<1>2. /\ Taken(c("DEL"), "DEL") = {k} /\ Taken(c("ZREM"), "DEL") = {} /\ Taken(c("HDEL"), "DEL") = {}
      /\ Taken(c("DEL"), "ZREM") = {} /\ Taken(c("ZREM"), "ZREM") = {k} /\ Taken(c("HDEL"), "ZREM") = {}
  BY DEF Taken
<1>3. Forgetting(k) = <<c("ZREM"), c("HDEL")>> /\ Evicting(k) = <<c("DEL")>> \o Forgetting(k)
  BY DEF Forgetting, Evicting
<1>. HIDE DEF c
<1>4. /\ Forgetting(k) \in Seq(Droppings) /\ <<c("DEL")>> \in Seq(Droppings) /\ <<>> \in Seq(Droppings)
  BY <1>1, <1>3
<1>5. \A cmd : /\ Told(Forgetting(k), cmd) = Taken(c("ZREM"), cmd) \cup Taken(c("HDEL"), cmd)
               /\ Told(<<c("DEL")>>, cmd) = Taken(c("DEL"), cmd) /\ Told(<<>>, cmd) = {}
  BY <1>3 DEF Told
<1>6. Evicting(k) \in Seq(Droppings) /\ \A cmd : Told(Evicting(k), cmd) = Told(<<c("DEL")>>, cmd) \cup Told(Forgetting(k), cmd)
  <2>1. PICK a \in Seq(Droppings), b \in Seq(Droppings) : a = <<c("DEL")>> /\ b = Forgetting(k)
    BY <1>4
  <2>2. Evicting(k) = a \o b /\ a \o b \in Seq(Droppings)
    BY <1>3, <2>1
  <2>3. \A cmd : Told(a \o b, cmd) = Told(a, cmd) \cup Told(b, cmd)
    BY ToldConcat
  <2>. QED
    BY <2>1, <2>2, <2>3
<1>. QED
  BY <1>2, <1>4, <1>5, <1>6, SMTT(30)

LEMMA RequestIs ==
  ASSUME NEW keys \in Seq(Keys), NEW alive, NEW n \in 0..Len(keys)
  PROVE  /\ Request(keys, alive, n) \in Seq(Droppings)
         /\ Told(Request(keys, alive, n), "DEL") = alive \cap First(keys, n)
         /\ Told(Request(keys, alive, n), "ZREM") = (First(keys, Len(keys)) \ alive) \cup (alive \cap First(keys, n))
<1>. DEFINE dead == [i \in DOMAIN keys |-> IF keys[i] \in alive THEN <<>> ELSE Forgetting(keys[i])]
            old == [i \in 1..n |-> IF keys[i] \in alive THEN Evicting(keys[i]) ELSE <<>>]
<1>1. Len(keys) \in Nat /\ DOMAIN keys = 1..Len(keys) /\ n \in Nat /\ \A i \in 1..Len(keys) : keys[i] \in Keys
  OBVIOUS
<1>2. \A i \in 1..n : i \in 1..Len(keys)
  BY <1>1
<1>3. \A i \in 1..Len(keys) : /\ dead[i] = IF keys[i] \in alive THEN <<>> ELSE Forgetting(keys[i])
                              /\ dead[i] \in Seq(Droppings)
  BY <1>1, OneKey
<1>4. \A i \in 1..n : /\ old[i] = IF keys[i] \in alive THEN Evicting(keys[i]) ELSE <<>>
                      /\ old[i] \in Seq(Droppings)
  BY <1>1, <1>2, OneKey
<1>5. Len(dead) = Len(keys) /\ Len(old) = n /\ dead \in Seq(Seq(Droppings)) /\ old \in Seq(Seq(Droppings))
  <2>1. dead = [i \in 1..Len(keys) |-> dead[i]] /\ old = [i \in 1..n |-> old[i]]
    BY <1>1
  <2>. DEFINE Members == Seq(Droppings)
  <2>2. (\A i \in 1..Len(keys) : dead[i] \in Members) /\ (\A i \in 1..n : old[i] \in Members)
    BY <1>3, <1>4
  <2>. HIDE DEF dead, old, Members
  <2>3. dead \in [1..Len(keys) -> Members] /\ old \in [1..n -> Members]
    BY <2>1, <2>2
  <2>4. Len(dead) = Len(keys) /\ Len(old) = n /\ dead \in Seq(Members) /\ old \in Seq(Members)
    BY <1>1, <2>3, SMTT(30)
  <2>. QED
    BY <2>4 DEF Members
<1>6. Request(keys, alive, n) = FlattenSeq(dead) \o FlattenSeq(old)
  BY DEF Request
<1>. HIDE DEF dead, old
<1>7. \A cmd : /\ FlattenSeq(dead) \in Seq(Droppings) /\ FlattenSeq(old) \in Seq(Droppings)
               /\ Told(FlattenSeq(dead), cmd) = UNION {Told(dead[i], cmd) : i \in 1..Len(keys)}
               /\ Told(FlattenSeq(old), cmd) = UNION {Told(old[i], cmd) : i \in 1..n}
  BY <1>5, ToldFlatten
<1>8. PICK a \in Seq(Droppings), b \in Seq(Droppings) : a = FlattenSeq(dead) /\ b = FlattenSeq(old)
  BY <1>7
<1>. DEFINE Deads(cmd) == UNION {Told(dead[i], cmd) : i \in 1..Len(keys)}
            Olds(cmd) == UNION {Told(old[i], cmd) : i \in 1..n}
<1>11. a \o b \in Seq(Droppings) /\ Request(keys, alive, n) = a \o b
  BY <1>6, <1>8
<1>12. \A cmd : Told(a \o b, cmd) = Told(a, cmd) \cup Told(b, cmd)
  BY <1>8, ToldConcat
<1>13. \A cmd : Told(a, cmd) = Deads(cmd) /\ Told(b, cmd) = Olds(cmd)
  BY <1>7, <1>8
<1>9. \A i \in 1..Len(keys) : Told(dead[i], "DEL") = {} /\ Told(dead[i], "ZREM") = {keys[i]} \ alive
  BY <1>1, <1>3, OneKey, SMTT(30)
<1>10. \A i \in 1..n : Told(old[i], "DEL") = {keys[i]} \cap alive /\ Told(old[i], "ZREM") = {keys[i]} \cap alive
  BY <1>1, <1>2, <1>4, OneKey, SMTT(30)
<1>14. Deads("DEL") = {} /\ Deads("ZREM") = First(keys, Len(keys)) \ alive
  <2>1. \A cmd, k : k \in Deads(cmd) <=> \E i \in 1..Len(keys) : k \in Told(dead[i], cmd)
    OBVIOUS
  <2>. HIDE DEF Deads
  <2>2. \A k : k \notin Deads("DEL")
    BY <1>9, <2>1
  <2>3. \A k : k \in Deads("ZREM") <=> \E i \in 1..Len(keys) : k = keys[i] /\ k \notin alive
    <3>1. \A i \in 1..Len(keys) : \A k : k \in Told(dead[i], "ZREM") <=> k = keys[i] /\ k \notin alive
      BY <1>9
    <3>. QED
      BY <2>1, <3>1
  <2>4. \A k : k \in First(keys, Len(keys)) <=> \E i \in 1..Len(keys) : k = keys[i]
    BY DEF First
  <2>. QED
    BY <2>2, <2>3, <2>4
<1>15. Olds("DEL") = alive \cap First(keys, n) /\ Olds("ZREM") = alive \cap First(keys, n)
  <2>1. \A cmd, k : k \in Olds(cmd) <=> \E i \in 1..n : k \in Told(old[i], cmd)
    OBVIOUS
  <2>. HIDE DEF Olds
  <2>. QED
    BY <1>10, <2>1, SMTT(30) DEF First
<1>. HIDE DEF Deads, Olds
<1>. QED
  BY <1>11, <1>12, <1>13, <1>14, <1>15
-----------------------------------------------------------------------------
(* What some keys weigh, and how many have to go. *)
Part(w, S) == [k \in S |-> w[k]]

LEMMA TotalSplit ==
  ASSUME NEW D, IsFiniteSet(D), NEW w \in [D -> Nat], NEW S \in SUBSET D
  PROVE  Total(w) = Total(Part(w, S)) + Total(Part(w, D \ S))
<1>. DEFINE P == {A \in SUBSET S : Total(w) = Total(Part(w, A)) + Total(Part(w, D \ A))}
<1>1. \A A \in SUBSET D : IsFiniteSet(A) /\ Part(w, A) \in [A -> Nat] /\ Total(Part(w, A)) \in Nat
  <2>1. \A A \in SUBSET D : IsFiniteSet(A) /\ Part(w, A) \in [A -> Nat]
    BY FS_Subset DEF Part
  <2>. QED
    BY <2>1, TotalNat
<1>2. {} \in P
  <2>1. Part(w, D \ {}) = w
    BY DEF Part
  <2>2. Total(Part(w, {})) = 0
    BY <1>1, TotalNothing
  <2>. QED
    BY <1>1, <2>1, <2>2
<1>3. ASSUME NEW A \in P, NEW x \in S \ A PROVE A \cup {x} \in P
  <2>. DEFINE B == A \cup {x}
              C == D \ A
  <2>1. A \in SUBSET S /\ A \in SUBSET D /\ B \in SUBSET S /\ B \in SUBSET D /\ C \in SUBSET D /\ x \in B /\ x \in C
        /\ D \ B \in SUBSET D /\ C \ {x} = D \ B /\ B \ {x} = A /\ w[x] \in Nat
    BY <1>3
  <2>2. Total(Part(w, B)) = w[x] + Total(Part(w, A))
    <3>1. Dropped(Part(w, B), x) = Part(w, A) /\ Part(w, B)[x] = w[x]
      BY <2>1 DEF Dropped, Part
    <3>. HIDE DEF B
    <3>2. PICK v \in [B -> Nat] : v = Part(w, B)
      BY <1>1, <2>1
    <3>3. Total(v) = v[x] + Total(Dropped(v, x))
      <4>1. IsFiniteSet(B) /\ x \in B
        BY <1>1, <2>1
      <4>. QED
        BY <4>1, TotalDropped
    <3>. QED
      BY <3>1, <3>2, <3>3
  <2>3. Total(Part(w, C)) = w[x] + Total(Part(w, D \ B))
    <3>1. Dropped(Part(w, C), x) = Part(w, D \ B) /\ Part(w, C)[x] = w[x]
      BY <2>1 DEF Dropped, Part
    <3>. HIDE DEF B, C
    <3>2. PICK v \in [C -> Nat] : v = Part(w, C)
      BY <1>1, <2>1
    <3>3. Total(v) = v[x] + Total(Dropped(v, x))
      <4>1. IsFiniteSet(C) /\ x \in C
        BY <1>1, <2>1
      <4>. QED
        BY <4>1, TotalDropped
    <3>. QED
      BY <3>1, <3>2, <3>3
  <2>4. Total(w) = Total(Part(w, A)) + Total(Part(w, C))
    BY <1>3
  <2>5. Total(Part(w, A)) \in Nat /\ Total(Part(w, D \ B)) \in Nat
    BY <1>1, <2>1
  <2>. HIDE DEF B, C
  <2>6. B \in P
    BY <2>1, <2>2, <2>3, <2>4, <2>5
  <2>. QED
    BY <2>6 DEF B
<1>4. S \in P
  <2>1. P \in SUBSET SUBSET S /\ IsFiniteSet(S)
    BY FS_Subset
  <2>. HIDE DEF P
  <2>. QED
    BY <1>2, <1>3, <2>1, SetInduction
<1>. QED
  BY <1>4

(* What redis says the keys cost. *)
LEMMA CostsAre ==
  ASSUME NEW S \in SUBSET Keys, \A k \in DOMAIN db.sizes : db.sizes[k] \in Nat
  PROVE  /\ IsFiniteSet(S) /\ [k \in S |-> Cost(k)] \in [S -> Nat] /\ Costs(S) = Total([k \in S |-> Cost(k)])
         /\ Costs(S) \in Nat /\ Costs({}) = 0
         /\ \A T \in SUBSET S : Costs(S) = Costs(T) + Costs(S \ T)
<1>1. /\ \A T \in SUBSET Keys : IsFiniteSet(T) /\ [k \in T |-> Cost(k)] \in [T -> Nat]
      /\ \A T : Costs(T) = Total([k \in T |-> Cost(k)])
  <2>1. \A k \in Keys : Cost(k) \in Nat
    BY DEF Cost
  <2>2. \A T \in SUBSET Keys : IsFiniteSet(T)
    BY KeysAssumption, FS_Subset
  <2>. QED
    BY <2>1, <2>2, SumIs DEF Costs
<1>2. Costs({}) = 0 /\ \A T \in SUBSET Keys : Costs(T) \in Nat
  <2>1. [k \in {} |-> Cost(k)] \in [{} -> Nat]
    BY <1>1
  <2>2. Total([k \in {} |-> Cost(k)]) = 0
    BY <2>1, TotalNothing
  <2>3. ASSUME NEW T \in SUBSET Keys PROVE Costs(T) \in Nat
    <3>1. PICK w \in [T -> Nat] : w = [k \in T |-> Cost(k)]
      BY <1>1
    <3>2. Total(w) \in Nat
      BY <1>1, TotalNat
    <3>. QED
      BY <1>1, <3>1, <3>2
  <2>. QED
    BY <1>1, <2>2, <2>3
<1>3. ASSUME NEW T \in SUBSET S PROVE Costs(S) = Costs(T) + Costs(S \ T)
  <2>1. PICK w \in [S -> Nat] : w = [k \in S |-> Cost(k)]
    BY <1>1
  <2>2. Total(w) = Total(Part(w, T)) + Total(Part(w, S \ T))
    BY <1>1, TotalSplit
  <2>3. Part(w, T) = [k \in T |-> Cost(k)] /\ Part(w, S \ T) = [k \in S \ T |-> Cost(k)]
    BY <2>1 DEF Part
  <2>. QED
    BY <1>1, <2>1, <2>2, <2>3
<1>. QED
  BY <1>1, <1>2, <1>3

LEMMA NatMin ==
  ASSUME NEW T \in SUBSET Nat, T # {}
  PROVE  Min(T) \in T /\ \A n \in T : Min(T) <= n
BY NatLeast DEF Min

(* As few as it takes for the rest to fit. *)
LEMMA SurplusIs ==
  ASSUME NEW keys \in Seq(Keys), NEW alive \in SUBSET First(keys, Len(keys)),
         \A k \in DOMAIN db.sizes : db.sizes[k] \in Nat
  PROVE  /\ Surplus(keys, alive) \in 0..Len(keys)
         /\ Costs(alive \ First(keys, Surplus(keys, alive))) <= MaxUsage
         /\ Surplus(keys, alive) # 0 => Costs(alive) > MaxUsage
<1>. DEFINE left(n) == Costs(alive) - Costs(alive \cap First(keys, n))
            fits == {n \in 0..Len(keys) : left(n) <= MaxUsage}
<1>1. Len(keys) \in Nat /\ MaxUsage \in Nat /\ alive \in SUBSET Keys
  BY BudgetAssumption DEF First
<1>2. Surplus(keys, alive) = Min(fits)
  BY DEF Surplus, First
<1>3. Costs(alive) \in Nat /\ Costs({}) = 0
      /\ \A n : Costs(alive) = Costs(alive \cap First(keys, n)) + Costs(alive \ (alive \cap First(keys, n)))
  BY <1>1, CostsAre
<1>4. \A n : /\ Costs(alive \cap First(keys, n)) \in Nat /\ Costs(alive \ First(keys, n)) \in Nat
             /\ alive \ (alive \cap First(keys, n)) = alive \ First(keys, n)
  BY <1>1, CostsAre
<1>5. ASSUME NEW n PROVE left(n) = Costs(alive \ First(keys, n))
  <2>1. Costs(alive) = Costs(alive \cap First(keys, n)) + Costs(alive \ First(keys, n))
    BY <1>3, <1>4
  <2>2. PICK a \in Nat, b \in Nat, c \in Nat :
          a = Costs(alive) /\ b = Costs(alive \cap First(keys, n)) /\ c = Costs(alive \ First(keys, n))
    BY <1>3, <1>4
  <2>3. left(n) = a - b
    BY <2>2
  <2>. HIDE DEF left
  <2>. QED
    BY <2>1, <2>2, <2>3
<1>6. left(Len(keys)) = 0 /\ left(0) = Costs(alive)
  <2>1. alive \ First(keys, Len(keys)) = {} /\ First(keys, 0) = {} /\ alive \ {} = alive
    BY DEF First
  <2>. QED
    BY <1>3, <1>5, <2>1
<1>. HIDE DEF left
<1>7. fits \in SUBSET Nat /\ fits \in SUBSET (0..Len(keys)) /\ Len(keys) \in fits
  BY <1>1, <1>6
<1>8. PICK n : n = Min(fits) /\ n \in fits /\ \A m \in fits : n <= m
  BY <1>7, NatMin
<1>9. n # 0 => Costs(alive) > MaxUsage
  <2>1. n # 0 => 0 \notin fits
    BY <1>7, <1>8
  <2>2. 0 \in 0..Len(keys)
    BY <1>1
  <2>. QED
    BY <1>1, <1>3, <1>6, <2>1, <2>2
<1>. QED
  BY <1>2, <1>5, <1>8, <1>9
-----------------------------------------------------------------------------
(* What a trim does that nothing comes between. *)
AliveOf(order) == {k \in Range(order) : R!Alive(db, k, now)}

LEMMA ListedIs ==
  ASSUME db \in Dbs, NEW order \in Listed
  PROVE  /\ order \in Seq(Keys) /\ Range(order) = DOMAIN db.index /\ First(order, Len(order)) = DOMAIN db.index
         /\ \A i, j \in 1..Len(order) : i < j => db.index[order[i]] <= db.index[order[j]]
<1>. DEFINE S == DOMAIN db.index
            n == Cardinality(S)
<1>1. S \subseteq Keys /\ IsFiniteSet(S) /\ n \in Nat
  <2>1. S \subseteq Keys
    BY MapsAre DEF Dbs
  <2>. QED
    BY <2>1, KeysAssumption, FS_Subset, FS_CardinalityType
<1>2. /\ order \in [1..n -> S] /\ \A i, j \in 1..n : i # j => order[i] # order[j]
      /\ \A i, j \in DOMAIN order : i < j => db.index[order[i]] <= db.index[order[j]]
  BY DEF Listed, SetToSeqs
<1>. HIDE DEF S, n
<1>3. order \in Seq(Keys) /\ DOMAIN order = 1..n /\ Len(order) = n
  BY <1>1, <1>2
<1>4. order \in Surjection(1..n, S)
  <2>1. order \in Injection(1..n, S)
    BY <1>2 DEF Injection, IsInjective
  <2>2. IsFiniteSet(1..n) /\ Cardinality(1..n) = n
    BY <1>1, FS_Interval
  <2>3. Cardinality(1..n) = Cardinality(S)
    BY <2>2 DEF n
  <2>. QED
    BY <1>1, <2>1, <2>3, FS_Injection
<1>5. \A k \in S : \E i \in 1..n : order[i] = k
  BY <1>4 DEF Surjection
<1>6. Range(order) = S /\ First(order, n) = S
  BY <1>2, <1>3, <1>5 DEF Range, First
<1>. QED
  BY <1>2, <1>3, <1>6 DEF S

LEMMA DbIs ==
  ASSUME db \in Dbs
  PROVE  /\ DOMAIN db.held \subseteq Keys /\ DOMAIN db.index \subseteq Keys
         /\ \A k \in DOMAIN db.held : db.held[k] \in Holdings
         /\ \A k \in DOMAIN db.index : db.index[k] \in Stamps
         /\ \A k \in DOMAIN db.sizes : k \in Keys /\ db.sizes[k] \in Weights /\ db.sizes[k] \in Nat
<1>1. db.held \in Maps(Holdings) /\ db.index \in Maps(Stamps) /\ db.sizes \in Maps(Weights)
  BY DEF Dbs
<1>2. \A w \in Weights : w \in Nat
  BY EntriesAssumption DEF Weights
<1>. QED
  BY <1>1, <1>2, MapsAre

LEMMA DropsTyped ==
  ASSUME db \in Dbs, NEW keys \in Seq(Keys), NEW alive \in SUBSET Range(keys)
  PROVE  Drops(keys, alive) \in Seq(Droppings)
<1>1. alive \in SUBSET First(keys, Len(keys))
  BY DEF First, Range
<1>2. Surplus(keys, alive) \in 0..Len(keys)
  BY <1>1, DbIs, SurplusIs
<1>. QED
  BY <1>2, RequestIs DEF Drops

(* The conclusion of TrimReconciles, of a redis that holds d in the end. *)
Reconciled(d) ==
  LET before == Live(db, now) after == Live(d, now)
      weighed == before \cap DOMAIN db.index
      weigh(keys) == SumFunction([k \in keys |-> IF k \in DOMAIN db.sizes THEN db.sizes[k] ELSE 0]) IN
  /\ DOMAIN d.index = after \cap DOMAIN db.index
  /\ weigh(after \cap DOMAIN db.index) <= MaxUsage
  /\ before # after => weigh(weighed) > MaxUsage
  /\ \A k \in before \ after, j \in after \cap DOMAIN db.index : db.index[k] <= db.index[j]

LEMMA DropsReconcile ==
  ASSUME db \in Dbs, now \in Stamps, NEW order \in Listed, NEW d,
         d = R!AllApplied(db, Drops(order, AliveOf(order)), now)
  PROVE  Reconciled(d)
<1>. DEFINE alive == AliveOf(order)
            n == Surplus(order, alive)
            old == alive \cap First(order, n)
            before == Live(db, now)
            after == Live(d, now)
            S == DOMAIN db.index
<1>1. /\ order \in Seq(Keys) /\ Range(order) = S /\ First(order, Len(order)) = S /\ S \subseteq Keys
      /\ \A i, j \in 1..Len(order) : i < j => db.index[order[i]] <= db.index[order[j]]
  BY ListedIs, DbIs
<1>2. alive = before \cap S /\ alive \subseteq S /\ before = {k \in DOMAIN db.held : now < db.held[k].until}
  BY <1>1, DbIs DEF AliveOf, Live, R!Alive
<1>3. n \in 0..Len(order) /\ Costs(alive \ First(order, n)) <= MaxUsage /\ (n # 0 => Costs(alive) > MaxUsage)
  BY <1>1, <1>2, DbIs, SurplusIs
<1>4. PICK cs \in Seq(Droppings) : /\ cs = Drops(order, alive)
                                   /\ Told(cs, "DEL") = old /\ Told(cs, "ZREM") = (S \ alive) \cup old
  BY <1>1, <1>3, RequestIs DEF Drops
<1>5. /\ DOMAIN d.held = DOMAIN db.held \ old /\ \A k \in DOMAIN d.held : d.held[k] = db.held[k]
      /\ DOMAIN d.index = S \ ((S \ alive) \cup old)
  BY <1>4, DropsIs
<1>6. after = before \ old
  <2>1. after = {k \in DOMAIN d.held : now < d.held[k].until}
    BY <1>5, DbIs DEF Live, R!Alive
  <2>. HIDE DEF old, before, after, alive
  <2>. QED
    BY <1>2, <1>5, <2>1
<1>7. old \subseteq alive /\ alive \ First(order, n) = alive \ old
  OBVIOUS
<1>. HIDE DEF n, old, before, after, alive, S
<1>8. DOMAIN d.index = after \cap S /\ after \cap S = alive \ old
  BY <1>2, <1>5, <1>6, <1>7
<1>9. \A K : Costs(K) = SumFunction([k \in K |-> IF k \in DOMAIN db.sizes THEN db.sizes[k] ELSE 0])
  BY DEF Costs, Cost
<1>10. Costs(after \cap S) <= MaxUsage
  BY <1>3, <1>7, <1>8
<1>11. before # after => Costs(before \cap S) > MaxUsage
  <2>1. CASE n = 0
    <3>1. old = {}
      BY <2>1 DEF old, First
    <3>. QED
      BY <1>6, <3>1
  <2>2. CASE n # 0
    BY <1>2, <1>3, <2>2
  <2>. QED
    BY <2>1, <2>2
<1>12. ASSUME NEW k \in before \ after, NEW j \in after \cap S PROVE db.index[k] <= db.index[j]
  <2>1. k \in old /\ j \in S /\ j \in alive \ old
    BY <1>6, <1>8, <1>12
  <2>2. PICK i \in 1..n : k = order[i]
    BY <2>1 DEF old, First
  <2>3. PICK m \in 1..Len(order) : j = order[m]
    BY <1>1, <2>1 DEF First
  <2>4. ~ (m <= n)
    <3>1. ASSUME m <= n PROVE j \in First(order, n)
      BY <1>3, <2>3, <3>1 DEF First
    <3>. QED
      BY <2>1, <3>1 DEF old
  <2>5. i \in 1..Len(order) /\ i < m
    BY <1>3, <2>4
  <2>. QED
    BY <1>1, <2>2, <2>3, <2>5
<1>. QED
  BY <1>8, <1>9, <1>10, <1>11, <1>12 DEF Reconciled, before, after, S
-----------------------------------------------------------------------------
(* The invariant: what is held has its type, and a trim that nothing has   *)
(* come between knows redis as it is.                                      *)
Trimming == [at : {"idle", "listing", "measuring", "weighing", "dropping"}, keys : Seq(Keys), alive : SUBSET Keys,
             drops : Seq(Droppings), disturbed : BOOLEAN]

Steady(r) == /\ (r.at = "dropping") = (r.drops # <<>>)
             /\ r.at = "weighing" => r.alive \subseteq Range(r.keys)

InTouch(r) ==
  /\ r.at = "measuring" => r.keys \in Listed
  /\ r.at = "weighing" => r.keys \in Listed /\ r.alive = AliveOf(r.keys)
  /\ r.at = "dropping" => \E order \in Listed : r.drops = Drops(order, AliveOf(order))

TrimOk(r) == r \in Trimming /\ Steady(r) /\ (r.disturbed \/ InTouch(r))

Typed == /\ now \in Stamps /\ db \in Dbs
         /\ since \in [Procs -> 0..(TrimEvery - 1)]
         /\ answer \in Entries \cup {None} /\ lost \in 0..MaxLost

TrimsOk == trim \in [Trims -> Trimming] /\ \A t \in Trims : TrimOk(trim[t])

IInv == Typed /\ TrimsOk

LEMMA IdleOk == TrimOk(Idle)
<1>1. <<>> \in Seq(Keys) /\ <<>> \in Seq(Droppings) /\ {} \in SUBSET Keys
  OBVIOUS
<1>2. /\ Idle.at = "idle" /\ Idle.keys = <<>> /\ Idle.alive = {} /\ Idle.drops = <<>>
      /\ Idle \in Trimming
  BY <1>1 DEF Idle, Trimming
<1>. QED
  BY <1>2 DEF TrimOk, Steady, InTouch

(* Nothing changes under a trim. *)
LEMMA StillOk ==
  ASSUME UNCHANGED <<db, now>>, NEW r, TrimOk(r)
  PROVE  TrimOk(r)'
<1>1. Listed' = Listed
  BY DEF Listed
<1>2. \A order : AliveOf(order)' = AliveOf(order)
  BY DEF AliveOf
<1>3. \A order, alive : Drops(order, alive)' = Drops(order, alive)
  BY DEF Drops, Surplus, Costs, Cost
<1>4. r \in Trimming /\ Steady(r) /\ (r.disturbed \/ InTouch(r))
  BY DEF TrimOk
<1>5. Steady(r)'
  BY <1>4 DEF Steady
<1>6. InTouch(r) => InTouch(r)'
  BY <1>1, <1>2, <1>3 DEF InTouch
<1>. QED
  BY <1>4, <1>5, <1>6 DEF TrimOk

(* Something does. *)
LEMMA DisturbedOk ==
  ASSUME TrimsOk, NEW trims, trims = Disturbed(trim)
  PROVE  /\ trims \in [Trims -> Trimming] /\ \A t \in Trims : TrimOk(trims[t])'
         /\ \A t \in Trims : trims[t].at = trim[t].at
<1>1. ASSUME NEW t \in Trims PROVE \E q \in Trimming : trims[t] = q /\ TrimOk(q)' /\ q.at = trim[t].at
  <2>1. PICK r \in Trimming : r = trim[t]
    BY DEF TrimsOk
  <2>2. Steady(r)
    BY <2>1 DEF TrimsOk, TrimOk
  <2>3. CASE r.at = "idle"
    <3>1. trims[t] = r
      BY <2>1, <2>3 DEF Disturbed
    <3>2. TrimOk(r)'
      BY <2>2, <2>3 DEF TrimOk, InTouch, Steady
    <3>. QED
      BY <2>1, <3>1, <3>2
  <2>4. CASE r.at # "idle"
    <3>1. PICK q : q = [at |-> r.at, keys |-> r.keys, alive |-> r.alive, drops |-> r.drops, disturbed |-> TRUE]
      OBVIOUS
    <3>2. trims[t] = q
      BY <2>1, <2>4, <3>1 DEF Disturbed, Trimming
    <3>3. q \in Trimming /\ q.at = r.at /\ q.keys = r.keys /\ q.alive = r.alive /\ q.drops = r.drops
      BY <3>1 DEF Trimming
    <3>4. q.disturbed
      BY <3>1
    <3>5. TrimOk(q)'
      BY <2>2, <3>3, <3>4 DEF TrimOk, Steady
    <3>. QED
      BY <2>1, <3>2, <3>3, <3>5
  <2>. QED
    BY <2>3, <2>4
<1>2. ASSUME NEW t \in Trims PROVE TrimOk(trims[t])'
  <2>1. PICK q : trims[t] = q /\ TrimOk(q)'
    BY <1>1
  <2>. QED
    BY <2>1, Zenon
<1>3. trims = [t \in Trims |-> trims[t]]
  BY DEF Disturbed
<1>. QED
  BY <1>1, <1>2, <1>3

LEMMA SomeOk ==
  ASSUME NEW S, NEW cs \in Seq(S), NEW n \in 0..Len(cs)
  PROVE  SubSeq(cs, 1, n) \in Seq(S)
OBVIOUS

(* What is served leaves redis with what it may hold. *)
LEMMA ServedOk ==
  ASSUME Typed, NEW cs \in Seq(Commands), \/ Served(cs) /\ UNCHANGED lost
                                          \/ Cut(cs)
  PROVE  db' \in Dbs /\ lost' \in 0..MaxLost
<1>1. db \in Dbs /\ now \in Stamps /\ lost \in 0..MaxLost /\ MaxLost \in Nat
  BY BoundsAssumption DEF Typed
<1>2. CASE Served(cs) /\ UNCHANGED lost
  BY <1>1, <1>2, AllAppliedOk DEF Served
<1>3. CASE Cut(cs)
  <2>1. PICK n \in 0..Len(cs) : db' = R!AllApplied(db, SubSeq(cs, 1, n), now)
    BY <1>3 DEF Cut
  <2>2. lost' \in 0..MaxLost
    BY <1>1, <1>3 DEF Cut
  <2>3. PICK some \in Seq(Commands) : some = SubSeq(cs, 1, n)
    BY SomeOk
  <2>4. db' \in Dbs
    BY <1>1, <2>1, <2>3, AllAppliedOk
  <2>. QED
    BY <2>2, <2>4
<1>. QED
  BY <1>2, <1>3

LEMMA RequestsOk ==
  ASSUME NEW k \in Keys
  PROVE  GetRequest(k) \in Seq(Commands) /\ \A e \in Entries : PutRequest(k, e) \in Seq(Commands)
<1>1. PICK renew, add, index, sizes \in Commands :
        /\ renew = [cmd |-> "EXPIRE XX", key |-> k, arg |-> None] /\ add = [cmd |-> "ZADD", key |-> k, arg |-> None]
        /\ index = [cmd |-> "EXPIRE index", key |-> k, arg |-> None]
        /\ sizes = [cmd |-> "EXPIRE sizes", key |-> k, arg |-> None]
  BY DEF Commands
<1>2. GetRequest(k) = <<renew, add>>
  BY <1>1 DEF GetRequest
<1>3. ASSUME NEW e \in Entries PROVE PutRequest(k, e) \in Seq(Commands)
  <2>1. PICK set, hset \in Commands : /\ set = [cmd |-> "SET", key |-> k, arg |-> e]
                                      /\ hset = [cmd |-> "HSET", key |-> k, arg |-> SizeOf(e)]
    BY DEF Commands, Weights
  <2>2. PutRequest(k, e) = <<set, add, hset, index, sizes>>
    BY <1>1, <2>1 DEF PutRequest
  <2>. HIDE DEF Commands
  <2>. QED
    BY <2>2
<1>. HIDE DEF Commands
<1>4. GetRequest(k) \in Seq(Commands)
  BY <1>2
<1>. QED
  BY <1>3, <1>4

LEMMA DroppingsOk ==
  ASSUME NEW cs \in Seq(Droppings)
  PROVE  cs \in Seq(Commands)
<1>1. \A c \in Droppings : c \in Commands
  BY DEF Commands
<1>. HIDE DEF Droppings, Commands
<1>2. cs \in [1..Len(cs) -> Droppings] /\ Len(cs) \in Nat
  OBVIOUS
<1>. QED
  BY <1>1, <1>2
-----------------------------------------------------------------------------
(* The steps. *)
LEMMA RunOutOk ==
  ASSUME NEW d \in Dbs, NEW time
  PROVE  R!RunOut(d, time) \in Dbs /\ R!RunOut(d, time).held = d.held
<1>. DEFINE i == IF time >= d.indexUntil THEN R!Missing ELSE d.index
            iu == IF time >= d.indexUntil THEN Never ELSE d.indexUntil
            s == IF time >= d.sizesUntil THEN R!Missing ELSE d.sizes
            su == IF time >= d.sizesUntil THEN Never ELSE d.sizesUntil
<1>1. d.index \in Maps(Stamps) /\ d.sizes \in Maps(Weights) /\ d.indexUntil \in Times /\ d.sizesUntil \in Times
      /\ Never \in Times /\ R!Missing \in Maps(Stamps) /\ R!Missing \in Maps(Weights)
  BY MissingIs, BoundsAssumption, TtlAssumption DEF Dbs, Times, Never
<1>2. i \in Maps(Stamps) /\ iu \in Times /\ s \in Maps(Weights) /\ su \in Times
  BY <1>1
<1>3. R!RunOut(d, time) = [d EXCEPT !.index = i, !.indexUntil = iu, !.sizes = s, !.sizesUntil = su]
  BY DEF R!RunOut, Dbs
<1>. HIDE DEF i, iu, s, su
<1>. QED
  BY <1>2, <1>3 DEF Dbs

LEMMA IdleNext == TrimOk(Idle)'
<1>1. <<>> \in Seq(Keys) /\ <<>> \in Seq(Droppings) /\ {} \in SUBSET Keys
  OBVIOUS
<1>2. /\ Idle.at = "idle" /\ Idle.keys = <<>> /\ Idle.alive = {} /\ Idle.drops = <<>>
      /\ Idle \in Trimming
  BY <1>1 DEF Idle, Trimming
<1>3. Steady(Idle)' /\ InTouch(Idle)'
  BY <1>2 DEF Idle, Steady, InTouch
<1>. QED
  BY <1>2, <1>3 DEF TrimOk, Idle

(* One trim goes on, and nothing changes for the others. *)
LEMMA OneGoesOn ==
  ASSUME TrimsOk, UNCHANGED <<db, now>>, NEW t \in Trims, NEW r, trim' = [trim EXCEPT ![t] = r], TrimOk(r)
  PROVE  TrimsOk'
<1>1. r \in Trimming /\ trim' \in [Trims -> Trimming]
  BY DEF TrimsOk, TrimOk
<1>2. ASSUME NEW u \in Trims PROVE TrimOk(trim[u])'
  <2>1. PICK q : q = trim'[u]
    OBVIOUS
  <2>2. TrimOk(q)
    BY <2>1 DEF TrimsOk
  <2>3. TrimOk(q)'
    BY <2>2, StillOk
  <2>. QED
    BY <2>1, <2>3, Zenon
<1>. QED
  BY <1>1, <1>2 DEF TrimsOk

(* One trim goes on, and something changes for the others. *)
LEMMA OneDisturbs ==
  ASSUME TrimsOk, NEW t \in Trims, NEW r \in Trimming, trim' = [Disturbed(trim) EXCEPT ![t] = r], TrimOk(r)'
  PROVE  TrimsOk'
<1>1. PICK trims : trims = Disturbed(trim)
  OBVIOUS
<1>2. trims \in [Trims -> Trimming] /\ \A u \in Trims : TrimOk(trims[u])'
  BY <1>1, DisturbedOk
<1>3. trim' = [trims EXCEPT ![t] = r] /\ trim' \in [Trims -> Trimming]
  BY <1>1, <1>2
<1>4. ASSUME NEW u \in Trims PROVE TrimOk(trim[u])'
  <2>1. PICK q : q = trim'[u]
    OBVIOUS
  <2>2. q = r \/ q = trims[u]
    BY <1>2, <1>3, <2>1
  <2>3. TrimOk(q)'
    <3>1. CASE q = r
      BY <3>1, Zenon
    <3>2. CASE q = trims[u]
      BY <1>2, <3>2, Zenon
    <3>. QED
      BY <2>2, <3>1, <3>2
  <2>. QED
    BY <2>1, <2>3, Zenon
<1>. QED
  BY <1>3, <1>4 DEF TrimsOk

LEMMA AllDisturbed ==
  ASSUME TrimsOk, trim' = Disturbed(trim)
  PROVE  TrimsOk'
<1>1. PICK trims : trims = Disturbed(trim)
  OBVIOUS
<1>2. trims \in [Trims -> Trimming] /\ \A u \in Trims : TrimOk(trims[u])'
  BY <1>1, DisturbedOk
<1>3. ASSUME NEW u \in Trims PROVE TrimOk(trim[u])'
  BY <1>1, <1>2, Zenon
<1>. QED
  BY <1>1, <1>2, <1>3 DEF TrimsOk

LEMMA InitInv == Init => IInv
<1>. SUFFICES ASSUME Init PROVE IInv
  OBVIOUS
<1>1. R!EmptyDb \in Dbs
  BY MissingIs, BoundsAssumption, TtlAssumption DEF R!EmptyDb, Dbs, Times, Never
<1>2. Typed
  BY <1>1, BoundsAssumption, TrimEveryAssumption DEF Init, Typed, Stamps
<1>3. TrimsOk
  BY IdleOk DEF Init, TrimsOk, TrimOk
<1>. QED
  BY <1>2, <1>3 DEF IInv

LEMMA TickInv == IInv /\ Tick => IInv'
<1>. SUFFICES ASSUME IInv, Tick PROVE IInv'
  OBVIOUS
<1>1. db' \in Dbs
  BY RunOutOk DEF IInv, Typed, Tick
<1>2. Typed'
  BY <1>1, BoundsAssumption DEF IInv, Typed, Tick, Stamps
<1>3. TrimsOk'
  BY AllDisturbed DEF IInv, Tick
<1>. QED
  BY <1>2, <1>3 DEF IInv

LEMMA GetInv ==
  ASSUME IInv, NEW k \in Keys, Get(k)
  PROVE  IInv'
<1>1. GetRequest(k) \in Seq(Commands)
  BY RequestsOk
<1>2. (Served(GetRequest(k)) /\ UNCHANGED lost) \/ Cut(GetRequest(k))
  BY DEF Get
<1>3. db' \in Dbs /\ lost' \in 0..MaxLost
  BY <1>1, <1>2, ServedOk DEF IInv
<1>4. answer' \in Entries \cup {None}
  BY DbIs DEF Get, IInv, Typed, R!Alive, Holdings
<1>5. Typed'
  BY <1>3, <1>4 DEF IInv, Typed, Get
<1>6. TrimsOk'
  BY AllDisturbed DEF IInv, Get
<1>. QED
  BY <1>5, <1>6 DEF IInv

LEMMA PutInv ==
  ASSUME IInv, NEW p \in Procs, NEW k \in Keys, NEW e \in Entries, Put(p, k, e)
  PROVE  IInv'
<1>1. PutRequest(k, e) \in Seq(Commands)
  BY RequestsOk
<1>2. (Served(PutRequest(k, e)) /\ UNCHANGED lost) \/ Cut(PutRequest(k, e))
  BY DEF Put
<1>3. db' \in Dbs /\ lost' \in 0..MaxLost
  BY <1>1, <1>2, ServedOk DEF IInv
<1>4. since' \in [Procs -> 0..(TrimEvery - 1)]
  BY TrimEveryAssumption DEF IInv, Typed, Put
<1>5. Typed'
  BY <1>3, <1>4 DEF IInv, Typed, Put
<1>6. ASSUME trim' = Disturbed(trim) PROVE TrimsOk'
  BY <1>6, AllDisturbed DEF IInv
<1>7. ASSUME NEW t \in Trims, trim[t].at = "idle", trim' = [Disturbed(trim) EXCEPT ![t].at = "listing"]
      PROVE  TrimsOk'
  <2>1. PICK r \in Trimming : r = trim[t] /\ r = Disturbed(trim)[t] /\ r.at = "idle"
    BY <1>7 DEF IInv, TrimsOk, Disturbed
  <2>2. PICK q : q = [r EXCEPT !.at = "listing"]
    OBVIOUS
  <2>3. /\ q \in Trimming /\ q.at = "listing" /\ q.drops = r.drops
    BY <2>1, <2>2 DEF Trimming
  <2>4. r.drops = <<>>
    BY <2>1 DEF IInv, TrimsOk, TrimOk, Steady
  <2>5. TrimOk(q)'
    BY <2>3, <2>4 DEF TrimOk, Steady, InTouch
  <2>6. trim' = [Disturbed(trim) EXCEPT ![t] = q]
    BY <1>7, <2>1, <2>2 DEF Disturbed
  <2>. QED
    BY <2>3, <2>5, <2>6, OneDisturbs DEF IInv
<1>8. trim' = Disturbed(trim) \/ \E t \in Trims : trim[t].at = "idle" /\ trim' = [Disturbed(trim) EXCEPT ![t].at = "listing"]
  BY Zenon DEF Put
<1>9. TrimsOk'
  BY <1>6, <1>7, <1>8, Zenon
<1>. QED
  BY <1>5, <1>9 DEF IInv

(* A trim's steps that leave redis alone. *)
LEMMA ListOk ==
  ASSUME IInv, UNCHANGED now, NEW t \in Trims, List(t)
  PROVE  TrimsOk'
<1>1. PICK order \in Listed :
        trim' = [trim EXCEPT ![t] = IF order = <<>> THEN Idle ELSE [Idle EXCEPT !.at = "measuring", !.keys = order]]
  BY DEF List
<1>2. order \in Seq(Keys)
  BY ListedIs DEF IInv, Typed
<1>3. PICK q : q = [Idle EXCEPT !.at = "measuring", !.keys = order]
  OBVIOUS
<1>4. q = [at |-> "measuring", keys |-> order, alive |-> {}, drops |-> <<>>, disturbed |-> FALSE]
  BY <1>3 DEF Idle
<1>5. q \in Trimming /\ q.at = "measuring" /\ q.keys = order /\ q.drops = <<>>
  BY <1>2, <1>4 DEF Trimming
<1>6. TrimOk(q)
  BY <1>5 DEF TrimOk, Steady, InTouch
<1>7. CASE order = <<>>
  <2>1. trim' = [trim EXCEPT ![t] = Idle]
    BY <1>1, <1>7
  <2>. QED
    BY <2>1, IdleOk, OneGoesOn DEF IInv, List
<1>8. CASE order # <<>>
  <2>1. trim' = [trim EXCEPT ![t] = q]
    BY <1>1, <1>3, <1>8
  <2>. QED
    BY <1>6, <2>1, OneGoesOn DEF IInv, List
<1>. QED
  BY <1>7, <1>8

LEMMA MeasureOk ==
  ASSUME IInv, UNCHANGED now, NEW t \in Trims, Measure(t)
  PROVE  TrimsOk'
<1>1. PICK r \in Trimming : r = trim[t] /\ TrimOk(r)
  BY DEF IInv, TrimsOk
<1>2. r.at = "measuring" /\ r.keys \in Seq(Keys) /\ Steady(r) /\ (r.disturbed \/ InTouch(r))
  BY <1>1 DEF Measure, Trimming, TrimOk
<1>3. PICK alive : alive = AliveOf(r.keys)
  OBVIOUS
<1>4. alive \subseteq Range(r.keys) /\ alive \in SUBSET Keys
  BY <1>2, <1>3 DEF AliveOf, Range
<1>5. PICK q : q = [r EXCEPT !.at = "weighing", !.alive = alive]
  OBVIOUS
<1>6. q \in Trimming /\ q.at = "weighing" /\ q.keys = r.keys /\ q.alive = alive /\ q.drops = r.drops
  BY <1>4, <1>5 DEF Trimming
<1>7. q.disturbed = r.disturbed
  BY <1>5 DEF Trimming
<1>8. Steady(q) /\ (InTouch(r) => InTouch(q))
  BY <1>2, <1>3, <1>4, <1>6 DEF Steady, InTouch
<1>9. TrimOk(q)
  BY <1>2, <1>6, <1>7, <1>8, Zenon DEF TrimOk
<1>10. trim' = [trim EXCEPT ![t] = q]
  <2>1. trim \in [Trims -> Trimming]
    BY DEF IInv, TrimsOk
  <2>2. trim' = [trim EXCEPT ![t].at = "weighing", ![t].alive = alive]
    BY <1>1, <1>3 DEF Measure, AliveOf
  <2>3. trim' = [trim EXCEPT ![t] = [r EXCEPT !.at = "weighing", !.alive = alive]]
    BY <1>1, <2>1, <2>2
  <2>. QED
    BY <1>5, <2>3, Zenon
<1>. QED
  BY <1>9, <1>10, OneGoesOn DEF IInv, Measure

LEMMA WeighOk ==
  ASSUME IInv, UNCHANGED now, NEW t \in Trims, Weigh(t)
  PROVE  TrimsOk'
<1>1. PICK r \in Trimming : r = trim[t] /\ TrimOk(r)
  BY DEF IInv, TrimsOk
<1>2. r.at = "weighing" /\ r.keys \in Seq(Keys) /\ Steady(r) /\ (r.disturbed \/ InTouch(r))
  BY <1>1 DEF Weigh, Trimming, TrimOk
<1>3. PICK drops : drops = Drops(r.keys, r.alive)
  OBVIOUS
<1>4. drops \in Seq(Droppings)
  BY <1>2, <1>3, DropsTyped DEF Steady, IInv, Typed
<1>5. PICK q : q = [r EXCEPT !.at = "dropping", !.keys = <<>>, !.alive = {}, !.drops = drops]
  OBVIOUS
<1>6. q \in Trimming /\ q.at = "dropping" /\ q.drops = drops
  <2>1. <<>> \in Seq(Keys) /\ {} \in SUBSET Keys /\ "dropping" \in {"idle", "listing", "measuring", "weighing", "dropping"}
    OBVIOUS
  <2>. QED
    BY <1>4, <1>5, <2>1 DEF Trimming
<1>7. q.disturbed = r.disturbed
  BY <1>5 DEF Trimming
<1>8. drops # <<>> => Steady(q)
  BY <1>6 DEF Steady
<1>9. InTouch(r) => InTouch(q)
  BY <1>2, <1>3, <1>6 DEF InTouch
<1>10. drops # <<>> => TrimOk(q)
  BY <1>2, <1>6, <1>7, <1>8, <1>9, Zenon DEF TrimOk
<1>11. CASE drops = <<>>
  <2>1. trim' = [trim EXCEPT ![t] = Idle]
    BY <1>1, <1>3, <1>11 DEF Weigh
  <2>. QED
    BY <2>1, IdleOk, OneGoesOn DEF IInv, Weigh
<1>12. CASE drops # <<>>
  <2>1. trim' = [trim EXCEPT ![t] = q]
    <3>1. trim \in [Trims -> Trimming]
      BY DEF IInv, TrimsOk
    <3>2. trim' = [trim EXCEPT ![t] = [@ EXCEPT !.at = "dropping", !.keys = <<>>, !.alive = {}, !.drops = drops]]
      BY <1>1, <1>3, <1>12 DEF Weigh
    <3>3. trim' = [trim EXCEPT ![t] = [r EXCEPT !.at = "dropping", !.keys = <<>>, !.alive = {}, !.drops = drops]]
      BY <1>1, <3>1, <3>2
    <3>. QED
      BY <1>5, <3>3, Zenon
  <2>. QED
    BY <1>10, <1>12, <2>1, OneGoesOn DEF IInv, Weigh
<1>. QED
  BY <1>11, <1>12

LEMMA TrimInv ==
  ASSUME IInv, NEW t \in Trims, Trim(t)
  PROVE  IInv'
<1>1. UNCHANGED <<now, since>> /\ answer' = None
  BY DEF Trim
<1>2. CASE List(t) \/ Measure(t) \/ Weigh(t)
  <2>1. TrimsOk'
    BY <1>1, <1>2, ListOk, MeasureOk, WeighOk, SMTT(30)
  <2>2. UNCHANGED <<db, lost>>
    BY <1>2 DEF List, Measure, Weigh
  <2>. QED
    BY <1>1, <2>1, <2>2 DEF IInv, Typed
<1>3. CASE Drop(t)
  <2>1. PICK r \in Trimming : r = trim[t]
    BY DEF IInv, TrimsOk
  <2>2. PICK cs \in Seq(Commands) : cs = trim[t].drops
    BY <2>1, DroppingsOk DEF Trimming
  <2>3. db' \in Dbs /\ lost' \in 0..MaxLost
    BY <1>3, <2>2, ServedOk DEF Drop, IInv
  <2>4. trim' = [Disturbed(trim) EXCEPT ![t] = Idle]
    BY <1>3 DEF Drop
  <2>5. Idle \in Trimming
    BY IdleOk DEF TrimOk
  <2>6. PICK r2 \in Trimming : r2 = Idle /\ TrimOk(r2)' /\ trim' = [Disturbed(trim) EXCEPT ![t] = r2]
    BY <2>4, <2>5, IdleNext DEF Idle
  <2>7. TrimsOk'
    BY <2>6, OneDisturbs DEF IInv
  <2>. QED
    BY <1>1, <2>3, <2>7 DEF IInv, Typed
<1>4. CASE Fail(t)
  <2>1. trim' = [trim EXCEPT ![t] = Idle] /\ UNCHANGED db
    BY <1>4 DEF Fail
  <2>2. TrimsOk'
    BY <1>1, <2>1, IdleOk, OneGoesOn DEF IInv
  <2>3. lost' \in 0..MaxLost
    BY <1>4, BoundsAssumption DEF Fail, IInv, Typed
  <2>. QED
    BY <1>1, <2>1, <2>2, <2>3 DEF IInv, Typed
<1>. QED
  BY <1>2, <1>3, <1>4 DEF Trim

LEMMA StutterInv == IInv /\ UNCHANGED vars => IInv'
<1>. SUFFICES ASSUME IInv, UNCHANGED vars PROVE IInv'
  OBVIOUS
<1>1. UNCHANGED <<now, db, since, trim, answer, lost>>
  BY DEF vars
<1>2. ASSUME NEW t \in Trims PROVE TrimOk(trim[t])'
  <2>1. PICK q : q = trim[t] /\ TrimOk(q)
    BY DEF IInv, TrimsOk
  <2>2. TrimOk(q)'
    BY <1>1, <2>1, StillOk
  <2>. QED
    BY <1>1, <2>1, <2>2, Zenon
<1>. QED
  BY <1>1, <1>2 DEF IInv, Typed, TrimsOk

LEMMA NextInv == IInv /\ [Next]_vars => IInv'
<1>. SUFFICES ASSUME IInv, [Next]_vars PROVE IInv'
  OBVIOUS
<1>1. CASE UNCHANGED vars
  BY <1>1, StutterInv
<1>2. CASE Next
  BY <1>2, TickInv, TrimInv, GetInv, PutInv DEF Next
<1>. QED
  BY <1>1, <1>2

LEMMA Inductive == Spec => []IInv
BY InitInv, NextInv, PTL DEF Spec

(* What is held has an entry and an expiry, what is indexed a stamp, and a
   trim has commands to send exactly when it is about to drop
   (redis.cpp:215). *)
THEOREM Typing == Spec => []TypeOK
<1>1. IInv => TypeOK
  <2>. SUFFICES ASSUME IInv PROVE TypeOK
    OBVIOUS
  <2>1. /\ \A k \in DOMAIN db.held : k \in Keys /\ db.held[k] \in [entry : Entries, until : Times]
        /\ \A k \in DOMAIN db.index : k \in Keys /\ db.index[k] \in 0..MaxTime
        /\ \A k \in DOMAIN db.sizes : k \in Keys /\ db.sizes[k] \in {SizeOf(e) : e \in Entries}
    BY DbIs DEF IInv, Typed, Holdings, Stamps, Weights
  <2>2. db.indexUntil \in Times /\ db.sizesUntil \in Times
    BY DEF IInv, Typed, Dbs
  <2>3. ASSUME NEW t \in Trims
        PROVE  /\ trim[t].at \in {"idle", "listing", "measuring", "weighing", "dropping"}
               /\ trim[t].keys \in Seq(Keys) /\ trim[t].alive \subseteq Keys
               /\ (trim[t].at = "dropping") = (trim[t].drops # <<>>)
    <3>1. PICK r \in Trimming : r = trim[t] /\ Steady(r)
      BY DEF IInv, TrimsOk, TrimOk
    <3>. QED
      BY <3>1 DEF Trimming, Steady
  <2>. QED
    BY <2>1, <2>2, <2>3 DEF IInv, Typed, TypeOK, Stamps
<1>. QED
  BY <1>1, Inductive, PTL
-----------------------------------------------------------------------------
LEMMA NothingApplied ==
  ASSUME NEW d \in Dbs, NEW cs \in Seq(Commands), NEW time \in Stamps
  PROVE  Len(cs) = 0 => R!AllApplied(d, cs, time) = d
<1>1. PICK after \in [0..Len(cs) -> Dbs] :
        /\ after[0] = d /\ R!AllApplied(d, cs, time) = after[Len(cs)]
        /\ \A n \in 1..Len(cs) : after[n] = R!Applied(after[n - 1], cs[n], time)
  BY AllAppliedIs
<1>. QED
  BY <1>1

(* A step that only disturbs the trims ends none. *)
LEMMA NoneEnds ==
  ASSUME IInv, NEW t \in Trims, trim'[t] = Disturbed(trim)[t]
  PROVE  ~Complete(t)
BY DisturbedOk DEF IInv, Complete

LEMMA Completing ==
  ASSUME IInv, [Next]_vars, NEW t \in Trims, Complete(t), ~trim[t].disturbed
  PROVE  Reconciled(db')
<1>1. trim \in [Trims -> Trimming] /\ trim[t].at \in {"weighing", "dropping"} /\ trim'[t].at = "idle" /\ lost' = lost
      /\ db \in Dbs /\ now \in Stamps /\ lost \in Nat
  BY BoundsAssumption DEF IInv, Typed, TrimsOk, Complete
<1>2. InTouch(trim[t])
  BY DEF IInv, TrimsOk, TrimOk
<1>3. ~Tick
  BY NoneEnds DEF Tick
<1>4. ASSUME NEW k \in Keys PROVE ~Get(k)
  BY NoneEnds DEF Get
<1>5. ASSUME NEW p \in Procs, NEW k \in Keys, NEW e \in Entries, Put(p, k, e) PROVE FALSE
  <2>1. CASE trim' = Disturbed(trim)
    BY <2>1, NoneEnds
  <2>2. ASSUME NEW u \in Trims, trim' = [Disturbed(trim) EXCEPT ![u].at = "listing"] PROVE FALSE
    <3>1. PICK trims \in [Trims -> Trimming] : trims = Disturbed(trim)
      BY DisturbedOk DEF IInv
    <3>2. PICK q : q = [trims[u] EXCEPT !.at = "listing"]
      OBVIOUS
    <3>3. q.at = "listing"
      BY <3>1, <3>2 DEF Trimming
    <3>4. trim' = [trims EXCEPT ![u] = q]
      BY <2>2, <3>1, <3>2
    <3>5. t # u => trim'[t] = Disturbed(trim)[t]
      BY <3>1, <3>4
    <3>6. t = u => trim'[t].at = "listing"
      BY <3>1, <3>3, <3>4
    <3>. QED
      BY <1>1, <3>5, <3>6, NoneEnds
  <2>3. trim' = Disturbed(trim) \/ \E u \in Trims : trim' = [Disturbed(trim) EXCEPT ![u].at = "listing"]
    BY <1>5, Zenon DEF Put
  <2>. QED
    BY <2>1, <2>2, <2>3
<1>6. PICK u \in Trims : Trim(u)
  BY <1>1, <1>3, <1>4, <1>5 DEF Next, vars
<1>7. ~Fail(u)
  BY <1>1 DEF Fail
<1>8. ~List(t) /\ ~Measure(t)
  BY <1>1 DEF List, Measure
<1>9. CASE u # t
  <2>1. trim'[t] = trim[t] \/ trim'[t] = Disturbed(trim)[t]
    <3>1. CASE List(u) \/ Measure(u) \/ Weigh(u)
      BY <1>1, <1>9, <3>1 DEF List, Measure, Weigh
    <3>2. CASE Drop(u)
      BY <1>9, <3>2 DEF Drop, Disturbed
    <3>. QED
      BY <1>6, <1>7, <3>1, <3>2 DEF Trim
  <2>2. trim'[t] # trim[t]
    BY <1>1
  <2>. QED
    BY <2>1, <2>2, NoneEnds
<1>10. CASE u = t /\ Weigh(t)
  <2>1. PICK order \in Listed : order = trim[t].keys /\ trim[t].alive = AliveOf(order)
    BY <1>2, <1>10 DEF InTouch, Weigh
  <2>2. Drops(order, AliveOf(order)) = <<>>
    <3>1. PICK drops : drops = Drops(order, AliveOf(order))
      OBVIOUS
    <3>2. drops # <<>> => trim'[t] = [trim[t] EXCEPT !.at = "dropping", !.keys = <<>>, !.alive = {}, !.drops = drops]
      BY <1>1, <1>10, <2>1, <3>1 DEF Weigh
    <3>3. PICK r \in Trimming : r = trim[t]
      BY <1>1
    <3>4. [r EXCEPT !.at = "dropping", !.keys = <<>>, !.alive = {}, !.drops = drops].at = "dropping"
      BY <3>3 DEF Trimming
    <3>. QED
      BY <1>1, <3>1, <3>2, <3>3, <3>4
  <2>3. db' = R!AllApplied(db, Drops(order, AliveOf(order)), now)
    <3>1. PICK cs \in Seq(Commands) : cs = <<>> /\ Len(cs) = 0
      <4>1. <<>> \in Seq(Commands)
        OBVIOUS
      <4>2. Len(<<>>) = 0
        OBVIOUS
      <4>. QED
        BY <4>1, <4>2, Zenon
    <3>2. R!AllApplied(db, cs, now) = db
      BY <1>1, <3>1, NothingApplied, Zenon
    <3>. QED
      BY <1>10, <2>2, <3>1, <3>2, Zenon DEF Weigh
  <2>. QED
    BY <1>1, <2>1, <2>3, DropsReconcile
<1>11. CASE u = t /\ Drop(t)
  <2>1. PICK order \in Listed : trim[t].drops = Drops(order, AliveOf(order))
    BY <1>2, <1>11 DEF InTouch, Drop
  <2>2. db' = R!AllApplied(db, Drops(order, AliveOf(order)), now)
    BY <1>1, <1>11, <2>1 DEF Drop, Served, Cut
  <2>. QED
    BY <1>1, <2>1, <2>2, DropsReconcile
<1>. QED
  BY <1>6, <1>7, <1>8, <1>9, <1>10, <1>11 DEF Trim

(* A trim that nothing comes between leaves exactly what is alive in the
   index, within the budget; it evicts only when it must, and what was wanted
   longest ago.  RedisStore::trim decides on an order, on what is there and on
   sizes it has asked for one after the other (redis.cpp:147-222). *)
THEOREM Reconciles == Spec => TrimReconciles
<1>1. IInv /\ [Next]_vars =>
        [\A t \in Trims : Complete(t) /\ ~trim[t].disturbed =>
           LET before == Live(db, now) after == Live(db', now)
               weighed == before \cap DOMAIN db.index
               weigh(keys) == SumFunction([k \in keys |-> IF k \in DOMAIN db.sizes THEN db.sizes[k] ELSE 0]) IN
           /\ DOMAIN db'.index = after \cap DOMAIN db.index
           /\ weigh(after \cap DOMAIN db.index) <= MaxUsage
           /\ before # after => weigh(weighed) > MaxUsage
           /\ \A k \in before \ after, j \in after \cap DOMAIN db.index : db.index[k] <= db.index[j]]_vars
  BY Completing DEF Reconciled
<1>. QED
  BY <1>1, Inductive, PTL DEF Spec, TrimReconciles
-----------------------------------------------------------------------------
(* How the maps of Promise change with what redis holds. *)
EntryOf(d) == [k \in Keys |-> IF k \in DOMAIN d.held THEN d.held[k].entry ELSE None]
UsedOf(d) == [k \in Keys |-> IF k \in DOMAIN d.held THEN d.held[k].until - Ttl ELSE 0]

LEMMA MapsOf == EntryMap = EntryOf(db) /\ UsedMap = UsedOf(db) /\ EntryMap' = EntryOf(db') /\ UsedMap' = UsedOf(db')
BY DEF EntryMap, UsedMap, EntryOf, UsedOf

(* Only what is held matters, and what is no longer held is lost. *)
LEMMA LosesIs ==
  ASSUME NEW d, NEW gone, DOMAIN db'.held = DOMAIN d.held \ gone,
         \A k \in DOMAIN db'.held : db'.held[k] = d.held[k]
  PROVE  Promise!Loses(EntryOf(d), UsedOf(d))
<1>. DEFINE lostKeys == Keys \cap gone
<1>1. /\ EntryMap' = [k \in Keys |-> IF k \in lostKeys THEN None ELSE EntryOf(d)[k]]
      /\ UsedMap' = [k \in Keys |-> IF k \in lostKeys THEN 0 ELSE UsedOf(d)[k]]
  BY DEF EntryMap, UsedMap, EntryOf, UsedOf
<1>2. lostKeys \in SUBSET Keys
  OBVIOUS
<1>. HIDE DEF lostKeys
<1>. QED
  BY <1>1, <1>2 DEF Promise!Loses

(* The commands of a get after its GET, those of a put after its SET. *)
Aside(c) == c.cmd \in {"ZADD", "HSET", "EXPIRE index", "EXPIRE sizes"}

LEMMA OtherCommands ==
  ASSUME NEW d \in Dbs, NEW c \in Commands, NEW time \in Stamps, Aside(c)
  PROVE  R!Applied(d, c, time).held = d.held
<1>1. CASE c.cmd = "ZADD"
  BY <1>1 DEF R!Applied, R!ZAdd, Dbs
<1>2. CASE c.cmd = "HSET"
  BY <1>2 DEF R!Applied, R!HSet, Dbs
<1>3. CASE c.cmd = "EXPIRE index"
  BY <1>3 DEF R!Applied, R!ExpireIndex, Dbs
<1>4. CASE c.cmd = "EXPIRE sizes"
  BY <1>4 DEF R!Applied, R!ExpireSizes, Dbs
<1>. QED
  BY <1>1, <1>2, <1>3, <1>4 DEF Aside

(* A request that asks for other things after its first command holds, in
   the end, what the first command left. *)
LEMMA FirstMatters ==
  ASSUME NEW d \in Dbs, NEW cs \in Seq(Commands), NEW time \in Stamps, \A i \in 2..Len(cs) : Aside(cs[i])
  PROVE  R!AllApplied(d, cs, time).held = IF Len(cs) = 0 THEN d.held ELSE R!Applied(d, cs[1], time).held
<1>1. Len(cs) \in Nat /\ \A i \in 1..Len(cs) : cs[i] \in Commands
  OBVIOUS
<1>2. PICK after \in [0..Len(cs) -> Dbs] :
        /\ after[0] = d /\ R!AllApplied(d, cs, time) = after[Len(cs)]
        /\ \A n \in 1..Len(cs) : after[n] = R!Applied(after[n - 1], cs[n], time)
  BY AllAppliedIs
<1>3. CASE Len(cs) = 0
  BY <1>2, <1>3
<1>4. CASE Len(cs) # 0
  <2>. DEFINE Still == {n \in Nat : n \in 1..Len(cs) => after[n].held = after[1].held}
  <2>1. 0 \in Still /\ Still \in SUBSET Nat
    OBVIOUS
  <2>2. ASSUME NEW n \in Still PROVE n + 1 \in Still
    <3>1. CASE n = 0 \/ n + 1 \notin 1..Len(cs)
      BY <3>1
    <3>2. CASE n # 0 /\ n + 1 \in 1..Len(cs)
      <4>1. n \in 1..Len(cs) /\ n \in 0..Len(cs) /\ n + 1 \in 2..Len(cs) /\ (n + 1) - 1 = n
        BY <1>1, <3>2
      <4>2. after[n + 1] = R!Applied(after[n], cs[n + 1], time) /\ after[n] \in Dbs /\ cs[n + 1] \in Commands
        BY <1>1, <1>2, <3>2, <4>1
      <4>3. after[n + 1].held = after[n].held
        BY <4>1, <4>2, OtherCommands
      <4>. QED
        BY <2>2, <4>1, <4>3
    <3>. QED
      BY <3>1, <3>2
  <2>. HIDE DEF Still
  <2>3. Still = Nat
    BY <2>1, <2>2, NatSetInduction
  <2>4. after[Len(cs)].held = after[1].held
    BY <1>1, <1>4, <2>3 DEF Still
  <2>5. after[1] = R!Applied(d, cs[1], time)
    BY <1>1, <1>2, <1>4
  <2>. QED
    BY <1>2, <1>4, <2>4, <2>5
<1>. QED
  BY <1>3, <1>4

(* The same of the commands that were served before a connection was lost. *)
LEMMA SomeServed ==
  ASSUME NEW cs \in Seq(Commands), db \in Dbs, now \in Stamps, Len(cs) # 0, \A i \in 2..Len(cs) : Aside(cs[i]),
         (Served(cs) /\ UNCHANGED lost) \/ Cut(cs)
  PROVE  \/ db'.held = R!Applied(db, cs[1], now).held
         \/ ~Served(cs) /\ Cut(cs) /\ db'.held = db.held
<1>1. Len(cs) \in Nat
  OBVIOUS
<1>2. CASE Served(cs)
  BY <1>2, FirstMatters DEF Served
<1>3. CASE ~Served(cs) /\ Cut(cs)
  <2>1. PICK n \in 0..Len(cs) : db' = R!AllApplied(db, SubSeq(cs, 1, n), now)
    BY <1>3 DEF Cut
  <2>2. PICK some \in Seq(Commands) : some = SubSeq(cs, 1, n)
    BY SomeOk
  <2>3. Len(some) = n /\ \A i \in 1..n : some[i] = cs[i]
    BY <1>1, <2>2
  <2>4. \A i \in 2..Len(some) : Aside(some[i])
    BY <1>1, <2>3
  <2>5. db'.held = IF n = 0 THEN db.held ELSE R!Applied(db, cs[1], now).held
    <3>1. db'.held = IF Len(some) = 0 THEN db.held ELSE R!Applied(db, some[1], now).held
      BY <2>1, <2>2, <2>4, FirstMatters
    <3>2. n # 0 => some[1] = cs[1]
      BY <1>1, <2>3
    <3>. QED
      BY <2>3, <3>1, <3>2
  <2>. QED
    BY <1>3, <2>5
<1>. QED
  BY <1>2, <1>3

LEMMA GetAsks ==
  ASSUME NEW k \in Keys, db \in Dbs
  PROVE  /\ Len(GetRequest(k)) # 0 /\ \A i \in 2..Len(GetRequest(k)) : Aside(GetRequest(k)[i])
         /\ R!Applied(db, GetRequest(k)[1], now) = R!Renew(db, k, now)
<1>1. PICK renew, add \in Commands : /\ renew = [cmd |-> "EXPIRE XX", key |-> k, arg |-> None]
                                     /\ add = [cmd |-> "ZADD", key |-> k, arg |-> None]
  BY DEF Commands
<1>2. renew.cmd = "EXPIRE XX" /\ renew.key = k /\ Aside(add)
  BY <1>1 DEF Aside
<1>3. PICK r : r = GetRequest(k) /\ r = <<renew, add>>
  BY <1>1 DEF GetRequest
<1>4. Len(r) = 2 /\ r[1] = renew /\ r[2] = add
  BY <1>3
<1>5. R!Applied(db, renew, now) = R!Renew(db, k, now)
  BY <1>2 DEF R!Applied
<1>6. \A i \in 2..2 : i = 2
  OBVIOUS
<1>7. \A i \in 2..Len(r) : Aside(r[i])
  BY <1>2, <1>4, <1>6
<1>. QED
  BY <1>3, <1>4, <1>5, <1>7

LEMMA PutAsks ==
  ASSUME NEW k \in Keys, NEW e \in Entries, db \in Dbs
  PROVE  /\ Len(PutRequest(k, e)) # 0 /\ \A i \in 2..Len(PutRequest(k, e)) : Aside(PutRequest(k, e)[i])
         /\ R!Applied(db, PutRequest(k, e)[1], now) = R!Set(db, k, e, now)
<1>1. PICK set, add, size, index, sizes \in Commands :
        /\ set = [cmd |-> "SET", key |-> k, arg |-> e] /\ add = [cmd |-> "ZADD", key |-> k, arg |-> None]
        /\ size = [cmd |-> "HSET", key |-> k, arg |-> SizeOf(e)]
        /\ index = [cmd |-> "EXPIRE index", key |-> k, arg |-> None]
        /\ sizes = [cmd |-> "EXPIRE sizes", key |-> k, arg |-> None]
  BY DEF Commands, Weights
<1>2. set.cmd = "SET" /\ set.key = k /\ set.arg = e /\ Aside(add) /\ Aside(size) /\ Aside(index) /\ Aside(sizes)
  BY <1>1 DEF Aside
<1>3. PICK r : r = PutRequest(k, e) /\ r = <<set, add, size, index, sizes>>
  BY <1>1 DEF PutRequest
<1>4. Len(r) = 5 /\ r[1] = set /\ r[2] = add /\ r[3] = size /\ r[4] = index /\ r[5] = sizes
  BY <1>3
<1>5. R!Applied(db, set, now) = R!Set(db, k, e, now)
  BY <1>2 DEF R!Applied
<1>6. \A i \in 2..5 : i = 2 \/ i = 3 \/ i = 4 \/ i = 5
  OBVIOUS
<1>7. \A i \in 2..Len(r) : Aside(r[i])
  BY <1>2, <1>4, <1>6
<1>. QED
  BY <1>3, <1>4, <1>5, <1>7
-----------------------------------------------------------------------------
(* The maps after a command that holds. *)
LEMMA StaysKept ==
  ASSUME db'.held = db.held
  PROVE  Promise!Loses(EntryMap, UsedMap)
<1>1. PICK gone : gone = {}
  OBVIOUS
<1>2. DOMAIN db'.held = DOMAIN db.held \ gone /\ \A k \in DOMAIN db'.held : db'.held[k] = db.held[k]
  BY <1>1
<1>. QED
  BY <1>2, LosesIs, MapsOf

LEMMA Renewed ==
  ASSUME db \in Dbs, now \in Stamps, NEW k \in Keys, db'.held = R!Renew(db, k, now).held, R!Alive(db, k, now)
  PROVE  Promise!Loses(EntryMap, [UsedMap EXCEPT ![k] = now])
<1>1. PICK until \in Times : until = now + Ttl
  BY TimesAre DEF Stamps
<1>2. PICK h, was \in Holdings : /\ was = db.held[k] /\ h = [entry |-> was.entry, until |-> until]
  BY DbIs DEF Holdings, R!Alive
<1>3. h.entry = was.entry /\ h.until = until
  BY <1>2 DEF Holdings
<1>4. /\ DOMAIN db'.held = DOMAIN db.held /\ k \in DOMAIN db.held
       /\ \A j \in DOMAIN db.held : db'.held[j] = IF j = k THEN h ELSE db.held[j]
  <2>1. /\ DOMAIN R!Renew(db, k, now).held = DOMAIN db.held
        /\ \A j \in DOMAIN db.held :
             R!Renew(db, k, now).held[j] = IF j = k /\ R!Alive(db, k, now) THEN [entry |-> db.held[j].entry, until |-> now + Ttl]
                                           ELSE db.held[j]
    BY RenewIs, Zenon DEF Stamps
  <2>2. k \in DOMAIN db.held
    BY DEF R!Alive
  <2>3. [entry |-> db.held[k].entry, until |-> now + Ttl] = h
    BY <1>2, <1>1, Zenon
  <2>. QED
    BY <2>1, <2>2, <2>3, Zenon
<1>5. UsedMap' = [UsedMap EXCEPT ![k] = now]
  <2>1. ASSUME NEW j \in Keys PROVE UsedMap'[j] = [UsedMap EXCEPT ![k] = now][j]
    <3>1. CASE j = k
      <4>1. db'.held[j] = h
        BY <1>4, <3>1
      <4>2. k \in DOMAIN db'.held /\ UsedMap'[j] = h.until - Ttl
        BY <1>4, <3>1, <4>1 DEF UsedMap
      <4>3. [UsedMap EXCEPT ![k] = now][j] = now
        BY <3>1 DEF UsedMap
      <4>4. h.until - Ttl = now
        <5>1. PICK x : x = h.until /\ x = until
          BY <1>3
        <5>2. x - Ttl = now
          BY <1>1, <5>1, TtlAssumption, BoundsAssumption DEF Stamps
        <5>. QED
          BY <5>1, <5>2, Zenon
      <4>. QED
        BY <4>2, <4>3, <4>4, Zenon
    <3>2. CASE j # k
      BY <1>4, <3>2 DEF UsedMap
    <3>. QED
      BY <3>1, <3>2
  <2>. QED
    BY <2>1 DEF UsedMap
<1>6. EntryMap' = EntryMap
  <2>1. ASSUME NEW j \in DOMAIN db.held PROVE db'.held[j].entry = db.held[j].entry
    <3>1. CASE j = k
      BY <1>2, <1>4, <1>3, <3>1
    <3>2. CASE j # k
      BY <1>4, <3>2
    <3>. QED
      BY <3>1, <3>2
  <2>. QED
    BY <1>4, <2>1 DEF EntryMap
<1>7. EntryMap = [j \in Keys |-> EntryMap[j]] /\ [UsedMap EXCEPT ![k] = now] = [j \in Keys |-> [UsedMap EXCEPT ![k] = now][j]]
  BY DEF EntryMap, UsedMap
<1>8. PICK none \in SUBSET Keys : none = {}
  OBVIOUS
<1>9. /\ EntryMap' = [j \in Keys |-> IF j \in none THEN None ELSE EntryMap[j]]
      /\ UsedMap' = [j \in Keys |-> IF j \in none THEN 0 ELSE [UsedMap EXCEPT ![k] = now][j]]
  BY <1>5, <1>6, <1>7, <1>8
<1>. QED
  BY <1>9 DEF Promise!Loses

LEMMA Replaced ==
  ASSUME db \in Dbs, now \in Stamps, NEW k \in Keys, NEW e \in Entries, db'.held = R!Set(db, k, e, now).held
  PROVE  Promise!Loses([EntryMap EXCEPT ![k] = e], [UsedMap EXCEPT ![k] = now])
<1>1. PICK until \in Times : until = now + Ttl
  BY TimesAre DEF Stamps
<1>2. PICK h \in Holdings : h = [entry |-> e, until |-> until]
  BY DEF Holdings
<1>3. h.entry = e /\ h.until = until
  BY <1>2
<1>4. R!Set(db, k, e, now).held = R!Bound(db.held, k, h)
  <2>1. R!Set(db, k, e, now) = [db EXCEPT !.held = R!Bound(db.held, k, h)]
    BY <1>1, <1>2, Zenon DEF R!Set
  <2>. QED
    BY <2>1 DEF Dbs
<1>5. DOMAIN db'.held = DOMAIN db.held \cup {k} /\ \A j \in DOMAIN db'.held : db'.held[j] = IF j = k THEN h ELSE db.held[j]
  BY <1>4 DEF R!Bound
<1>6. UsedMap' = [UsedMap EXCEPT ![k] = now] /\ EntryMap' = [EntryMap EXCEPT ![k] = e]
  <2>1. ASSUME NEW j \in Keys PROVE UsedMap'[j] = [UsedMap EXCEPT ![k] = now][j] /\ EntryMap'[j] = [EntryMap EXCEPT ![k] = e][j]
    <3>1. CASE j = k
      <4>1. k \in DOMAIN db'.held /\ db'.held[k] = h
        BY <1>5
      <4>2. UsedMap'[j] = h.until - Ttl /\ EntryMap'[j] = h.entry
        BY <3>1, <4>1 DEF UsedMap, EntryMap
      <4>3. [UsedMap EXCEPT ![k] = now][j] = now /\ [EntryMap EXCEPT ![k] = e][j] = e
        BY <3>1 DEF UsedMap, EntryMap
      <4>4. h.until - Ttl = now
        <5>1. PICK x : x = h.until /\ x = until
          BY <1>3
        <5>2. x - Ttl = now
          BY <1>1, <5>1, TtlAssumption, BoundsAssumption DEF Stamps
        <5>. QED
          BY <5>1, <5>2, Zenon
      <4>. QED
        BY <1>3, <4>2, <4>3, <4>4, Zenon
    <3>2. CASE j # k
      BY <1>5, <3>2 DEF UsedMap, EntryMap
    <3>. QED
      BY <3>1, <3>2
  <2>. QED
    BY <2>1 DEF UsedMap, EntryMap
<1>7. /\ [EntryMap EXCEPT ![k] = e] = [j \in Keys |-> [EntryMap EXCEPT ![k] = e][j]]
      /\ [UsedMap EXCEPT ![k] = now] = [j \in Keys |-> [UsedMap EXCEPT ![k] = now][j]]
  BY DEF EntryMap, UsedMap
<1>8. PICK none \in SUBSET Keys : none = {}
  OBVIOUS
<1>9. /\ EntryMap' = [j \in Keys |-> IF j \in none THEN None ELSE [EntryMap EXCEPT ![k] = e][j]]
      /\ UsedMap' = [j \in Keys |-> IF j \in none THEN 0 ELSE [UsedMap EXCEPT ![k] = now][j]]
  BY <1>6, <1>7, <1>8
<1>. QED
  BY <1>9 DEF Promise!Loses

(* What Promise is told of a key. *)
LEMMA MapsSay ==
  ASSUME db \in Dbs, now \in Stamps, NEW k \in Keys, R!Alive(db, k, now)
  PROVE  EntryMap[k] = db.held[k].entry /\ EntryMap[k] # None /\ now - UsedMap[k] < Ttl
<1>1. PICK h \in Holdings : h = db.held[k] /\ k \in DOMAIN db.held /\ now < h.until
  BY DbIs DEF R!Alive
<1>2. EntryMap[k] = h.entry /\ UsedMap[k] = h.until - Ttl
  BY <1>1 DEF EntryMap, UsedMap
<1>3. h.entry \in Entries /\ h.until \in Nat
  BY BoundsAssumption, TtlAssumption DEF Holdings, Times, Never
<1>4. now - (h.until - Ttl) < Ttl
  BY <1>1, <1>3, TtlAssumption, BoundsAssumption DEF Stamps
<1>. QED
  BY <1>1, <1>2, <1>3, <1>4, EntriesAssumption

LEMMA GetImplements ==
  ASSUME IInv, NEW k \in Keys, Get(k)
  PROVE  Promise!Get(k)
<1>. DEFINE r == GetRequest(k)
<1>1. db \in Dbs /\ now \in Stamps /\ UNCHANGED now
  BY DEF IInv, Typed, Get
<1>2. r \in Seq(Commands) /\ Len(r) # 0 /\ (\A i \in 2..Len(r) : Aside(r[i])) /\ R!Applied(db, r[1], now) = R!Renew(db, k, now)
  BY <1>1, RequestsOk, GetAsks
<1>3. (Served(r) /\ UNCHANGED lost) \/ Cut(r)
  BY DEF Get
<1>. HIDE DEF r
<1>4. db'.held = R!Renew(db, k, now).held \/ (~Served(r) /\ Cut(r) /\ db'.held = db.held)
  BY <1>1, <1>2, <1>3, SomeServed
<1>5. CASE ~R!Alive(db, k, now)
  <2>1. answer' = None
    BY <1>5 DEF Get
  <2>2. db'.held = db.held
    BY <1>4, <1>5 DEF R!Renew
  <2>. QED
    BY <1>1, <2>1, <2>2, StaysKept DEF Promise!Get
<1>6. CASE R!Alive(db, k, now) /\ db'.held = db.held /\ answer' = None
  BY <1>1, <1>6, StaysKept DEF Promise!Get
<1>7. CASE R!Alive(db, k, now) /\ db'.held = R!Renew(db, k, now).held
  <2>1. EntryMap[k] # None /\ now - UsedMap[k] < Ttl
    BY <1>1, <1>7, MapsSay
  <2>2. answer' \in {EntryMap[k], None}
    BY <1>1, <1>7, MapsSay DEF Get
  <2>3. Promise!Loses(EntryMap, [UsedMap EXCEPT ![k] = now])
    BY <1>1, <1>7, Renewed
  <2>. QED
    BY <1>1, <2>1, <2>2, <2>3, Zenon DEF Promise!Get
<1>8. ~Served(r) => answer' = None
  BY DEF Get, r
<1>. QED
  BY <1>4, <1>5, <1>6, <1>7, <1>8

LEMMA PutImplements ==
  ASSUME IInv, NEW p \in Procs, NEW k \in Keys, NEW e \in Entries, Put(p, k, e)
  PROVE  Promise!Put(k, e)
<1>. DEFINE r == PutRequest(k, e)
<1>1. db \in Dbs /\ now \in Stamps /\ UNCHANGED now /\ answer' = None
  BY DEF IInv, Typed, Put
<1>2. r \in Seq(Commands) /\ Len(r) # 0 /\ (\A i \in 2..Len(r) : Aside(r[i])) /\ R!Applied(db, r[1], now) = R!Set(db, k, e, now)
  BY <1>1, RequestsOk, PutAsks
<1>3. (Served(r) /\ UNCHANGED lost) \/ Cut(r)
  BY DEF Put
<1>. HIDE DEF r
<1>4. db'.held = R!Set(db, k, e, now).held \/ db'.held = db.held
  BY <1>1, <1>2, <1>3, SomeServed
<1>5. CASE db'.held = db.held
  BY <1>1, <1>5, StaysKept DEF Promise!Put
<1>6. CASE db'.held = R!Set(db, k, e, now).held
  BY <1>1, <1>6, Replaced DEF Promise!Put
<1>. QED
  BY <1>4, <1>5, <1>6

LEMMA TrimImplements ==
  ASSUME IInv, NEW t \in Trims, Trim(t)
  PROVE  Promise!Lose
<1>1. UNCHANGED now /\ answer' = None /\ db \in Dbs /\ now \in Stamps
  BY DEF Trim, IInv, Typed
<1>2. CASE UNCHANGED db
  BY <1>1, <1>2, StaysKept DEF Promise!Lose
<1>3. CASE Drop(t)
  <2>1. PICK cs \in Seq(Droppings) : cs = trim[t].drops
    BY DEF IInv, TrimsOk, Trimming
  <2>2. PICK some \in Seq(Droppings) : db' = R!AllApplied(db, some, now)
    <3>1. CASE Served(cs)
      BY <3>1 DEF Served
    <3>2. CASE Cut(cs)
      <4>1. PICK n \in 0..Len(cs) : db' = R!AllApplied(db, SubSeq(cs, 1, n), now)
        BY <3>2 DEF Cut
      <4>. QED
        BY <4>1, SomeOk
    <3>. QED
      BY <1>3, <2>1, <3>1, <3>2 DEF Drop
  <2>3. /\ DOMAIN db'.held = DOMAIN db.held \ Told(some, "DEL")
        /\ \A k \in DOMAIN db'.held : db'.held[k] = db.held[k]
    BY <1>1, <2>2, DropsIs
  <2>4. Promise!Loses(EntryMap, UsedMap)
    BY <2>3, LosesIs, MapsOf
  <2>. QED
    BY <1>1, <2>4 DEF Promise!Lose
<1>. QED
  BY <1>2, <1>3 DEF Trim, List, Measure, Weigh, Fail

(* Every get answers with what was last put under its key, if it was put or
   read within the ttl, or with nothing, whatever the trims of all processes
   drop and whichever commands of a request a lost connection has served. *)
THEOREM Implements == Spec => ImplementsPromise
<1>1. Init => Promise!Init
  BY DEF Init, Promise!Init, EntryMap, UsedMap, R!EmptyDb, R!Missing
<1>2. IInv /\ [Next]_vars => [Promise!Next]_(Promise!vars)
  <2>. SUFFICES ASSUME IInv, [Next]_vars PROVE [Promise!Next]_(Promise!vars)
    OBVIOUS
  <2>1. CASE UNCHANGED vars
    BY <2>1 DEF vars, Promise!vars, EntryMap, UsedMap
  <2>2. CASE Tick
    <3>1. db'.held = db.held
      BY <2>2, RunOutOk DEF Tick, IInv, Typed
    <3>2. EntryMap' = EntryMap /\ UsedMap' = UsedMap
      BY <3>1 DEF EntryMap, UsedMap
    <3>. QED
      BY <2>2, <3>2 DEF Tick, Promise!Next, Promise!Tick
  <2>3. ASSUME NEW t \in Trims, Trim(t) PROVE Promise!Lose
    BY <2>3, TrimImplements
  <2>4. ASSUME NEW k \in Keys, Get(k) PROVE Promise!Get(k)
    BY <2>4, GetImplements
  <2>5. ASSUME NEW p \in Procs, NEW k \in Keys, NEW e \in Entries, Put(p, k, e) PROVE Promise!Put(k, e)
    BY <2>5, PutImplements
  <2>. QED
    BY <2>1, <2>2, <2>3, <2>4, <2>5 DEF Next, Promise!Next
<1>. QED
  BY <1>1, <1>2, Inductive, PTL DEF Spec, ImplementsPromise, Promise!Spec
=============================================================================
