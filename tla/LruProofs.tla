----------------------------- MODULE LruProofs -----------------------------
(***************************************************************************)
(* Proofs about LruBySize, for any keys, values and budget: the order, the *)
(* index and the count stay one list, whatever is kept, found and erased,  *)
(* and the eviction takes the end of the order, as much as it needs.       *)
(***************************************************************************)
EXTENDS LruBySize, FiniteSets, FiniteSetsExt, FiniteSetTheorems, WellFoundedInduction, SequenceTheorems, TLAPS

(* Of some numbers one is the least. *)
LEMMA NatLeast ==
  ASSUME NEW T \in SUBSET Nat, T # {}
  PROVE  \E x \in T : \A y \in T : x <= y
<1>. DEFINE F == {0..n : n \in T}
<1>1. \A n \in Nat : 0..n \in FiniteSubsetsOf(Nat)
  BY FS_Interval DEF FiniteSubsetsOf
<1>2. F \subseteq FiniteSubsetsOf(Nat) /\ F # {}
  BY <1>1
<1>3. IsWellFoundedOn(StrictSubsetOrdering(Nat), FiniteSubsetsOf(Nat))
  BY FS_StrictSubsetOrderingWellFounded
<1>. HIDE DEF F
<1>4. PICK X \in F : \A Y \in F : ~ (<<Y, X>> \in StrictSubsetOrdering(Nat))
  BY <1>2, <1>3, WFMin
<1>5. PICK x \in T : X = 0..x
  BY <1>4 DEF F
<1>6. ASSUME NEW y \in T, y < x PROVE FALSE
  <2>1. 0..y \in F /\ 0..y \in SUBSET Nat /\ 0..x \in SUBSET Nat
    BY DEF F
  <2>2. 0..y \subseteq 0..x /\ 0..y # 0..x
    BY <1>6
  <2>. QED
    BY <1>4, <1>5, <2>1, <2>2 DEF StrictSubsetOrdering
<1>. QED
  BY <1>6

(* A set with 0 and every successor holds every number. *)
LEMMA NatSetInduction ==
  ASSUME NEW S \in SUBSET Nat, 0 \in S, \A n \in S : n + 1 \in S
  PROVE  S = Nat
<1>. SUFFICES ASSUME Nat \ S # {} PROVE FALSE
  OBVIOUS
<1>1. PICK x \in Nat \ S : \A y \in Nat \ S : x <= y
  BY NatLeast
<1>2. x # 0 /\ x - 1 \in Nat
  BY <1>1
<1>3. x - 1 \in S
  BY <1>1, <1>2
<1>4. QED
  BY <1>1, <1>2, <1>3

(* A function follows from what it is at 0, and from each step to the next. *)
Iterates(f, base, step, N) == f[0] = base /\ \A t \in 1..N : f[t] = step[t][f[t - 1]]

(* A function that is defined by what it is at 0 and by a step exists. *)
LEMMA Recursion ==
  ASSUME NEW S, NEW base \in S, NEW step \in [Nat -> [S -> S]], NEW N \in Nat
  PROVE  \E f \in [0..N -> S] : Iterates(f, base, step, N)
<1>. DEFINE Upto(f, n) == f[0] = base /\ \A t \in 1..n : f[t] = step[t][f[t - 1]]
            Ends == {n \in Nat : \E f \in [0..n -> S] : Upto(f, n)}
<1>1. 0 \in Ends
  <2>1. [t \in 0..0 |-> base] \in [0..0 -> S] /\ Upto([t \in 0..0 |-> base], 0)
    OBVIOUS
  <2>. QED
    BY <2>1
<1>2. ASSUME NEW n \in Ends PROVE n + 1 \in Ends
  <2>1. PICK f \in [0..n -> S] : Upto(f, n)
    OBVIOUS
  <2>. DEFINE g == [t \in 0..n + 1 |-> IF t = n + 1 THEN step[n + 1][f[n]] ELSE f[t]]
  <2>2. n \in Nat /\ f[n] \in S /\ step[n + 1][f[n]] \in S
    OBVIOUS
  <2>3. g \in [0..n + 1 -> S]
    BY <2>2
  <2>4. g[0] = base
    BY <2>1, <2>2
  <2>5. ASSUME NEW t \in 1..n + 1 PROVE g[t] = step[t][g[t - 1]]
    <3>1. CASE t = n + 1
      <4>1. g[n + 1] = step[n + 1][f[n]] /\ (n + 1) - 1 = n
        BY <2>2
      <4>2. g[n] = f[n]
        BY <2>2
      <4>. HIDE DEF g
      <4>. QED
        BY <3>1, <4>1, <4>2
    <3>2. CASE t # n + 1
      <4>1. t \in 1..n /\ t - 1 \in 0..n
        BY <2>2, <3>2
      <4>2. g[t] = f[t] /\ g[t - 1] = f[t - 1]
        BY <2>2, <4>1
      <4>. HIDE DEF g
      <4>. QED
        BY <2>1, <4>1, <4>2
    <3>. QED
      BY <3>1, <3>2
  <2>. HIDE DEF g
  <2>6. n + 1 \in Nat /\ Upto(g, n + 1)
    BY <2>2, <2>4, <2>5
  <2>. HIDE DEF Upto
  <2>. QED
    BY <2>3, <2>6
<1>3. Ends = Nat
  <2>. HIDE DEF Ends
  <2>1. Ends \in SUBSET Nat
    BY DEF Ends
  <2>. QED
    BY <1>1, <1>2, <2>1, NatSetInduction
<1>. QED
  BY <1>3 DEF Iterates
-----------------------------------------------------------------------------
(* A family of subsets with the empty one, and with each one element more, *)
(* has the whole set.                                                      *)
LEMMA SetInduction ==
  ASSUME NEW D, IsFiniteSet(D), NEW P \in SUBSET SUBSET D, {} \in P,
         \A A \in P : \A x \in D \ A : A \cup {x} \in P
  PROVE  D \in P
<1>. DEFINE T == {Cardinality(D \ A) : A \in P}
<1>1. ASSUME NEW A \in P PROVE IsFiniteSet(D \ A) /\ Cardinality(D \ A) \in Nat
  BY FS_Difference, FS_CardinalityType
<1>2. T \in SUBSET Nat /\ T # {}
  BY <1>1
<1>3. PICK n \in T : \A m \in T : n <= m
  <2>. HIDE DEF T
  <2>. QED
    BY <1>2, NatLeast
<1>4. PICK A \in P : n = Cardinality(D \ A)
  BY <1>3
<1>5. ASSUME NEW x \in D \ A PROVE FALSE
  <2>1. A \cup {x} \in P /\ D \ (A \cup {x}) = (D \ A) \ {x}
    BY <1>5
  <2>2. Cardinality((D \ A) \ {x}) = Cardinality(D \ A) - 1
    BY <1>1, <1>4, <1>5, FS_RemoveElement
  <2>3. Cardinality((D \ A) \ {x}) \in T
    BY <2>1
  <2>4. n \in Nat /\ n - 1 \in T
    BY <1>1, <1>4, <2>2, <2>3
  <2>. HIDE DEF T
  <2>. QED
    BY <1>3, <2>4
<1>6. D = A
  BY <1>4, <1>5
<1>. QED
  BY <1>4, <1>6
-----------------------------------------------------------------------------
(* The sums g of the weights w over the subsets of D.                      *)
Additive(g, w, D) ==
  /\ g \in [SUBSET D -> Nat]
  /\ g[{}] = 0
  /\ \A s \in SUBSET D : \A x \in s : g[s] = w[x] + g[s \ {x}]

LEMMA SumsExist ==
  ASSUME NEW D, IsFiniteSet(D), NEW w \in [D -> Nat]
  PROVE  \E g : Additive(g, w, D)
<1>. DEFINE P == {A \in SUBSET D : \E g : Additive(g, w, A)}
<1>1. {} \in P
  <2>. DEFINE zero == [s \in SUBSET {} |-> 0]
  <2>1. \A s \in SUBSET {} : s = {}
    OBVIOUS
  <2>2. Additive(zero, w, {})
    BY <2>1 DEF Additive
  <2>. QED
    BY <2>2
<1>2. ASSUME NEW A \in P, NEW x \in D \ A PROVE A \cup {x} \in P
  <2>1. PICK g : Additive(g, w, A)
    OBVIOUS
  <2>. DEFINE B == A \cup {x}
              h == [s \in SUBSET B |-> IF x \in s THEN w[x] + g[s \ {x}] ELSE g[s]]
  <2>2. w[x] \in Nat /\ \A s \in SUBSET A : g[s] \in Nat
    BY <2>1 DEF Additive
  <2>3. \A s \in SUBSET B : s \ {x} \in SUBSET A /\ (x \notin s => s \in SUBSET A)
    OBVIOUS
  <2>4. h \in [SUBSET B -> Nat] /\ h[{}] = 0
    BY <2>1, <2>2, <2>3 DEF Additive
  <2>5. ASSUME NEW s \in SUBSET B, NEW y \in s PROVE h[s] = w[y] + h[s \ {y}]
    <3>1. s \ {y} \in SUBSET B /\ h[s] = (IF x \in s THEN w[x] + g[s \ {x}] ELSE g[s])
          /\ h[s \ {y}] = (IF x \in s \ {y} THEN w[x] + g[(s \ {y}) \ {x}] ELSE g[s \ {y}])
      OBVIOUS
    <3>. HIDE DEF h
    <3>2. CASE y = x
      BY <3>1, <3>2
    <3>3. CASE y # x /\ x \in s
      <4>1. y \in s \ {x} /\ (s \ {y}) \ {x} = (s \ {x}) \ {y} /\ s \ {x} \in SUBSET A
            /\ (s \ {x}) \ {y} \in SUBSET A /\ y \in D
        BY <3>3
      <4>2. g[s \ {x}] = w[y] + g[(s \ {x}) \ {y}] /\ w[y] \in Nat
        BY <2>1, <4>1 DEF Additive
      <4>3. h[s \ {y}] = w[x] + g[(s \ {x}) \ {y}] /\ h[s] = w[x] + g[s \ {x}]
        BY <3>1, <3>3, <4>1
      <4>4. g[(s \ {x}) \ {y}] \in Nat
        BY <2>2, <4>1
      <4>. QED
        BY <2>2, <4>2, <4>3, <4>4
    <3>4. CASE x \notin s
      <4>1. s \in SUBSET A
        BY <3>4
      <4>. QED
        BY <2>1, <3>1, <3>4, <4>1 DEF Additive
    <3>. QED
      BY <3>2, <3>3, <3>4
  <2>. HIDE DEF h
  <2>6. Additive(h, w, B)
    BY <2>4, <2>5 DEF Additive
  <2>. QED
    BY <2>6
<1>. HIDE DEF P
<1>3. D \in P
  <2>1. P \in SUBSET SUBSET D
    BY DEF P
  <2>. QED
    BY <1>1, <1>2, <2>1, SetInduction
<1>. QED
  BY <1>3 DEF P

(* A sum that takes out one element at a time, any that it likes.          *)
Takes(h, w, s) == IF s = {} THEN h[s] = 0 ELSE \E x \in s : h[s] = w[x] + h[s \ {x}]

LEMMA SumsAgree ==
  ASSUME NEW D, IsFiniteSet(D), NEW w \in [D -> Nat], NEW g, Additive(g, w, D), NEW h,
         \A s \in SUBSET D : Takes(h, w, s)
  PROVE  \A s \in SUBSET D : h[s] = g[s]
<1>. DEFINE size(s) == Cardinality(s)
            T == {size(s) : s \in {s \in SUBSET D : h[s] # g[s]}}
<1>1. ASSUME NEW s \in SUBSET D PROVE IsFiniteSet(s) /\ size(s) \in Nat
  BY FS_Subset, FS_CardinalityType
<1>2. SUFFICES ASSUME T # {} PROVE FALSE
  OBVIOUS
<1>3. PICK n \in T : \A m \in T : n <= m
  <2>1. T \in SUBSET Nat
    BY <1>1
  <2>. HIDE DEF T
  <2>. QED
    BY <1>2, <2>1, NatLeast
<1>4. PICK s \in SUBSET D : h[s] # g[s] /\ n = size(s)
  BY <1>3
<1>5. PICK x \in s : h[s] = w[x] + h[s \ {x}]
  BY <1>4 DEF Additive, Takes
<1>6. size(s \ {x}) = n - 1 /\ n \in Nat /\ s \ {x} \in SUBSET D
  BY <1>1, <1>4, FS_RemoveElement
<1>7. h[s \ {x}] = g[s \ {x}]
  <2>1. h[s \ {x}] # g[s \ {x}] => n - 1 \in T
    BY <1>6
  <2>. HIDE DEF T
  <2>. QED
    BY <1>3, <1>6, <2>1
<1>. QED
  BY <1>4, <1>5, <1>7 DEF Additive
-----------------------------------------------------------------------------
(* What a function's values come to. *)
Total(w) == MapThenSumSet(LAMBDA k : w[k], DOMAIN w)

LEMMA TotalIs ==
  ASSUME NEW D, IsFiniteSet(D), NEW w \in [D -> Nat], NEW g, Additive(g, w, D)
  PROVE  Total(w) = g[D]
<1>. DEFINE Sums(iter) == iter = [s \in SUBSET D |-> IF s = {} THEN 0 ELSE LET x == CHOOSE x \in s : TRUE IN w[x] + iter[s \ {x}]]
            iter == CHOOSE iter : Sums(iter)
<1>1. Total(w) = iter[D]
  BY DEF Total, MapThenSumSet, MapThenFoldSet
<1>2. Sums(g)
  <2>1. ASSUME NEW s \in SUBSET D, s # {} PROVE g[s] = LET x == CHOOSE x \in s : TRUE IN w[x] + g[s \ {x}]
    BY <2>1 DEF Additive
  <2>. QED
    BY <2>1 DEF Additive
<1>. HIDE DEF Sums
<1>3. Sums(iter)
  BY <1>2
<1>. HIDE DEF iter
<1>4. ASSUME NEW s \in SUBSET D
      PROVE  Takes(iter, w, s)
  <2>1. CASE s = {}
    BY <1>3, <2>1 DEF Sums, Takes
  <2>2. CASE s # {}
    <3>. DEFINE x == CHOOSE x \in s : TRUE
    <3>1. x \in s
      BY <2>2
    <3>2. iter[s] = w[x] + iter[s \ {x}]
      BY <1>3, <2>2 DEF Sums
    <3>. QED
      BY <2>2, <3>1, <3>2 DEF Takes
  <2>. QED
    BY <2>1, <2>2
<1>5. iter[D] = g[D]
  BY <1>4, SumsAgree
<1>. QED
  BY <1>1, <1>5

LEMMA TotalNat ==
  ASSUME NEW D, IsFiniteSet(D), NEW w \in [D -> Nat]
  PROVE  Total(w) \in Nat
<1>1. PICK g : Additive(g, w, D)
  BY SumsExist
<1>2. g[D] \in Nat
  BY <1>1 DEF Additive
<1>. QED
  BY <1>1, <1>2, TotalIs

LEMMA TotalNothing ==
  ASSUME NEW w \in [{} -> Nat]
  PROVE  Total(w) = 0
<1>1. IsFiniteSet({})
  BY FS_EmptySet
<1>2. PICK g : Additive(g, w, {})
  BY <1>1, SumsExist
<1>. QED
  BY <1>1, <1>2, TotalIs DEF Additive

(* One key is taken out: its value is what the total loses.                *)
Dropped(w, k) == [j \in DOMAIN w \ {k} |-> w[j]]

LEMMA TotalDropped ==
  ASSUME NEW D, IsFiniteSet(D), NEW w \in [D -> Nat], NEW k \in D
  PROVE  Total(w) = w[k] + Total(Dropped(w, k))
<1>. DEFINE E == D \ {k}
            v == Dropped(w, k)
<1>1. IsFiniteSet(E) /\ v \in [E -> Nat] /\ \A j \in E : v[j] = w[j]
  BY FS_RemoveElement DEF Dropped
<1>2. PICK g : Additive(g, w, D)
  BY SumsExist
<1>. DEFINE h == [s \in SUBSET E |-> g[s]]
<1>3. Additive(h, v, E)
  <2>1. h \in [SUBSET E -> Nat] /\ h[{}] = 0
    BY <1>2 DEF Additive
  <2>2. ASSUME NEW s \in SUBSET E, NEW x \in s PROVE h[s] = v[x] + h[s \ {x}]
    <3>1. h[s] = g[s] /\ h[s \ {x}] = g[s \ {x}] /\ v[x] = w[x] /\ s \in SUBSET D
      BY <1>1
    <3>. HIDE DEF h, v
    <3>. QED
      BY <1>2, <3>1 DEF Additive
  <2>. HIDE DEF h, v, E
  <2>. QED
    BY <2>1, <2>2 DEF Additive
<1>4. Total(v) = h[E] /\ h[E] = g[E]
  <2>1. h[E] = g[E]
    OBVIOUS
  <2>. HIDE DEF h, v, E
  <2>. QED
    BY <1>1, <1>3, <2>1, TotalIs
<1>5. Total(w) = g[D]
  BY <1>2, TotalIs
<1>6. g[D] = w[k] + g[E]
  BY <1>2 DEF Additive
<1>. QED
  BY <1>1, <1>4, <1>5, <1>6

LEMMA DroppedFits ==
  ASSUME NEW D, IsFiniteSet(D), NEW w \in [D -> Nat], NEW k
  PROVE  IsFiniteSet(D \ {k}) /\ Dropped(w, k) \in [D \ {k} -> Nat]
<1>1. IsFiniteSet(D \ {k})
  BY FS_Subset, D \ {k} \subseteq D
<1>. QED
  BY <1>1 DEF Dropped

(* One key gets a value, whatever it had before.                           *)
Given(w, k, n) == [j \in DOMAIN w \cup {k} |-> IF j = k THEN n ELSE w[j]]

LEMMA TotalGiven ==
  ASSUME NEW D, IsFiniteSet(D), NEW w \in [D -> Nat], NEW k, NEW n \in Nat
  PROVE  Total(Given(w, k, n)) = n + Total(Dropped(w, k))
<1>. DEFINE E == D \cup {k}
            v == Given(w, k, n)
<1>1. IsFiniteSet(E) /\ v \in [E -> Nat] /\ v[k] = n /\ k \in E
  BY FS_AddElement DEF Given
<1>2. Dropped(v, k) = Dropped(w, k)
  BY DEF Dropped, Given
<1>. HIDE DEF E, v
<1>3. Total(v) = v[k] + Total(Dropped(v, k))
  BY <1>1, TotalDropped
<1>. QED
  BY <1>1, <1>2, <1>3 DEF E, v

(* A key that is not there is not missed.                                  *)
LEMMA TotalStays ==
  ASSUME NEW D, NEW w \in [D -> Nat], NEW k, k \notin D
  PROVE  Dropped(w, k) = w
BY DEF Dropped

(* Keys that come to nothing add nothing.                                  *)
Padded(w, K) == [k \in K |-> IF k \in DOMAIN w THEN w[k] ELSE 0]

LEMMA TotalPadded ==
  ASSUME NEW D, NEW w \in [D -> Nat], NEW K, IsFiniteSet(K), D \subseteq K
  PROVE  Total(Padded(w, K)) = Total(w)
<1>. DEFINE more == K \ D
            P == {A \in SUBSET more : Total(Padded(w, D \cup A)) = Total(w)}
<1>1. IsFiniteSet(D) /\ IsFiniteSet(more)
  BY FS_Subset
<1>2. {} \in P
  <2>1. Padded(w, D \cup {}) = w
    BY DEF Padded
  <2>. QED
    BY <2>1
<1>3. ASSUME NEW A \in P, NEW x \in more \ A PROVE A \cup {x} \in P
  <2>. DEFINE B == D \cup A
              v == Padded(w, B)
  <2>1. IsFiniteSet(B) /\ v \in [B -> Nat] /\ x \notin B
    <3>1. B \subseteq K
      OBVIOUS
    <3>2. IsFiniteSet(B)
      BY <3>1, FS_Subset
    <3>3. v \in [B -> Nat]
      BY DEF Padded
    <3>. QED
      BY <3>2, <3>3
  <2>2. Padded(w, D \cup (A \cup {x})) = Given(v, x, 0)
    BY DEF Padded, Given
  <2>3. Total(v) = Total(w)
    OBVIOUS
  <2>. HIDE DEF B, v
  <2>4. Total(Given(v, x, 0)) = 0 + Total(Dropped(v, x))
    BY <2>1, TotalGiven
  <2>5. Dropped(v, x) = v
    BY <2>1, TotalStays
  <2>6. Total(v) \in Nat
    BY <2>1, TotalNat
  <2>. QED
    BY <2>2, <2>3, <2>4, <2>5, <2>6
<1>. HIDE DEF P
<1>4. P \in SUBSET SUBSET more
  BY DEF P
<1>5. more \in P
  BY <1>1, <1>2, <1>3, <1>4, SetInduction
<1>6. D \cup more = K
  OBVIOUS
<1>. QED
  BY <1>5, <1>6 DEF P
-----------------------------------------------------------------------------


(* The order of a list, each key in it once.                               *)
Once(order) == \A i, j \in DOMAIN order : order[i] = order[j] => i = j
KeysOf(order) == {order[i] : i \in DOMAIN order}
IsOrder(order, K) == order \in Seq(K) /\ Once(order) /\ KeysOf(order) = K

NodeSizes(node) == [k \in DOMAIN node |-> node[k].size]

(* A node for each key, and the count of what they weigh.                  *)
IsIndex(node, V) == node \in [DOMAIN node -> [value : V, size : Nat]]
IsList(lru, V) ==
  /\ lru = [order |-> lru.order, node |-> lru.node, held |-> lru.held]
  /\ IsIndex(lru.node, V)
  /\ IsOrder(lru.order, DOMAIN lru.node)
  /\ lru.held = Total(NodeSizes(lru.node))

(* The first n keys of an order, and what they weigh.                      *)
Firsts(order, n) == {order[i] : i \in 1..n}
FirstWeights(order, w, n) == [k \in Firsts(order, n) |-> w[k]]
-----------------------------------------------------------------------------
(* A sum over the places of an order is the sum over the keys in them.     *)
LEMMA TotalOfPlaces ==
  ASSUME NEW D, NEW w \in [D -> Nat], NEW order \in Seq(D), Once(order), NEW n \in 0..Len(order)
  PROVE  /\ IsFiniteSet(Firsts(order, n))
         /\ Total([i \in 1..n |-> w[order[i]]]) = Total(FirstWeights(order, w, n))
<1>. DEFINE places(m) == [i \in 1..m |-> w[order[i]]]
            keys(m) == FirstWeights(order, w, m)
            Agree(m) == IsFiniteSet(Firsts(order, m)) /\ Total(places(m)) = Total(keys(m))
            S == {m \in Nat : m <= Len(order) => Agree(m)}
<1>1. 0 \in S
  <2>1. places(0) \in [{} -> Nat] /\ keys(0) \in [{} -> Nat]
    BY DEF FirstWeights, Firsts
  <2>2. Total(places(0)) = 0 /\ Total(keys(0)) = 0
    <3>. HIDE DEF places, keys
    <3>. QED
      BY <2>1, TotalNothing
  <2>3. Firsts(order, 0) = {}
    BY DEF Firsts
  <2>. QED
    BY <2>2, <2>3, FS_EmptySet
<1>2. ASSUME NEW m \in S PROVE m + 1 \in S
  <2>. SUFFICES ASSUME m + 1 <= Len(order) PROVE Agree(m + 1)
    OBVIOUS
  <2>1. m \in Nat /\ m <= Len(order) /\ Len(order) \in Nat /\ DOMAIN order = 1..Len(order)
        /\ \A i \in 1..Len(order) : order[i] \in D
    OBVIOUS
  <2>2. IsFiniteSet(Firsts(order, m)) /\ Total(places(m)) = Total(keys(m))
    BY <2>1
  <2>. DEFINE k == order[m + 1]
  <2>3. IsFiniteSet(1..m + 1)
    BY <2>1, FS_Interval
  <2>11. places(m + 1) \in [1..m + 1 -> Nat] /\ m + 1 \in 1..m + 1 /\ places(m + 1)[m + 1] = w[k]
    BY <2>1
  <2>4. Dropped(places(m + 1), m + 1) = places(m)
    <3>1. (1..m + 1) \ {m + 1} = 1..m
      BY <2>1
    <3>. QED
      BY <2>1, <3>1 DEF Dropped
  <2>5. Firsts(order, m + 1) = Firsts(order, m) \cup {k} /\ k \notin Firsts(order, m)
    <3>1. 1..m + 1 = 1..m \cup {m + 1}
      BY <2>1
    <3>2. Firsts(order, m + 1) = Firsts(order, m) \cup {k}
      BY <3>1 DEF Firsts
    <3>3. \A i \in 1..m : i \in DOMAIN order /\ m + 1 \in DOMAIN order /\ i # m + 1
      BY <2>1
    <3>4. \A i \in 1..m : order[i] # k
      BY <3>3 DEF Once
    <3>5. k \notin Firsts(order, m)
      BY <3>4 DEF Firsts
    <3>. QED
      BY <3>2, <3>5
  <2>6. IsFiniteSet(Firsts(order, m + 1))
    BY <2>2, <2>5, FS_AddElement, SMTT(30)
  <2>7. keys(m + 1) \in [Firsts(order, m + 1) -> Nat] /\ k \in Firsts(order, m + 1)
        /\ keys(m + 1)[k] = w[k]
    <3>1. Firsts(order, m + 1) \subseteq D
      BY <2>1 DEF Firsts
    <3>. QED
      BY <2>5, <3>1 DEF FirstWeights
  <2>8. Dropped(keys(m + 1), k) = keys(m)
    <3>1. Firsts(order, m + 1) \ {k} = Firsts(order, m)
      BY <2>5
    <3>. QED
      BY <3>1 DEF Dropped, FirstWeights
  <2>. HIDE DEF places, keys, k
  <2>9. Total(places(m + 1)) = w[k] + Total(places(m))
    BY <2>3, <2>4, <2>11, TotalDropped
  <2>10. Total(keys(m + 1)) = w[k] + Total(keys(m))
    BY <2>6, <2>7, <2>8, TotalDropped
  <2>. QED
    BY <2>2, <2>6, <2>9, <2>10
<1>3. S = Nat
  <2>. HIDE DEF S
  <2>1. S \in SUBSET Nat
    BY DEF S
  <2>. QED
    BY <1>1, <1>2, <2>1, NatSetInduction
<1>. HIDE DEF Agree
<1>4. n \in S /\ n <= Len(order)
  BY <1>3
<1>5. Agree(n)
  BY <1>4
<1>. QED
  BY <1>5 DEF Agree

(* A list weighs what its nodes do, and its first keys what theirs do.     *)
LEMMA SizesOfNodes ==
  ASSUME NEW V, NEW node, IsIndex(node, V)
  PROVE  NodeSizes(node) \in [DOMAIN node -> Nat] /\ \A k \in DOMAIN node : NodeSizes(node)[k] = node[k].size
BY DEF IsIndex, NodeSizes

LEMMA SumIs ==
  ASSUME NEW w
  PROVE  SumFunction(w) = Total(w)
BY DEF SumFunction, SumFunctionOnSet, FoldFunctionOnSet, Total, MapThenSumSet, MapThenFoldSet

LEMMA WeightIs ==
  ASSUME NEW V, NEW lru, IsIndex(lru.node, V), IsOrder(lru.order, DOMAIN lru.node), NEW n \in 0..Len(lru.order)
  PROVE  /\ IsFiniteSet(Firsts(lru.order, n))
         /\ FirstWeights(lru.order, NodeSizes(lru.node), n) \in [Firsts(lru.order, n) -> Nat]
         /\ Weight(lru, n) = Total(FirstWeights(lru.order, NodeSizes(lru.node), n))
<1>. DEFINE D == DOMAIN lru.node
            w == NodeSizes(lru.node)
<1>1. w \in [D -> Nat] /\ \A k \in D : w[k] = lru.node[k].size
  BY SizesOfNodes
<1>2. lru.order \in Seq(D) /\ Once(lru.order)
  BY DEF IsOrder
<1>3. \A i \in 1..n : lru.order[i] \in D
  BY <1>2
<1>4. [i \in 1..n |-> lru.node[lru.order[i]].size] = [i \in 1..n |-> w[lru.order[i]]]
  BY <1>1, <1>3
<1>5. Weight(lru, n) = Total([i \in 1..n |-> w[lru.order[i]]])
  BY <1>4, SumIs DEF Weight
<1>6. FirstWeights(lru.order, w, n) \in [Firsts(lru.order, n) -> Nat]
  BY <1>1, <1>3 DEF FirstWeights, Firsts
<1>7. /\ IsFiniteSet(Firsts(lru.order, n))
      /\ Total([i \in 1..n |-> w[lru.order[i]]]) = Total(FirstWeights(lru.order, w, n))
  <2>. HIDE DEF D, w
  <2>1. w \in [D -> Nat] /\ lru.order \in Seq(D) /\ Once(lru.order) /\ n \in 0..Len(lru.order)
    BY <1>1, <1>2
  <2>. QED
    BY <2>1, TotalOfPlaces, ZenonT(60)
<1>. QED
  BY <1>5, <1>6, <1>7
-----------------------------------------------------------------------------
(* The keys of an order but one.  What a place of the rest holds was in    *)
(* the same place before, or in the next.                                  *)
Skipping(order, p) == [i \in 1..Len(order) - 1 |-> order[IF i < p THEN i ELSE i + 1]]

LEMMA UnlinkedIs ==
  ASSUME NEW K, NEW order, IsOrder(order, K), NEW k \in K
  PROVE  \E p \in 1..Len(order) : order[p] = k /\ Unlinked(order, k) = Skipping(order, p)
<1>. DEFINE p == CHOOSE i \in DOMAIN order : order[i] = k
            n == Len(order)
<1>1. order \in Seq(K) /\ DOMAIN order = 1..n /\ n \in Nat
  BY DEF IsOrder
<1>2. \E i \in DOMAIN order : order[i] = k
  BY DEF IsOrder, KeysOf
<1>3. p \in 1..n /\ order[p] = k
  BY <1>1, <1>2
<1>4. Unlinked(order, k) = SubSeq(order, 1, p - 1) \o SubSeq(order, p + 1, n)
  BY DEF Unlinked, RemoveAt
<1>. HIDE DEF p
<1>5. SubSeq(order, 1, p - 1) \in Seq(K) /\ Len(SubSeq(order, 1, p - 1)) = p - 1
      /\ \A i \in 1..p - 1 : SubSeq(order, 1, p - 1)[i] = order[i]
  BY <1>1, <1>3
<1>6. SubSeq(order, p + 1, n) \in Seq(K) /\ Len(SubSeq(order, p + 1, n)) = n - p
      /\ \A i \in 1..n - p : SubSeq(order, p + 1, n)[i] = order[i + p]
  <2>1. \A i \in (p + 1)..n : order[i] \in K
    BY <1>1, <1>3
  <2>2. SubSeq(order, p + 1, n) \in Seq(K)
        /\ Len(SubSeq(order, p + 1, n)) = (IF p + 1 <= n THEN n - (p + 1) + 1 ELSE 0)
        /\ \A i \in 1..n - (p + 1) + 1 : SubSeq(order, p + 1, n)[i] = order[(p + 1) + i - 1]
    <3>. HIDE DEF n
    <3>. QED
      BY <1>1, <1>3, <2>1, SubSeqProperties
  <2>3. n - (p + 1) + 1 = n - p /\ \A i \in 1..n - p : (p + 1) + i - 1 = i + p
    BY <1>1, <1>3
  <2>. HIDE DEF n
  <2>4. (IF p + 1 <= n THEN n - (p + 1) + 1 ELSE 0) = n - p
    <3>1. p \in Int /\ n \in Int /\ p <= n
      BY <1>1, <1>3
    <3>. QED
      BY <3>1
  <2>. QED
    BY <2>2, <2>3, <2>4
<1>. DEFINE a == SubSeq(order, 1, p - 1)
            b == SubSeq(order, p + 1, n)
<1>. HIDE DEF a, b, n
<1>7. a \o b \in Seq(K) /\ Len(a \o b) = n - 1
      /\ \A i \in 1..n - 1 : (a \o b)[i] = IF i < p THEN a[i] ELSE b[i - (p - 1)]
  BY <1>1, <1>3, <1>5, <1>6 DEF a, b
<1>8. ASSUME NEW i \in 1..n - 1 PROVE (a \o b)[i] = order[IF i < p THEN i ELSE i + 1]
  <2>1. CASE i < p
    BY <1>1, <1>3, <1>5, <1>7, <2>1 DEF a
  <2>2. CASE ~(i < p)
    <3>1. i - (p - 1) \in 1..n - p /\ (i - (p - 1)) + p = i + 1
      BY <1>1, <1>3, <2>2
    <3>. QED
      BY <1>1, <1>3, <1>6, <1>7, <2>2, <3>1 DEF b
  <2>. QED
    BY <2>1, <2>2
<1>9. a \o b = [i \in 1..n - 1 |-> (a \o b)[i]]
  <2>1. \A s \in Seq(K) : s = [i \in 1..Len(s) |-> s[i]]
    OBVIOUS
  <2>. QED
    BY <1>7, <2>1
<1>10. a \o b = Skipping(order, p)
  BY <1>8, <1>9 DEF Skipping, n
<1>. QED
  BY <1>3, <1>4, <1>10 DEF a, b, n

LEMMA UnlinkedOk ==
  ASSUME NEW K, NEW order, IsOrder(order, K), NEW k \in K
  PROVE  IsOrder(Unlinked(order, k), K \ {k}) /\ Len(Unlinked(order, k)) = Len(order) - 1
<1>1. PICK p \in 1..Len(order) : order[p] = k /\ Unlinked(order, k) = Skipping(order, p)
  BY UnlinkedIs
<1>2. order \in Seq(K) /\ DOMAIN order = 1..Len(order) /\ Len(order) \in Nat /\ Once(order) /\ KeysOf(order) = K
  BY DEF IsOrder
<1>. DEFINE at(i) == IF i < p THEN i ELSE i + 1
            rest == Skipping(order, p)
<1>3. \A i \in 1..Len(order) - 1 : at(i) \in DOMAIN order /\ at(i) # p
  BY <1>2
<1>4. \A i \in 1..Len(order) - 1 : rest[i] = order[at(i)] /\ rest[i] \in K \ {k}
  BY <1>1, <1>2, <1>3, SMTT(30) DEF Skipping, Once
<1>5. rest \in [1..Len(order) - 1 -> K \ {k}] /\ Len(order) - 1 \in Nat
  BY <1>2, <1>4 DEF Skipping
<1>6. rest \in Seq(K \ {k}) /\ Len(rest) = Len(order) - 1 /\ DOMAIN rest = 1..Len(order) - 1
  BY <1>5
<1>7. Once(rest)
  <2>1. ASSUME NEW i \in 1..Len(order) - 1, NEW j \in 1..Len(order) - 1, order[at(i)] = order[at(j)] PROVE i = j
    <3>1. at(i) = at(j)
      BY <1>2, <1>3, <2>1 DEF Once
    <3>. QED
      BY <3>1
  <2>. HIDE DEF rest, at
  <2>. QED
    BY <1>4, <1>6, <2>1 DEF Once
<1>8. ASSUME NEW j \in K \ {k} PROVE \E i \in 1..Len(order) - 1 : rest[i] = j
  <2>1. PICK q \in DOMAIN order : order[q] = j
    BY <1>2 DEF KeysOf
  <2>2. q # p
    BY <1>1, <2>1
  <2>3. CASE q < p
    <3>1. q \in 1..Len(order) - 1 /\ at(q) = q
      BY <1>2, <2>1, <2>3
    <3>. QED
      BY <1>4, <2>1, <3>1
  <2>4. CASE q > p
    <3>1. q - 1 \in 1..Len(order) - 1 /\ at(q - 1) = q
      BY <1>2, <2>1, <2>4
    <3>. QED
      BY <1>4, <2>1, <3>1
  <2>. QED
    BY <1>2, <2>2, <2>3, <2>4
<1>9. KeysOf(rest) = K \ {k}
  <2>. HIDE DEF rest
  <2>. QED
    BY <1>4, <1>6, <1>8 DEF KeysOf
<1>. QED
  BY <1>1, <1>6, <1>7, <1>9 DEF IsOrder

(* A key that is not in an order comes to its front.                       *)
LEMMA FrontOk ==
  ASSUME NEW K, NEW order, IsOrder(order, K), NEW k, k \notin K
  PROVE  /\ IsOrder(<<k>> \o order, K \cup {k}) /\ Len(<<k>> \o order) = Len(order) + 1
         /\ (<<k>> \o order)[1] = k /\ \A i \in 2..Len(order) + 1 : (<<k>> \o order)[i] = order[i - 1]
<1>. DEFINE L == K \cup {k}
            longer == <<k>> \o order
            n == Len(order)
<1>1. order \in Seq(K) /\ DOMAIN order = 1..n /\ n \in Nat /\ Once(order) /\ KeysOf(order) = K
  BY DEF IsOrder
<1>2. order \in Seq(L) /\ <<k>> \in Seq(L)
  BY <1>1
<1>3. longer \in Seq(L) /\ Len(longer) = n + 1 /\ DOMAIN longer = 1..n + 1
      /\ longer[1] = k /\ \A i \in 2..n + 1 : longer[i] = order[i - 1]
  BY <1>1, <1>2
<1>. HIDE DEF longer
<1>4. \A i \in 2..n + 1 : i - 1 \in DOMAIN order /\ longer[i] \in K
  BY <1>1, <1>3
<1>5. Once(longer)
  <2>1. ASSUME NEW i \in 1..n + 1, NEW j \in 1..n + 1, longer[i] = longer[j] PROVE i = j
    <3>1. CASE i = 1 \/ j = 1
      BY <1>1, <1>3, <1>4, <2>1, <3>1
    <3>2. CASE i # 1 /\ j # 1
      <4>1. i \in 2..n + 1 /\ j \in 2..n + 1
        BY <1>1, <3>2
      <4>2. i - 1 = j - 1
        BY <1>1, <1>3, <1>4, <2>1, <4>1, ZenonT(60) DEF Once
      <4>. QED
        BY <4>1, <4>2
    <3>. QED
      BY <3>1, <3>2
  <2>. QED
    BY <1>3, <2>1 DEF Once
<1>6. KeysOf(longer) = L
  <2>1. \A j \in K : \E i \in 1..n : order[i] = j
    BY <1>1 DEF KeysOf
  <2>2. \A i \in 1..n : i + 1 \in 1..n + 1 /\ longer[i + 1] = order[i]
    BY <1>1, <1>3
  <2>3. \A j \in K : j \in KeysOf(longer)
    BY <1>3, <2>1, <2>2 DEF KeysOf
  <2>4. k \in KeysOf(longer)
    BY <1>1, <1>3 DEF KeysOf
  <2>5. \A i \in 1..n + 1 : longer[i] \in L
    BY <1>3
  <2>. QED
    BY <1>3, <2>3, <2>4, <2>5 DEF KeysOf
<1>. QED
  BY <1>3, <1>5, <1>6 DEF IsOrder, longer
-----------------------------------------------------------------------------
LEMMA EmptyOk ==
  ASSUME NEW V
  PROVE  IsList(EmptyLru, V)
<1>1. NodeSizes(EmptyLru.node) \in [{} -> Nat] /\ EmptyLru.held = 0
  BY DEF NodeSizes, EmptyLru
<1>2. Total(NodeSizes(EmptyLru.node)) = 0
  BY <1>1, TotalNothing
<1>3. EmptyLru = [order |-> EmptyLru.order, node |-> EmptyLru.node, held |-> EmptyLru.held]
  BY DEF EmptyLru
<1>4. IsIndex(EmptyLru.node, V) /\ IsOrder(EmptyLru.order, DOMAIN EmptyLru.node)
  BY DEF EmptyLru, IsIndex, IsOrder, Once, KeysOf
<1>. QED
  BY <1>1, <1>2, <1>3, <1>4 DEF IsList

(* The nodes of a list are finitely many.                                  *)
LEMMA AllFirst ==
  ASSUME NEW K, NEW order, IsOrder(order, K)
  PROVE  Firsts(order, Len(order)) = K /\ Len(order) \in Nat
BY DEF IsOrder, Firsts, KeysOf

LEMMA NodesFinite ==
  ASSUME NEW V, NEW lru, IsList(lru, V)
  PROVE  /\ IsFiniteSet(DOMAIN lru.node)
         /\ Weight(lru, Len(lru.order)) = lru.held /\ lru.held \in Nat
<1>1. IsIndex(lru.node, V) /\ IsOrder(lru.order, DOMAIN lru.node)
  BY DEF IsList
<1>2. Firsts(lru.order, Len(lru.order)) = DOMAIN lru.node /\ Len(lru.order) \in Nat
  BY <1>1, AllFirst
<1>6. Len(lru.order) \in 0..Len(lru.order)
  BY <1>2
<1>3. IsFiniteSet(DOMAIN lru.node)
      /\ Weight(lru, Len(lru.order)) = Total(FirstWeights(lru.order, NodeSizes(lru.node), Len(lru.order)))
  BY <1>1, <1>2, <1>6, WeightIs
<1>4. FirstWeights(lru.order, NodeSizes(lru.node), Len(lru.order)) = NodeSizes(lru.node)
  BY <1>1, <1>2, SizesOfNodes DEF FirstWeights
<1>5. Total(NodeSizes(lru.node)) \in Nat
  BY <1>1, <1>3, SizesOfNodes, TotalNat
<1>. QED
  BY <1>3, <1>4, <1>5 DEF IsList

(* What is left of a list when all but its first n keys go.                *)
UpTo(lru, n) == [order |-> SubSeq(lru.order, 1, n),
                node |-> [k \in Firsts(lru.order, n) |-> lru.node[k]],
                held |-> Weight(lru, n)]

LEMMA PrefixOk ==
  ASSUME NEW K, NEW order, IsOrder(order, K), NEW n \in 0..Len(order)
  PROVE  /\ IsOrder(SubSeq(order, 1, n), Firsts(order, n))
         /\ Len(SubSeq(order, 1, n)) = n /\ \A i \in 1..n : SubSeq(order, 1, n)[i] = order[i]
<1>1. order \in Seq(K) /\ DOMAIN order = 1..Len(order) /\ Len(order) \in Nat /\ Once(order)
  BY DEF IsOrder
<1>2. \A i \in 1..n : order[i] \in Firsts(order, n) /\ i \in DOMAIN order
  BY <1>1 DEF Firsts
<1>. DEFINE first == SubSeq(order, 1, n)
<1>3. first \in Seq(Firsts(order, n)) /\ Len(first) = (IF 1 <= n THEN n - 1 + 1 ELSE 0)
      /\ \A i \in 1..n - 1 + 1 : first[i] = order[1 + i - 1]
  BY <1>2, SubSeqProperties
<1>. HIDE DEF first
<1>4. Len(first) = n /\ \A i \in 1..n : first[i] = order[i]
  BY <1>1, <1>3
<1>5. DOMAIN first = 1..n
  BY <1>3, <1>4
<1>6. Once(first)
  BY <1>1, <1>2, <1>4, <1>5 DEF Once
<1>7. KeysOf(first) = Firsts(order, n)
  BY <1>4, <1>5 DEF KeysOf, Firsts
<1>. QED
  BY <1>3, <1>4, <1>6, <1>7 DEF IsOrder, first

LEMMA CutOk ==
  ASSUME NEW V, NEW lru, IsList(lru, V), NEW n \in 0..Len(lru.order)
  PROVE  IsList(UpTo(lru, n), V)
<1>1. IsIndex(lru.node, V) /\ IsOrder(lru.order, DOMAIN lru.node)
  BY DEF IsList
<1>. DEFINE node == [k \in Firsts(lru.order, n) |-> lru.node[k]]
<1>2. Firsts(lru.order, n) \subseteq DOMAIN lru.node
  BY <1>1 DEF IsOrder, Firsts
<1>3. IsIndex(node, V) /\ DOMAIN node = Firsts(lru.order, n)
  BY <1>1, <1>2 DEF IsIndex
<1>4. NodeSizes(node) = FirstWeights(lru.order, NodeSizes(lru.node), n)
  BY <1>2 DEF NodeSizes, FirstWeights
<1>. HIDE DEF node
<1>5. Total(NodeSizes(node)) = Weight(lru, n)
  BY <1>1, <1>4, WeightIs
<1>6. IsOrder(SubSeq(lru.order, 1, n), DOMAIN node)
  BY <1>1, <1>3, PrefixOk
<1>7. UpTo(lru, n) = [order |-> SubSeq(lru.order, 1, n), node |-> node, held |-> Weight(lru, n)]
  BY DEF UpTo, node
<1>. QED
  BY <1>3, <1>5, <1>6, <1>7 DEF IsList

(* The eviction keeps the first keys, as many as fit.                      *)
Keeps(lru, budget, n) == Weight(lru, n) <= budget /\ (n < Len(lru.order) => Weight(lru, n + 1) > budget)

LEMMA WeightNat ==
  ASSUME NEW V, NEW lru, IsList(lru, V), NEW n \in 0..Len(lru.order)
  PROVE  Weight(lru, n) \in Nat
<1>1. IsIndex(lru.node, V) /\ IsOrder(lru.order, DOMAIN lru.node)
  BY DEF IsList
<1>. QED
  BY <1>1, WeightIs, TotalNat

LEMMA WeightStep ==
  ASSUME NEW V, NEW lru, IsList(lru, V), NEW n \in 0..Len(lru.order), n < Len(lru.order)
  PROVE  Weight(lru, n + 1) = lru.node[lru.order[n + 1]].size + Weight(lru, n)
<1>. DEFINE places(m) == [i \in 1..m |-> lru.node[lru.order[i]].size]
<1>1. IsIndex(lru.node, V) /\ IsOrder(lru.order, DOMAIN lru.node)
  BY DEF IsList
<1>2. Len(lru.order) \in Nat /\ \A i \in 1..Len(lru.order) : lru.order[i] \in DOMAIN lru.node
  BY <1>1 DEF IsOrder
<1>3. \A i \in 1..n + 1 : lru.node[lru.order[i]].size \in Nat
  BY <1>1, <1>2 DEF IsIndex
<1>4. IsFiniteSet(1..n + 1)
  BY FS_Interval
<1>5. places(n + 1) \in [1..n + 1 -> Nat] /\ n + 1 \in 1..n + 1
      /\ places(n + 1)[n + 1] = lru.node[lru.order[n + 1]].size
  BY <1>3
<1>6. Dropped(places(n + 1), n + 1) = places(n)
  <2>1. (1..n + 1) \ {n + 1} = 1..n
    OBVIOUS
  <2>. QED
    BY <2>1 DEF Dropped
<1>7. Weight(lru, n + 1) = Total(places(n + 1)) /\ Weight(lru, n) = Total(places(n))
  BY SumIs DEF Weight
<1>. HIDE DEF places
<1>8. Total(places(n + 1)) = places(n + 1)[n + 1] + Total(Dropped(places(n + 1), n + 1))
  BY <1>4, <1>5, TotalDropped
<1>. QED
  BY <1>5, <1>6, <1>7, <1>8

LEMMA EvictedIs ==
  ASSUME NEW V, NEW lru, IsList(lru, V), NEW budget \in Nat
  PROVE  \E n \in 0..Len(lru.order) : Evicted(lru, budget) = UpTo(lru, n) /\ Keeps(lru, budget, n)
<1>. DEFINE all == Len(lru.order)
            left(n) == lru.held - (Weight(lru, all) - Weight(lru, n))
            fits == {n \in 0..all : n = 0 \/ left(n) <= budget}
            most == CHOOSE n \in fits : \A m \in fits : m <= n
<1>1. all \in Nat
  BY DEF IsList, IsOrder
<1>2. \A n \in 0..all : left(n) = Weight(lru, n) /\ Weight(lru, n) \in Nat
  BY NodesFinite, WeightNat
<1>3. Weight(lru, 0) = 0
  <2>1. [i \in 1..0 |-> lru.node[lru.order[i]].size] \in [{} -> Nat]
    OBVIOUS
  <2>. QED
    BY <2>1, SumIs, TotalNothing DEF Weight
<1>4. \E n \in fits : \A m \in fits : m <= n
  <2>. DEFINE T == {all - n : n \in fits}
  <2>1. T \in SUBSET Nat /\ T # {}
    <3>1. 0 \in fits /\ fits \in SUBSET (0..all)
      BY <1>1
    <3>. HIDE DEF fits, all
    <3>. QED
      BY <1>1, <3>1
  <2>2. PICK x \in T : \A y \in T : x <= y
    <3>. HIDE DEF T
    <3>. QED
      BY <2>1, NatLeast
  <2>3. PICK n \in fits : x = all - n
    BY <2>2
  <2>4. \A m \in fits : all - n <= all - m
    BY <2>2, <2>3
  <2>. QED
    BY <1>1, <2>3, <2>4
<1>5. most \in fits /\ \A m \in fits : m <= most
  <2>. HIDE DEF fits
  <2>. QED
    BY <1>4
<1>6. Evicted(lru, budget) = [order |-> SubSeq(lru.order, 1, most),
                              node |-> [k \in {SubSeq(lru.order, 1, most)[i] : i \in 1..most} |-> lru.node[k]],
                              held |-> left(most)]
  BY DEF Evicted
<1>. HIDE DEF most
<1>7. most \in 0..all
  BY <1>5
<1>8. {SubSeq(lru.order, 1, most)[i] : i \in 1..most} = Firsts(lru.order, most)
  <2>1. \A i \in 1..most : SubSeq(lru.order, 1, most)[i] = lru.order[i]
    BY <1>7, PrefixOk DEF IsList
  <2>. QED
    BY <2>1 DEF Firsts
<1>9. Evicted(lru, budget) = UpTo(lru, most)
  BY <1>2, <1>6, <1>7, <1>8 DEF UpTo
<1>10. Weight(lru, most) <= budget
  BY <1>2, <1>3, <1>5, <1>7
<1>11. ASSUME most < all PROVE Weight(lru, most + 1) > budget
  <2>1. most + 1 \in 0..all /\ most + 1 \notin fits
    BY <1>1, <1>5, <1>7, <1>11
  <2>. QED
    BY <1>2, <1>7, <2>1
<1>. QED
  BY <1>7, <1>9, <1>10, <1>11 DEF Keeps
-----------------------------------------------------------------------------
(* A hit changes the order and nothing else.                               *)
LEMMA PromotedIs ==
  ASSUME NEW V, NEW lru, IsList(lru, V), NEW k \in DOMAIN lru.node
  PROVE  /\ Promoted(lru, k) = [order |-> <<k>> \o Unlinked(lru.order, k), node |-> lru.node, held |-> lru.held]
         /\ IsOrder(<<k>> \o Unlinked(lru.order, k), DOMAIN lru.node)
<1>1. lru = [order |-> lru.order, node |-> lru.node, held |-> lru.held]
  BY DEF IsList
<1>2. Promoted(lru, k) = [lru EXCEPT !.order = <<k>> \o Unlinked(@, k)]
  BY DEF Promoted, Holds
<1>3. Promoted(lru, k) = [order |-> <<k>> \o Unlinked(lru.order, k), node |-> lru.node, held |-> lru.held]
  BY <1>1, <1>2
<1>4. IsOrder(Unlinked(lru.order, k), DOMAIN lru.node \ {k})
  BY UnlinkedOk DEF IsList
<1>5. IsOrder(<<k>> \o Unlinked(lru.order, k), (DOMAIN lru.node \ {k}) \cup {k})
  BY <1>4, FrontOk
<1>6. (DOMAIN lru.node \ {k}) \cup {k} = DOMAIN lru.node
  OBVIOUS
<1>. QED
  BY <1>3, <1>5, <1>6

LEMMA ErasedNode ==
  ASSUME NEW V, NEW lru, IsList(lru, V), NEW k
  PROVE  Erased(lru, k).node = [j \in DOMAIN lru.node \ {k} |-> lru.node[j]]
BY DEF Erased, Holds, IsList, IsIndex

LEMMA ErasedOk ==
  ASSUME NEW V, NEW lru, IsList(lru, V), NEW k
  PROVE  IsList(Erased(lru, k), V)
<1>1. IsIndex(lru.node, V) /\ IsOrder(lru.order, DOMAIN lru.node) /\ lru.held = Total(NodeSizes(lru.node))
  BY DEF IsList
<1>2. CASE k \notin DOMAIN lru.node
  <2>1. Erased(lru, k) = lru
    BY <1>2 DEF Erased, Holds
  <2>. QED
    BY <2>1
<1>3. CASE k \in DOMAIN lru.node
  <2>. DEFINE node == [j \in DOMAIN lru.node \ {k} |-> lru.node[j]]
  <2>1. Erased(lru, k) = [order |-> Unlinked(lru.order, k), node |-> node, held |-> lru.held - lru.node[k].size]
    BY <1>3 DEF Erased, Holds
  <2>2. IsIndex(node, V) /\ DOMAIN node = DOMAIN lru.node \ {k}
    BY <1>1 DEF IsIndex
  <2>3. NodeSizes(node) = Dropped(NodeSizes(lru.node), k)
    BY DEF NodeSizes, Dropped
  <2>. HIDE DEF node
  <2>4. IsFiniteSet(DOMAIN lru.node) /\ NodeSizes(lru.node) \in [DOMAIN lru.node -> Nat]
        /\ NodeSizes(lru.node)[k] = lru.node[k].size
    BY <1>1, <1>3, NodesFinite, SizesOfNodes
  <2>5. Total(NodeSizes(lru.node)) = NodeSizes(lru.node)[k] + Total(Dropped(NodeSizes(lru.node), k))
    BY <1>3, <2>4, TotalDropped
  <2>6. Total(NodeSizes(node)) \in Nat /\ NodeSizes(lru.node)[k] \in Nat
    <3>1. IsFiniteSet(DOMAIN node)
      BY <2>2, <2>4, FS_RemoveElement
    <3>. QED
      BY <1>3, <2>2, <2>4, <3>1, SizesOfNodes, TotalNat
  <2>7. lru.held - lru.node[k].size = Total(NodeSizes(node))
    BY <1>1, <2>3, <2>4, <2>5, <2>6
  <2>8. IsOrder(Unlinked(lru.order, k), DOMAIN node)
    BY <1>1, <1>3, <2>2, UnlinkedOk
  <2>. QED
    BY <2>1, <2>2, <2>7, <2>8 DEF IsList
<1>. QED
  BY <1>2, <1>3

LEMMA PushedOk ==
  ASSUME NEW V, NEW lru, IsList(lru, V), NEW k, k \notin DOMAIN lru.node, NEW value \in V, NEW size \in Nat
  PROVE  IsList(Pushed(lru, k, value, size), V)
<1>1. IsIndex(lru.node, V) /\ IsOrder(lru.order, DOMAIN lru.node) /\ lru.held = Total(NodeSizes(lru.node))
  BY DEF IsList
<1>. DEFINE node == [j \in DOMAIN lru.node \cup {k} |->
                       IF j = k THEN [value |-> value, size |-> size] ELSE lru.node[j]]
<1>2. Pushed(lru, k, value, size) = [order |-> <<k>> \o lru.order, node |-> node, held |-> lru.held + size]
  BY DEF Pushed
<1>3. IsIndex(node, V) /\ DOMAIN node = DOMAIN lru.node \cup {k}
  BY <1>1 DEF IsIndex
<1>4. NodeSizes(node) = Given(NodeSizes(lru.node), k, size)
  BY DEF NodeSizes, Given
<1>. HIDE DEF node
<1>5. IsFiniteSet(DOMAIN lru.node) /\ NodeSizes(lru.node) \in [DOMAIN lru.node -> Nat] /\ lru.held \in Nat
  BY <1>1, NodesFinite, SizesOfNodes
<1>6. Total(Given(NodeSizes(lru.node), k, size)) = size + Total(Dropped(NodeSizes(lru.node), k))
  <2>. DEFINE w == NodeSizes(lru.node)
            D == DOMAIN lru.node
  <2>1. IsFiniteSet(D) /\ w \in [D -> Nat] /\ size \in Nat
    BY <1>5
  <2>. HIDE DEF w, D
  <2>2. Total(Given(w, k, size)) = size + Total(Dropped(w, k))
    BY <2>1, TotalGiven
  <2>. QED
    BY <2>2 DEF w
<1>7. Dropped(NodeSizes(lru.node), k) = NodeSizes(lru.node)
  BY <1>5, TotalStays
<1>8. lru.held + size = Total(NodeSizes(node))
  BY <1>1, <1>4, <1>5, <1>6, <1>7
<1>9. IsOrder(<<k>> \o lru.order, DOMAIN node)
  BY <1>1, <1>3, FrontOk
<1>. QED
  BY <1>2, <1>3, <1>8, <1>9 DEF IsList

LEMMA PromotedOk ==
  ASSUME NEW V, NEW lru, IsList(lru, V), NEW k
  PROVE  IsList(Promoted(lru, k), V) /\ Promoted(lru, k).node = lru.node /\ Promoted(lru, k).held = lru.held
<1>1. CASE k \in DOMAIN lru.node
  <2>. DEFINE order == <<k>> \o Unlinked(lru.order, k)
  <2>1. Promoted(lru, k) = [order |-> order, node |-> lru.node, held |-> lru.held] /\ IsOrder(order, DOMAIN lru.node)
    BY <1>1, PromotedIs
  <2>. HIDE DEF order
  <2>. QED
    BY <2>1 DEF IsList
<1>2. CASE k \notin DOMAIN lru.node
  BY <1>2 DEF Promoted, Holds
<1>. QED
  BY <1>1, <1>2

(* What is kept fits, and every key that is left has the value it had, or  *)
(* was given.                                                              *)
LEMMA KeptOk ==
  ASSUME NEW V, NEW lru, IsList(lru, V), NEW k, NEW value \in V, NEW size \in Nat,
         NEW budget \in Nat, lru.held <= budget
  PROVE  IsList(Kept(lru, k, value, size, budget), V) /\ Kept(lru, k, value, size, budget).held <= budget
<1>. DEFINE pushed == Pushed(Erased(lru, k), k, value, size)
<1>1. CASE size > budget
  BY <1>1 DEF Kept
<1>2. CASE ~(size > budget)
  <2>1. Erased(lru, k).node = [i \in DOMAIN lru.node \ {k} |-> lru.node[i]]
    BY ErasedNode
  <2>2. IsList(pushed, V)
    BY <2>1, ErasedOk, PushedOk
  <2>. HIDE DEF pushed
  <2>3. PICK n \in 0..Len(pushed.order) : Evicted(pushed, budget) = UpTo(pushed, n) /\ Keeps(pushed, budget, n)
    BY <2>2, EvictedIs
  <2>4. Kept(lru, k, value, size, budget) = UpTo(pushed, n)
    BY <1>2, <2>3 DEF Kept, pushed
  <2>5. IsList(UpTo(pushed, n), V)
    BY <2>2, CutOk
  <2>. QED
    BY <2>3, <2>4, <2>5 DEF Keeps, UpTo
<1>. QED
  BY <1>1, <1>2

LEMMA KeptValues ==
  ASSUME NEW V, NEW lru, IsList(lru, V), NEW k, NEW value \in V, NEW size \in Nat, NEW budget \in Nat,
         NEW j \in DOMAIN Kept(lru, k, value, size, budget).node
  PROVE  \/ j = k /\ Kept(lru, k, value, size, budget).node[j].value = value
         \/ j \in DOMAIN lru.node /\ Kept(lru, k, value, size, budget).node[j] = lru.node[j]
<1>. DEFINE pushed == Pushed(Erased(lru, k), k, value, size)
<1>1. CASE size > budget
  BY <1>1 DEF Kept
<1>2. CASE ~(size > budget)
  <2>1. Erased(lru, k).node = [i \in DOMAIN lru.node \ {k} |-> lru.node[i]]
    BY ErasedNode
  <2>2. pushed.node = [i \in DOMAIN Erased(lru, k).node \cup {k} |->
                         IF i = k THEN [value |-> value, size |-> size] ELSE Erased(lru, k).node[i]]
    BY DEF Pushed
  <2>3. IsList(pushed, V)
    BY <2>1, ErasedOk, PushedOk
  <2>. HIDE DEF pushed
  <2>4. PICK n \in 0..Len(pushed.order) : Evicted(pushed, budget) = UpTo(pushed, n) /\ Keeps(pushed, budget, n)
    BY <2>3, EvictedIs
  <2>5. Kept(lru, k, value, size, budget).node = [i \in Firsts(pushed.order, n) |-> pushed.node[i]]
    BY <1>2, <2>4 DEF Kept, UpTo, pushed
  <2>6. Firsts(pushed.order, n) \subseteq DOMAIN pushed.node
    BY <2>3 DEF IsList, IsOrder, Firsts
  <2>7. j \in DOMAIN pushed.node /\ Kept(lru, k, value, size, budget).node[j] = pushed.node[j]
    BY <2>5, <2>6
  <2>. QED
    BY <2>1, <2>2, <2>7
<1>. QED
  BY <1>1, <1>2
=============================================================================
