------------------------- MODULE ClientLimitsProofs -------------------------
(***************************************************************************)
(* Proofs about ClientLimits, for any addresses, rate, quota, window and   *)
(* table: what is granted is what rows that nobody ever drops would grant, *)
(* no more than the limit and no less.                                     *)
(*                                                                         *)
(* First what the histories count, and what one more tick, one more        *)
(* request and one more entry add to it; then the rows that are kept.      *)
(***************************************************************************)
EXTENDS ClientLimits, LruProofs

(* A number of grants for every address and tick.                          *)
Histories == [Clients -> [0..MaxTime -> Nat]]
-----------------------------------------------------------------------------
(* How a count is made up, tick by tick.                                   *)
LEMMA Counting ==
  ASSUME NEW h \in Histories, NEW c \in Clients, NEW from \in Nat
  PROVE  \A t \in 0..MaxTime :
           /\ Count(h, c, from, t) \in Nat
           /\ Count(h, c, from, t)
                = (IF t = 0 THEN 0 ELSE Count(h, c, from, t - 1)) + (IF t >= from THEN h[c][t] ELSE 0)
<1>. DEFINE Here(t) == IF t >= from THEN h[c][t] ELSE 0
            IsSum(f) == f = [t \in 0..MaxTime |-> (IF t = 0 THEN 0 ELSE f[t - 1]) + Here(t)]
            sum == CHOOSE f : IsSum(f)
            step == [t \in Nat |-> [n \in Nat |-> n + IF t \in 0..MaxTime THEN Here(t) ELSE 0]]
<1>1. MaxTime \in Nat /\ \A t \in 0..MaxTime : Here(t) \in Nat
  BY TableAssumption DEF Histories
<1>. HIDE DEF Here
<1>2. step \in [Nat -> [Nat -> Nat]]
  BY <1>1
<1>3. PICK f \in [0..MaxTime -> Nat] : Iterates(f, Here(0), step, MaxTime)
  <2>1. 0 \in 0..MaxTime
    BY <1>1
  <2>. HIDE DEF step
  <2>. QED
    BY <1>1, <1>2, <2>1, Recursion
<1>4. IsSum(f)
  <2>1. ASSUME NEW t \in 0..MaxTime PROVE f[t] = (IF t = 0 THEN 0 ELSE f[t - 1]) + Here(t)
    <3>1. CASE t = 0
      <4>1. f[t] = Here(0) /\ Here(0) \in Nat
        BY <1>1, <1>3, <3>1 DEF Iterates
      <4>. QED
        BY <3>1, <4>1
    <3>2. CASE t # 0
      <4>1. t - 1 \in 0..MaxTime /\ t \in 1..MaxTime
        BY <1>1, <3>2
      <4>2. f[t - 1] \in Nat
        BY <4>1
      <4>3. step[t][f[t - 1]] = f[t - 1] + Here(t)
        BY <4>1, <4>2
      <4>. HIDE DEF step
      <4>. QED
        BY <1>3, <3>2, <4>1, <4>3 DEF Iterates
    <3>. QED
      BY <3>1, <3>2
  <2>. QED
    BY <2>1
<1>. HIDE DEF step
<1>5. IsSum(sum)
  BY <1>4
<1>6. \A t : Count(h, c, from, t) = sum[t]
  BY DEF Count, Here
<1>. HIDE DEF sum
<1>7. \A t \in 0..MaxTime : sum[t] = (IF t = 0 THEN 0 ELSE sum[t - 1]) + Here(t)
  BY <1>5
<1>8. \A t \in 0..MaxTime : sum[t] \in Nat
  <2>. DEFINE S == {t \in Nat : t \in 0..MaxTime => sum[t] \in Nat}
  <2>1. 0 \in S
    BY <1>1, <1>7
  <2>2. ASSUME NEW t \in S PROVE t + 1 \in S
    <3>1. t \in Nat /\ t + 1 # 0 /\ (t + 1) - 1 = t
      OBVIOUS
    <3>2. CASE t + 1 \in 0..MaxTime
      <4>1. sum[t + 1] = sum[t] + Here(t + 1)
        BY <1>7, <3>1, <3>2
      <4>2. sum[t] \in Nat /\ Here(t + 1) \in Nat
        BY <1>1, <3>1, <3>2
      <4>. QED
        BY <4>1, <4>2
    <3>. QED
      BY <3>1, <3>2
  <2>3. S = Nat
    <3>. HIDE DEF S
    <3>1. S \in SUBSET Nat
      BY DEF S
    <3>. QED
      BY <2>1, <2>2, <3>1, NatSetInduction
  <2>. QED
    BY <1>1, <2>3, SMTT(30)
<1>. QED
  BY <1>6, <1>7, <1>8 DEF Here

LEMMA CountNext ==
  ASSUME NEW h \in Histories, NEW c \in Clients, NEW from \in Nat, NEW t \in 0..MaxTime, t + 1 \in 0..MaxTime
  PROVE  Count(h, c, from, t + 1) = Count(h, c, from, t) + IF t + 1 >= from THEN h[c][t + 1] ELSE 0
<1>1. t + 1 # 0 /\ (t + 1) - 1 = t
  BY TableAssumption
<1>2. Count(h, c, from, t + 1)
        = (IF t + 1 = 0 THEN 0 ELSE Count(h, c, from, (t + 1) - 1)) + (IF t + 1 >= from THEN h[c][t + 1] ELSE 0)
  BY Counting
<1>. QED
  BY <1>1, <1>2

(* What a count is up to a tick depends on the history up to that tick.    *)
LEMMA CountSame ==
  ASSUME NEW h \in Histories, NEW g \in Histories, NEW c \in Clients, NEW from \in Nat, NEW to \in 0..MaxTime,
         \A t \in 0..to : h[c][t] = g[c][t]
  PROVE  Count(h, c, from, to) = Count(g, c, from, to)
<1>. DEFINE S == {t \in Nat : t \in 0..to => Count(h, c, from, t) = Count(g, c, from, t)}
<1>1. MaxTime \in Nat
  BY TableAssumption
<1>2. 0 \in S
  BY <1>1, Counting
<1>3. ASSUME NEW t \in S PROVE t + 1 \in S
  <2>1. CASE t + 1 \in 0..to
    <3>1. t + 1 # 0 /\ (t + 1) - 1 = t /\ t + 1 \in 0..MaxTime /\ t \in 0..MaxTime /\ t \in 0..to
      BY <1>1, <2>1
    <3>2. /\ Count(h, c, from, t + 1) = Count(h, c, from, t) + IF t + 1 >= from THEN h[c][t + 1] ELSE 0
          /\ Count(g, c, from, t + 1) = Count(g, c, from, t) + IF t + 1 >= from THEN g[c][t + 1] ELSE 0
      BY <3>1, CountNext
    <3>. QED
      BY <3>1, <3>2, <2>1
  <2>. QED
    BY <2>1
<1>4. S = Nat
  <2>. HIDE DEF S
  <2>1. S \in SUBSET Nat
    BY DEF S
  <2>. QED
    BY <1>2, <1>3, <2>1, NatSetInduction
<1>. QED
  BY <1>4

(* Nothing happened since, so there is nothing to count.                   *)
LEMMA CountNone ==
  ASSUME NEW h \in Histories, NEW c \in Clients, NEW from \in Nat, NEW to \in 0..MaxTime,
         \A t \in 0..to : t >= from => h[c][t] = 0
  PROVE  Count(h, c, from, to) = 0
<1>. DEFINE S == {t \in Nat : t \in 0..to => Count(h, c, from, t) = 0}
<1>1. MaxTime \in Nat
  BY TableAssumption
<1>2. 0 \in S
  BY <1>1, Counting
<1>3. ASSUME NEW t \in S PROVE t + 1 \in S
  <2>1. CASE t + 1 \in 0..to
    <3>1. t + 1 # 0 /\ (t + 1) - 1 = t /\ t + 1 \in 0..MaxTime /\ t \in 0..MaxTime /\ t \in 0..to
      BY <1>1, <2>1
    <3>2. Count(h, c, from, t + 1) = Count(h, c, from, t) + IF t + 1 >= from THEN h[c][t + 1] ELSE 0
      BY <3>1, CountNext
    <3>. QED
      BY <3>1, <3>2, <2>1
  <2>. QED
    BY <2>1
<1>4. S = Nat
  <2>. HIDE DEF S
  <2>1. S \in SUBSET Nat
    BY DEF S
  <2>. QED
    BY <1>2, <1>3, <2>1, NatSetInduction
<1>. QED
  BY <1>4

(* A history with one more at a tick.                                      *)
More(h, c, t) == [h EXCEPT ![c][t] = @ + 1]

LEMMA MoreIs ==
  ASSUME NEW h \in Histories, NEW c \in Clients, NEW t \in 0..MaxTime
  PROVE  /\ More(h, c, t) \in Histories
         /\ More(h, c, t)[c][t] = h[c][t] + 1
         /\ \A s \in 0..MaxTime : s # t => More(h, c, t)[c][s] = h[c][s]
         /\ \A d \in Clients : d # c => More(h, c, t)[d] = h[d]
<1>. DEFINE r == [h[c] EXCEPT ![t] = @ + 1]
<1>0. h[c] \in [0..MaxTime -> Nat]
  BY DEF Histories
<1>1. h[c][t] + 1 \in Nat
  <2>1. h[c][t] \in Nat
    BY <1>0
  <2>. QED
    BY <2>1
<1>2. r \in [0..MaxTime -> Nat] /\ r[t] = h[c][t] + 1 /\ \A s \in 0..MaxTime : s # t => r[s] = h[c][s]
  BY <1>0, <1>1
<1>3. More(h, c, t) = [h EXCEPT ![c] = r]
  BY DEF More
<1>. HIDE DEF r
<1>. QED
  BY <1>2, <1>3 DEF Histories

(* It is counted once, in every span that ends there.                      *)
LEMMA CountMore ==
  ASSUME NEW h \in Histories, NEW c \in Clients, NEW from \in Nat, NEW at \in 0..MaxTime
  PROVE  /\ Count(More(h, c, at), c, from, at) = Count(h, c, from, at) + IF at >= from THEN 1 ELSE 0
         /\ \A to \in 0..MaxTime : to < at => Count(More(h, c, at), c, from, to) = Count(h, c, from, to)
         /\ \A d \in Clients, to \in 0..MaxTime :
              d # c => Count(More(h, c, at), d, from, to) = Count(h, d, from, to)
<1>. DEFINE g == More(h, c, at)
<1>1. MaxTime \in Nat /\ g \in Histories
  BY TableAssumption, MoreIs
<1>2. ASSUME NEW to \in 0..MaxTime, to < at PROVE Count(g, c, from, to) = Count(h, c, from, to)
  <2>1. \A t \in 0..to : g[c][t] = h[c][t]
    BY <1>1, <1>2, MoreIs
  <2>. QED
    BY <1>1, <2>1, CountSame
<1>3. ASSUME NEW d \in Clients, NEW to \in 0..MaxTime, d # c
      PROVE  Count(g, d, from, to) = Count(h, d, from, to)
  <2>1. \A t \in 0..to : g[d][t] = h[d][t]
    BY <1>1, <1>3, MoreIs
  <2>. QED
    BY <1>1, <2>1, CountSame
<1>4. Count(g, c, from, at) = Count(h, c, from, at) + IF at >= from THEN 1 ELSE 0
  <2>1. g[c][at] = h[c][at] + 1 /\ h[c][at] \in Nat
    BY MoreIs, ZenonT(60) DEF Histories
  <2>2. /\ Count(h, c, from, at) = (IF at = 0 THEN 0 ELSE Count(h, c, from, at - 1)) + (IF at >= from THEN h[c][at] ELSE 0)
        /\ Count(g, c, from, at) = (IF at = 0 THEN 0 ELSE Count(g, c, from, at - 1)) + (IF at >= from THEN g[c][at] ELSE 0)
    BY <1>1, Counting
  <2>3. CASE at = 0
    BY <2>1, <2>2, <2>3
  <2>4. CASE at # 0
    <3>1. at - 1 \in 0..MaxTime /\ at - 1 < at
      BY <1>1, <2>4
    <3>2. Count(g, c, from, at - 1) = Count(h, c, from, at - 1) /\ Count(h, c, from, at - 1) \in Nat
      BY <1>2, <3>1, Counting
    <3>. HIDE DEF g
    <3>. QED
      BY <2>1, <2>2, <2>4, <3>2
  <2>. QED
    BY <2>3, <2>4
<1>. QED
  BY <1>2, <1>3, <1>4
-----------------------------------------------------------------------------
(* The numbers a limit is made of.                                         *)
LEMMA Numbers ==
  /\ Rate \in Nat /\ Second \in Nat /\ MaxTime \in Nat /\ Second >= 1
  /\ Full \in Nat /\ Full >= Second
  /\ \A k \in Nat : k * Rate \in Nat /\ (k + 1) * Rate = k * Rate + Rate
  /\ \A k \in Nat : k * Second \in Nat /\ (k + 1) * Second = k * Second + Second
<1>1. Rate \in Nat /\ Rate >= 1 /\ Second \in Nat /\ Second >= 1 /\ MaxTime \in Nat
  BY RateAssumption, TableAssumption
<1>2. Full \in Nat
  BY <1>1 DEF Full
<1>3. PICK less \in Nat : Rate = less + 1
  BY <1>1
<1>4. (less + 1) * Second = less * Second + Second /\ less * Second \in Nat
  BY <1>1
<1>5. Full >= Second
  BY <1>1, <1>3, <1>4 DEF Full
<1>6. ASSUME NEW k \in Nat
      PROVE  /\ k * Rate \in Nat /\ (k + 1) * Rate = k * Rate + Rate
             /\ k * Second \in Nat /\ (k + 1) * Second = k * Second + Second
  BY <1>1
<1>. QED
  BY <1>1, <1>2, <1>5, <1>6

(* What an address has a right to after k ticks without a request.         *)
Due(k) == IF k * Rate >= Full THEN Full ELSE k * Rate

(* What credit a says of a history up to tick n: no more was allowed than
   burst and rate, and what was not allowed is still there.                *)
Held(a, h, c, n) ==
  /\ a \in 0..Full
  /\ \A s \in 0..n : Count(h, c, s, n) * Second + a <= Full + (n - s) * Rate
  /\ a + Count(h, c, 0, n) * Second >= Full
  /\ \A s \in 1..n + 1 : a + Count(h, c, s, n) * Second >= Due(n + 1 - s)
  /\ \A s \in 0..n, t \in 0..n : s <= t => Count(h, c, s, t) * Second <= Full + (t - s) * Rate

LEMMA NeverHeld ==
  ASSUME NEW c \in Clients, NEW n \in 0..MaxTime
  PROVE  Never \in Histories /\ Held(Full, Never, c, n)
<1>1. Never \in Histories
  BY DEF Never, Histories
<1>2. \A s \in Nat, t \in 0..MaxTime : Count(Never, c, s, t) = 0
  <2>1. \A t \in 0..MaxTime : Never[c][t] = 0
    BY DEF Never
  <2>2. ASSUME NEW s \in Nat, NEW t \in 0..MaxTime PROVE Count(Never, c, s, t) = 0
    <3>1. \A u \in 0..t : u \in 0..MaxTime
      BY Numbers
    <3>. QED
      BY <1>1, <2>1, <3>1, CountNone
  <2>. QED
    BY <2>2
<1>3. \A k \in Nat : Due(k) <= Full
  BY Numbers DEF Due
<1>4. n \in Nat /\ \A t \in 0..n : t \in Nat /\ t \in 0..MaxTime
  BY Numbers
<1>5. 0 * Second = 0
  BY Numbers
<1>6. ASSUME NEW s \in 0..n PROVE Count(Never, c, s, n) * Second + Full <= Full + (n - s) * Rate
  <2>1. (n - s) * Rate \in Nat /\ Count(Never, c, s, n) = 0
    BY <1>2, <1>4, Numbers
  <2>. QED
    BY <1>5, <2>1, Numbers
<1>7. ASSUME NEW s \in 1..n + 1 PROVE Full + Count(Never, c, s, n) * Second >= Due(n + 1 - s)
  <2>1. n + 1 - s \in Nat /\ s \in Nat
    BY <1>4
  <2>2. Due(n + 1 - s) <= Full /\ Count(Never, c, s, n) = 0
    BY <1>2, <1>3, <2>1
  <2>. QED
    BY <1>5, <2>2, Numbers
<1>8. ASSUME NEW s \in 0..n, NEW t \in 0..n, s <= t
      PROVE  Count(Never, c, s, t) * Second <= Full + (t - s) * Rate
  <2>1. (t - s) * Rate \in Nat /\ Count(Never, c, s, t) = 0
    BY <1>2, <1>4, <1>8, Numbers
  <2>. QED
    BY <1>5, <2>1, Numbers
<1>9. Full + Count(Never, c, 0, n) * Second >= Full /\ Full \in 0..Full
  BY <1>2, <1>5, Numbers
<1>. QED
  BY <1>1, <1>6, <1>7, <1>8, <1>9 DEF Held

(* A tick fills the bucket up, no further than it goes.                    *)
LEMMA TickHeld ==
  ASSUME NEW c \in Clients, NEW n \in 0..MaxTime, n + 1 \in 0..MaxTime, NEW h \in Histories, NEW a,
         Held(a, h, c, n), \A t \in 0..MaxTime : t > n => h[c][t] = 0
  PROVE  Held(IF a + Rate > Full THEN Full ELSE a + Rate, h, c, n + 1)
<1>. DEFINE b == IF a + Rate > Full THEN Full ELSE a + Rate
<1>1. n \in Nat /\ a \in Nat /\ a <= Full /\ b \in 0..Full /\ b <= a + Rate
  BY Numbers DEF Held
<1>2. \A s \in Nat : Count(h, c, s, n + 1) = Count(h, c, s, n) /\ Count(h, c, s, n) \in Nat
  <2>1. ASSUME NEW s \in Nat PROVE Count(h, c, s, n + 1) = Count(h, c, s, n) /\ Count(h, c, s, n) \in Nat
    <3>1. h[c][n + 1] = 0
      BY <1>1
    <3>2. Count(h, c, s, n + 1) = Count(h, c, s, n) + 0 /\ Count(h, c, s, n) \in Nat
      BY <3>1, CountNext, Counting
    <3>. QED
      BY <3>2
  <2>. QED
    BY <2>1
<1>3. Count(h, c, n + 1, n + 1) = 0
  <2>1. n + 1 \in Nat /\ \A t \in 0..n + 1 : t >= n + 1 => h[c][t] = 0
    BY <1>1
  <2>. QED
    BY <2>1, CountNone
<1>4. ASSUME NEW s \in 0..n + 1 PROVE Count(h, c, s, n + 1) * Second + b <= Full + (n + 1 - s) * Rate
  <2>1. CASE s = n + 1
    <3>1. 0 * Second = 0 /\ (n + 1 - s) * Rate = 0
      BY <1>1, <2>1, Numbers
    <3>. HIDE DEF b
    <3>. QED
      BY <1>1, <1>3, <2>1, <3>1, Numbers
  <2>2. CASE s # n + 1
    <3>1. s \in 0..n /\ n - s \in Nat /\ n + 1 - s = (n - s) + 1
      BY <1>1, <2>2
    <3>2. Count(h, c, s, n) * Second + a <= Full + (n - s) * Rate
      BY <3>1 DEF Held
    <3>3. (n + 1 - s) * Rate = (n - s) * Rate + Rate /\ (n - s) * Rate \in Nat
      BY <3>1, Numbers
    <3>4. Count(h, c, s, n + 1) = Count(h, c, s, n) /\ Count(h, c, s, n) * Second \in Nat
      BY <1>2, <3>1, Numbers
    <3>. HIDE DEF b
    <3>. QED
      BY <1>1, <3>2, <3>3, <3>4, Numbers
  <2>. QED
    BY <2>1, <2>2
<1>5. b + Count(h, c, 0, n + 1) * Second >= Full
  <2>1. a + Count(h, c, 0, n) * Second >= Full /\ Count(h, c, 0, n) * Second \in Nat
    BY <1>2, Numbers DEF Held
  <2>2. b >= a
    BY <1>1, Numbers
  <2>. HIDE DEF b
  <2>. QED
    BY <1>1, <1>2, <2>1, <2>2, Numbers
<1>6. ASSUME NEW s \in 1..(n + 1) + 1 PROVE b + Count(h, c, s, n + 1) * Second >= Due((n + 1) + 1 - s)
  <2>1. CASE s = (n + 1) + 1
    <3>1. (n + 1) + 1 - s = 0 /\ 0 * Rate = 0
      BY <1>1, <2>1, Numbers
    <3>2. Due((n + 1) + 1 - s) = 0
      BY <3>1, Numbers DEF Due
    <3>3. Count(h, c, s, n + 1) * Second \in Nat
      BY <1>1, <1>2, <2>1, Numbers
    <3>. HIDE DEF b
    <3>. QED
      BY <1>1, <3>2, <3>3
  <2>2. CASE s # (n + 1) + 1
    <3>1. s \in 1..n + 1 /\ n + 1 - s \in Nat /\ (n + 1) + 1 - s = (n + 1 - s) + 1 /\ s \in Nat
      BY <1>1, <2>2
    <3>. DEFINE k == n + 1 - s
                m == Count(h, c, s, n) * Second
    <3>2. a + m >= Due(k)
      BY <3>1 DEF Held
    <3>3. m \in Nat /\ k * Rate \in Nat /\ (k + 1) * Rate = k * Rate + Rate
      BY <1>2, <3>1, Numbers
    <3>4. Count(h, c, s, n + 1) * Second = m
      BY <1>2, <3>1
    <3>5. Due((n + 1) + 1 - s) = Due(k + 1)
      BY <3>1
    <3>. HIDE DEF k, m
    <3>6. b + m >= Due(k + 1)
      BY <1>1, <3>2, <3>3, Numbers DEF Due
    <3>. QED
      BY <3>4, <3>5, <3>6
  <2>. QED
    BY <2>1, <2>2
<1>7. ASSUME NEW s \in 0..n + 1, NEW t \in 0..n + 1, s <= t
      PROVE  Count(h, c, s, t) * Second <= Full + (t - s) * Rate
  <2>1. CASE t = n + 1
    <3>1. Count(h, c, s, n + 1) * Second \in Nat /\ (n + 1 - s) * Rate \in Nat
      BY <1>1, <1>2, <1>7, <2>1, Numbers
    <3>. HIDE DEF b
    <3>. QED
      BY <1>1, <1>4, <2>1, <3>1, Numbers
  <2>2. CASE t # n + 1
    <3>1. t \in 0..n /\ s \in 0..n
      BY <1>1, <1>7, <2>2
    <3>. QED
      BY <1>7, <3>1 DEF Held
  <2>. QED
    BY <2>1, <2>2
<1>. HIDE DEF b
<1>8. Held(b, h, c, n + 1)
  BY <1>1, <1>4, <1>5, <1>6, <1>7 DEF Held
<1>. QED
  BY <1>8 DEF b

(* A request takes its credit.                                             *)
LEMMA GrantHeld ==
  ASSUME NEW c \in Clients, NEW n \in 0..MaxTime, NEW h \in Histories, NEW a,
         Held(a, h, c, n), a >= Second
  PROVE  Held(a - Second, More(h, c, n), c, n)
<1>. DEFINE g == More(h, c, n)
            b == a - Second
<1>1. n \in Nat /\ a \in Nat /\ a <= Full /\ b \in 0..Full /\ b + Second = a
  BY Numbers DEF Held
<1>2. /\ \A s \in 0..n : Count(g, c, s, n) * Second = Count(h, c, s, n) * Second + Second
      /\ \A s \in 0..n : Count(h, c, s, n) * Second \in Nat
  <2>1. ASSUME NEW s \in 0..n
        PROVE  /\ Count(g, c, s, n) * Second = Count(h, c, s, n) * Second + Second
               /\ Count(h, c, s, n) * Second \in Nat
    <3>1. s \in Nat /\ n >= s
      BY <1>1
    <3>2. Count(g, c, s, n) = Count(h, c, s, n) + 1 /\ Count(h, c, s, n) \in Nat
      BY <3>1, CountMore, Counting
    <3>. HIDE DEF g
    <3>. QED
      BY <3>2, Numbers
  <2>. QED
    BY <2>1
<1>3. \A s \in 0..n, t \in 0..n : t < n => Count(g, c, s, t) = Count(h, c, s, t)
  <2>1. \A s \in 0..n : s \in Nat
    BY <1>1
  <2>2. \A t \in 0..n : t \in 0..MaxTime
    BY <1>1, Numbers
  <2>. QED
    BY <2>1, <2>2, CountMore
<1>4. Count(g, c, n + 1, n) * Second = Count(h, c, n + 1, n) * Second
  <2>1. n + 1 \in Nat /\ ~ (n >= n + 1)
    BY <1>1
  <2>2. Count(g, c, n + 1, n) = Count(h, c, n + 1, n) + 0 /\ Count(h, c, n + 1, n) \in Nat
    BY <2>1, CountMore, Counting
  <2>. HIDE DEF g
  <2>. QED
    BY <2>2
<1>. HIDE DEF g, b
<1>5. ASSUME NEW s \in 0..n PROVE Count(g, c, s, n) * Second + b <= Full + (n - s) * Rate
  <2>1. Count(h, c, s, n) * Second + a <= Full + (n - s) * Rate
    BY DEF Held
  <2>2. (n - s) * Rate \in Nat
    BY <1>1, Numbers
  <2>. QED
    BY <1>1, <1>2, <2>1, <2>2, Numbers
<1>6. b + Count(g, c, 0, n) * Second >= Full
  <2>1. a + Count(h, c, 0, n) * Second >= Full
    BY DEF Held
  <2>. QED
    BY <1>1, <1>2, <2>1, Numbers
<1>7. ASSUME NEW s \in 1..n + 1 PROVE b + Count(g, c, s, n) * Second >= Due(n + 1 - s)
  <2>1. a + Count(h, c, s, n) * Second >= Due(n + 1 - s)
    BY DEF Held
  <2>2. CASE s \in 0..n
    <3>1. n + 1 - s \in Nat
      BY <1>1, <2>2
    <3>2. Due(n + 1 - s) \in Nat
      BY <3>1, Numbers DEF Due
    <3>. QED
      BY <1>1, <1>2, <2>1, <2>2, <3>2, Numbers
  <2>3. CASE s = n + 1
    <3>1. n + 1 - s = 0 /\ 0 * Rate = 0
      BY <1>1, <2>3, Numbers
    <3>2. Due(n + 1 - s) = 0
      BY <3>1, Numbers DEF Due
    <3>3. Count(h, c, n + 1, n) \in Nat
      BY <1>1, Counting
    <3>4. Count(h, c, n + 1, n) * Second \in Nat
      BY <3>3, Numbers
    <3>. QED
      BY <1>1, <1>4, <2>3, <3>2, <3>4
  <2>. QED
    BY <1>1, <2>2, <2>3
<1>8. ASSUME NEW s \in 0..n, NEW t \in 0..n, s <= t
      PROVE  Count(g, c, s, t) * Second <= Full + (t - s) * Rate
  <2>1. CASE t = n
    <3>1. Count(g, c, s, n) * Second \in Nat /\ (n - s) * Rate \in Nat
      BY <1>1, <1>2, Numbers
    <3>. QED
      BY <1>1, <1>5, <2>1, <3>1, Numbers
  <2>2. CASE t # n
    <3>1. Count(g, c, s, t) = Count(h, c, s, t)
      BY <1>1, <1>3, <2>2
    <3>. QED
      BY <1>8, <3>1 DEF Held
  <2>. QED
    BY <2>1, <2>2
<1>9. Held(b, g, c, n)
  BY <1>1, <1>5, <1>6, <1>7, <1>8 DEF Held
<1>. QED
  BY <1>9 DEF b, g

(* And nobody else's.                                                      *)
LEMMA OthersHeld ==
  ASSUME NEW c \in Clients, NEW d \in Clients, d # c, NEW n \in 0..MaxTime, NEW h \in Histories, NEW a,
         Held(a, h, d, n)
  PROVE  Held(a, More(h, c, n), d, n)
<1>1. n \in Nat /\ \A s \in 0..n + 1 : s \in Nat
  BY Numbers
<1>2. \A t \in 0..n : t \in 0..MaxTime
  BY Numbers
<1>3. \A s \in 0..n + 1, t \in 0..n : Count(More(h, c, n), d, s, t) = Count(h, d, s, t)
  BY <1>1, <1>2, CountMore
<1>4. /\ \A s \in 0..n : s \in 0..n + 1
      /\ \A s \in 1..n + 1 : s \in 0..n + 1
      /\ n \in 0..n /\ 0 \in 0..n + 1
  BY <1>1
<1>. QED
  BY <1>3, <1>4 DEF Held
-----------------------------------------------------------------------------
(* A bucket that is never dropped, tick by tick.                           *)
Level(h, c, n) ==
  LET level[t \in 0..MaxTime] ==
        LET before == IF t = 0 \/ level[t - 1] + Rate > Full THEN Full ELSE level[t - 1] + Rate
        IN before - h[c][t] * Second
  IN level[n]

LEMMA Levels ==
  ASSUME NEW h \in Histories, NEW c \in Clients
  PROVE  \A t \in 0..MaxTime :
           Level(h, c, t) = (IF t = 0 \/ Level(h, c, t - 1) + Rate > Full THEN Full
                             ELSE Level(h, c, t - 1) + Rate) - h[c][t] * Second
<1>. DEFINE Spent(t) == h[c][t] * Second
            Before(v) == IF v + Rate > Full THEN Full ELSE v + Rate
            IsLevel(f) == f = [t \in 0..MaxTime |->
              (IF t = 0 \/ f[t - 1] + Rate > Full THEN Full ELSE f[t - 1] + Rate) - Spent(t)]
            level == CHOOSE f : IsLevel(f)
            step == [t \in Nat |-> [v \in Int |-> Before(v) - IF t \in 0..MaxTime THEN Spent(t) ELSE 0]]
<1>1. MaxTime \in Nat /\ \A t \in 0..MaxTime : Spent(t) \in Nat
  <2>1. \A t \in 0..MaxTime : h[c][t] \in Nat
    BY DEF Histories
  <2>. QED
    BY <2>1, Numbers
<1>. HIDE DEF Spent
<1>2. \A v \in Int : Before(v) \in Int
  BY Numbers
<1>3. step \in [Nat -> [Int -> Int]]
  <2>. HIDE DEF Before
  <2>. QED
    BY <1>1, <1>2
<1>4. PICK f \in [0..MaxTime -> Int] : Iterates(f, Full - Spent(0), step, MaxTime)
  <2>1. 0 \in 0..MaxTime
    BY <1>1
  <2>2. Full - Spent(0) \in Int
    BY <1>1, <2>1, Numbers
  <2>. HIDE DEF step
  <2>. QED
    BY <1>1, <1>3, <2>2, Recursion
<1>5. IsLevel(f)
  <2>1. ASSUME NEW t \in 0..MaxTime
        PROVE  f[t] = (IF t = 0 \/ f[t - 1] + Rate > Full THEN Full ELSE f[t - 1] + Rate) - Spent(t)
    <3>1. CASE t = 0
      BY <1>4, <3>1 DEF Iterates
    <3>2. CASE t # 0
      <4>1. t - 1 \in 0..MaxTime /\ t \in 1..MaxTime /\ t \in Nat
        BY <1>1, <3>2
      <4>2. f[t - 1] \in Int
        BY <4>1
      <4>3. step[t][f[t - 1]] = Before(f[t - 1]) - Spent(t)
        BY <4>1, <4>2
      <4>. HIDE DEF step
      <4>. QED
        BY <1>4, <3>2, <4>1, <4>3 DEF Iterates
    <3>. QED
      BY <3>1, <3>2
  <2>. QED
    BY <2>1
<1>. HIDE DEF step
<1>6. IsLevel(level)
  BY <1>5
<1>7. \A t : Level(h, c, t) = level[t]
  BY DEF Level, Spent
<1>. HIDE DEF level
<1>. QED
  BY <1>6, <1>7 DEF Spent

LEMMA LevelIs == \A c : CreditOf(c) = Level(allowed, c, now)
BY DEF CreditOf, Level

LEMMA LevelNext ==
  ASSUME NEW h \in Histories, NEW c \in Clients, NEW t \in 0..MaxTime, t + 1 \in 0..MaxTime
  PROVE  Level(h, c, t + 1) = (IF Level(h, c, t) + Rate > Full THEN Full ELSE Level(h, c, t) + Rate)
                                - h[c][t + 1] * Second
<1>1. t + 1 # 0 /\ (t + 1) - 1 = t
  BY TableAssumption
<1>2. Level(h, c, t + 1) = (IF t + 1 = 0 \/ Level(h, c, (t + 1) - 1) + Rate > Full THEN Full
                            ELSE Level(h, c, (t + 1) - 1) + Rate) - h[c][t + 1] * Second
  BY Levels
<1>. QED
  BY <1>1, <1>2

LEMMA LevelInt ==
  ASSUME NEW h \in Histories, NEW c \in Clients, NEW to \in 0..MaxTime
  PROVE  Level(h, c, to) \in Int
<1>. DEFINE S == {t \in Nat : t \in 0..MaxTime => Level(h, c, t) \in Int}
<1>1. MaxTime \in Nat /\ \A t \in 0..MaxTime : h[c][t] * Second \in Nat
  <2>1. \A t \in 0..MaxTime : h[c][t] \in Nat
    BY DEF Histories
  <2>. QED
    BY <2>1, Numbers
<1>2. 0 \in S
  <2>1. 0 \in 0..MaxTime
    BY <1>1
  <2>2. Level(h, c, 0) = Full - h[c][0] * Second
    BY <2>1, Levels
  <2>. QED
    BY <1>1, <2>1, <2>2, Numbers
<1>3. ASSUME NEW t \in S PROVE t + 1 \in S
  <2>1. CASE t + 1 \in 0..MaxTime
    <3>1. t \in 0..MaxTime /\ h[c][t + 1] * Second \in Nat
      BY <1>1, <2>1
    <3>2. Level(h, c, t + 1) = (IF Level(h, c, t) + Rate > Full THEN Full ELSE Level(h, c, t) + Rate) - h[c][t + 1] * Second
      BY <2>1, <3>1, LevelNext
    <3>. QED
      BY <2>1, <3>1, <3>2, Numbers
  <2>. QED
    BY <2>1
<1>4. S = Nat
  <2>. HIDE DEF S
  <2>1. S \in SUBSET Nat
    BY DEF S
  <2>. QED
    BY <1>2, <1>3, <2>1, NatSetInduction
<1>. QED
  BY <1>1, <1>4

LEMMA LevelSame ==
  ASSUME NEW h \in Histories, NEW g \in Histories, NEW c \in Clients, NEW to \in 0..MaxTime,
         \A t \in 0..to : h[c][t] = g[c][t]
  PROVE  Level(h, c, to) = Level(g, c, to)
<1>. DEFINE S == {t \in Nat : t \in 0..to => Level(h, c, t) = Level(g, c, t)}
<1>1. MaxTime \in Nat
  BY TableAssumption
<1>2. 0 \in S
  <2>1. 0 \in 0..MaxTime /\ 0 \in 0..to
    BY <1>1
  <2>2. Level(h, c, 0) = Full - h[c][0] * Second /\ Level(g, c, 0) = Full - g[c][0] * Second
    BY <2>1, Levels
  <2>. QED
    BY <2>1, <2>2
<1>3. ASSUME NEW t \in S PROVE t + 1 \in S
  <2>1. CASE t + 1 \in 0..to
    <3>1. t + 1 # 0 /\ (t + 1) - 1 = t /\ t + 1 \in 0..MaxTime /\ t \in 0..MaxTime /\ t \in 0..to
      BY <1>1, <2>1
    <3>2. Level(h, c, t + 1) = (IF Level(h, c, t) + Rate > Full THEN Full ELSE Level(h, c, t) + Rate) - h[c][t + 1] * Second
      BY <3>1, LevelNext
    <3>3. Level(g, c, t + 1) = (IF Level(g, c, t) + Rate > Full THEN Full ELSE Level(g, c, t) + Rate) - g[c][t + 1] * Second
      BY <3>1, LevelNext
    <3>. QED
      BY <3>1, <3>2, <3>3, <2>1
  <2>. QED
    BY <2>1
<1>4. S = Nat
  <2>. HIDE DEF S
  <2>1. S \in SUBSET Nat
    BY DEF S
  <2>. QED
    BY <1>2, <1>3, <2>1, NatSetInduction
<1>. QED
  BY <1>4

(* A bucket nobody has used is full.                                       *)
LEMMA LevelNever ==
  ASSUME NEW c \in Clients, NEW to \in 0..MaxTime
  PROVE  Level(Never, c, to) = Full
<1>. DEFINE S == {t \in Nat : t \in 0..MaxTime => Level(Never, c, t) = Full}
<1>1. MaxTime \in Nat /\ Never \in Histories /\ \A t \in 0..MaxTime : Never[c][t] = 0
  BY TableAssumption DEF Never, Histories
<1>2. Full - 0 * Second = Full /\ Full + Rate > Full
  <2>1. Rate # 0
    BY RateAssumption
  <2>. QED
    BY <2>1, Numbers
<1>3. 0 \in S
  <2>1. 0 \in 0..MaxTime
    BY <1>1
  <2>2. Level(Never, c, 0) = Full - Never[c][0] * Second
    BY <1>1, <2>1, Levels
  <2>. QED
    BY <1>1, <1>2, <2>1, <2>2
<1>4. ASSUME NEW t \in S PROVE t + 1 \in S
  <2>1. CASE t + 1 \in 0..MaxTime
    <3>1. t \in 0..MaxTime
      BY <1>1, <2>1
    <3>2. Level(Never, c, t + 1)
            = (IF Level(Never, c, t) + Rate > Full THEN Full ELSE Level(Never, c, t) + Rate) - Never[c][t + 1] * Second
      BY <1>1, <2>1, <3>1, LevelNext
    <3>. QED
      BY <1>1, <1>2, <2>1, <3>1, <3>2
  <2>. QED
    BY <2>1
<1>5. S = Nat
  <2>. HIDE DEF S
  <2>1. S \in SUBSET Nat
    BY DEF S
  <2>. QED
    BY <1>3, <1>4, <2>1, NatSetInduction
<1>. QED
  BY <1>1, <1>5

(* A request lowers the level of who sent it.                              *)
LEMMA LevelMore ==
  ASSUME NEW h \in Histories, NEW c \in Clients, NEW at \in 0..MaxTime, NEW a \in Nat, Level(h, c, at) = a
  PROVE  /\ Level(More(h, c, at), c, at) = a - Second
         /\ \A d \in Clients : d # c => Level(More(h, c, at), d, at) = Level(h, d, at)
<1>. DEFINE g == More(h, c, at)
<1>1. MaxTime \in Nat /\ g \in Histories
  BY TableAssumption, MoreIs
<1>2. ASSUME NEW d \in Clients, d # c PROVE Level(g, d, at) = Level(h, d, at)
  <2>1. \A t \in 0..at : g[d][t] = h[d][t]
    BY <1>1, <1>2, MoreIs
  <2>. QED
    BY <1>1, <2>1, LevelSame
<1>3. Level(g, c, at) = a - Second
  <2>1. g[c][at] = h[c][at] + 1 /\ h[c][at] \in Nat
    BY MoreIs, ZenonT(60) DEF Histories
  <2>2. g[c][at] * Second = h[c][at] * Second + Second /\ h[c][at] * Second \in Nat
    BY <2>1, Numbers
  <2>. DEFINE before(f) == IF at = 0 \/ Level(f, c, at - 1) + Rate > Full THEN Full ELSE Level(f, c, at - 1) + Rate
  <2>3. Level(h, c, at) = before(h) - h[c][at] * Second /\ Level(g, c, at) = before(g) - g[c][at] * Second
    BY <1>1, Levels
  <2>4. before(g) = before(h)
    <3>1. CASE at = 0
      BY <3>1
    <3>2. CASE at # 0
      <4>0. at - 1 \in 0..MaxTime /\ \A t \in 0..at - 1 : t \in 0..MaxTime /\ t # at
        BY <1>1, <3>2
      <4>1. at - 1 \in 0..MaxTime /\ \A t \in 0..at - 1 : g[c][t] = h[c][t]
        BY <4>0, MoreIs
      <4>2. Level(g, c, at - 1) = Level(h, c, at - 1)
        BY <1>1, <4>1, LevelSame
      <4>. QED
        BY <4>2
    <3>. QED
      BY <3>1, <3>2
  <2>5. before(h) \in Int
    <3>1. CASE at = 0
      BY <3>1, Numbers
    <3>2. CASE at # 0
      <4>1. at - 1 \in 0..MaxTime
        BY <1>1, <3>2
      <4>2. Level(h, c, at - 1) \in Int
        BY <4>1, LevelInt
      <4>. QED
        BY <4>2, Numbers
    <3>. QED
      BY <3>1, <3>2
  <2>. HIDE DEF before, g
  <2>. QED
    BY <2>2, <2>3, <2>4, <2>5, Numbers
<1>. QED
  BY <1>2, <1>3
-----------------------------------------------------------------------------
(* The windows that begin in d ticks, and one more that had begun before.  *)
Ceil(d) == (d + Window - 1) \div Window

LEMMA ProductGrows ==
  ASSUME NEW x \in Nat, NEW y \in Nat, NEW k \in Nat, x <= y
  PROVE  x * k \in Nat /\ y * k \in Nat /\ x * k <= y * k
<1>1. PICK more \in Nat : y = x + more
  <2>1. y - x \in Nat /\ y = x + (y - x)
    OBVIOUS
  <2>. QED
    BY <2>1
<1>2. (x + more) * k = x * k + more * k /\ x * k \in Nat /\ more * k \in Nat
  OBVIOUS
<1>. QED
  BY <1>1, <1>2

LEMMA Ceilings ==
  /\ Window \in Nat /\ Window >= 1 /\ PerWindow \in Nat /\ PerWindow >= 1
  /\ Ceil(0) = 0
  /\ \A d \in Nat : Ceil(d) \in Nat /\ Ceil(d + Window) = Ceil(d) + 1
  /\ \A d \in Nat : d >= 1 => Ceil(d) >= 1
  /\ \A d \in Nat, e \in Nat : d <= e => Ceil(d) <= Ceil(e)
<1>1. Window \in Nat /\ Window >= 1 /\ PerWindow \in Nat /\ PerWindow >= 1
  BY QuotaAssumption
<1>2. \A a \in Nat : a \div Window \in Nat /\ (a \div Window) * Window <= a /\ a < (a \div Window) * Window + Window
  BY <1>1
<1>3. \A q \in Nat, r \in 0..Window - 1 : (q * Window + r) \div Window = q
  BY <1>1
<1>4. Ceil(0) = 0
  <2>1. 0 * Window + (Window - 1) = 0 + Window - 1 /\ Window - 1 \in 0..Window - 1
    BY <1>1
  <2>. QED
    BY <1>3, <2>1 DEF Ceil
<1>5. ASSUME NEW d \in Nat PROVE Ceil(d) \in Nat /\ Ceil(d + Window) = Ceil(d) + 1
  <2>. DEFINE a == d + Window - 1
              q == a \div Window
  <2>1. a \in Nat
    BY <1>1
  <2>2. q \in Nat /\ q * Window \in Nat /\ q * Window <= a /\ a < q * Window + Window
    BY <1>1, <1>2, <2>1
  <2>3. a - q * Window \in 0..Window - 1
    BY <1>1, <2>1, <2>2
  <2>4. (q + 1) * Window + (a - q * Window) = d + Window + Window - 1
    <3>1. (q + 1) * Window = q * Window + Window
      BY <1>1, <2>2
    <3>2. a = d + Window - 1
      OBVIOUS
    <3>. HIDE DEF a, q
    <3>. QED
      BY <1>1, <2>1, <2>2, <3>1, <3>2
  <2>5. Ceil(d) = q
    BY DEF Ceil
  <2>6. Ceil(d + Window) = (d + Window + Window - 1) \div Window
    BY DEF Ceil
  <2>. HIDE DEF a, q
  <2>7. ((q + 1) * Window + (a - q * Window)) \div Window = q + 1
    BY <1>3, <2>2, <2>3
  <2>. QED
    BY <2>2, <2>4, <2>5, <2>6, <2>7
<1>6. ASSUME NEW d \in Nat, NEW e \in Nat, d <= e PROVE Ceil(d) <= Ceil(e)
  <2>. DEFINE a == d + Window - 1
              b == e + Window - 1
              q == a \div Window
              p == b \div Window
  <2>1. a \in Nat /\ b \in Nat /\ a <= b
    BY <1>1, <1>6
  <2>2. Ceil(d) = q /\ Ceil(e) = p
    BY DEF Ceil
  <2>. HIDE DEF a, b
  <2>3. q \in Nat /\ q * Window <= a /\ p \in Nat /\ b < p * Window + Window
    BY <1>1, <1>2, <2>1
  <2>. HIDE DEF q, p
  <2>4. (p + 1) * Window = p * Window + Window /\ p * Window \in Nat
    BY <1>1, <2>3
  <2>5. ASSUME p + 1 <= q PROVE FALSE
    <3>1. (p + 1) * Window <= q * Window /\ q * Window \in Nat
      BY <1>1, <2>3, <2>5, ProductGrows
    <3>. QED
      BY <1>1, <2>1, <2>3, <2>4, <3>1
  <2>. QED
    BY <2>2, <2>3, <2>5
<1>7. ASSUME NEW d \in Nat, d >= 1 PROVE Ceil(d) >= 1
  <2>1. Ceil(1) = 1
    <3>1. 1 * Window + 0 = 1 + Window - 1 /\ 0 \in 0..Window - 1
      BY <1>1
    <3>. QED
      BY <1>3, <3>1 DEF Ceil
  <2>. QED
    BY <1>6, <1>7, <2>1
<1>. QED
  BY <1>1, <1>4, <1>5, <1>6, <1>7
-----------------------------------------------------------------------------
(* A window that is never dropped, tick by tick.                           *)
NoWindow == [created |-> 0, resets |-> 0]
Windows == [created : Nat, resets : Nat]

(* The window with k more in it at tick t.                                 *)
Counted(w, k, t) ==
  IF k = 0 THEN w
  ELSE IF t >= w.resets THEN [created |-> k, resets |-> t + Window]
  ELSE [w EXCEPT !.created = @ + k]

Ran(h, c, n) ==
  LET window[t \in 0..MaxTime] ==
        LET before == IF t = 0 THEN [created |-> 0, resets |-> 0] ELSE window[t - 1] IN
        IF h[c][t] = 0 THEN before
        ELSE IF t >= before.resets THEN [created |-> h[c][t], resets |-> t + Window]
        ELSE [before EXCEPT !.created = @ + h[c][t]]
  IN window[n]

LEMMA CountedIs ==
  ASSUME NEW w \in Windows, NEW k \in Nat, NEW t \in Nat
  PROVE  Counted(w, k, t) \in Windows
BY Ceilings, SMTT(30) DEF Counted, Windows

LEMMA Running ==
  ASSUME NEW h \in Histories, NEW c \in Clients
  PROVE  \A t \in 0..MaxTime :
           Ran(h, c, t) = Counted(IF t = 0 THEN NoWindow ELSE Ran(h, c, t - 1), h[c][t], t)
<1>. DEFINE Here(t) == h[c][t]
            IsRun(f) == f = [t \in 0..MaxTime |-> Counted(IF t = 0 THEN NoWindow ELSE f[t - 1], Here(t), t)]
            window == CHOOSE f : IsRun(f)
            step == [t \in Nat |-> [w \in Windows |-> IF t \in 0..MaxTime THEN Counted(w, Here(t), t) ELSE w]]
<1>1. MaxTime \in Nat /\ \A t \in 0..MaxTime : Here(t) \in Nat
  BY Numbers DEF Histories
<1>7. \A t : Ran(h, c, t) = window[t]
  BY DEF Ran, Counted, NoWindow
<1>. HIDE DEF Here
<1>2. NoWindow \in Windows
  BY DEF NoWindow, Windows
<1>3. step \in [Nat -> [Windows -> Windows]]
  BY <1>1, CountedIs
<1>4. PICK f \in [0..MaxTime -> Windows] : Iterates(f, Counted(NoWindow, Here(0), 0), step, MaxTime)
  <2>1. 0 \in 0..MaxTime
    BY <1>1
  <2>2. Counted(NoWindow, Here(0), 0) \in Windows
    BY <1>1, <1>2, <2>1, CountedIs
  <2>. HIDE DEF step
  <2>. QED
    BY <1>1, <1>3, <2>2, Recursion
<1>5. IsRun(f)
  <2>1. ASSUME NEW t \in 0..MaxTime
        PROVE  f[t] = Counted(IF t = 0 THEN NoWindow ELSE f[t - 1], Here(t), t)
    <3>1. CASE t = 0
      BY <1>4, <3>1 DEF Iterates
    <3>2. CASE t # 0
      <4>1. t - 1 \in 0..MaxTime /\ t \in 1..MaxTime /\ t \in Nat
        BY <1>1, <3>2
      <4>2. f[t - 1] \in Windows
        BY <4>1
      <4>3. step[t][f[t - 1]] = Counted(f[t - 1], Here(t), t)
        BY <4>1, <4>2
      <4>. HIDE DEF step
      <4>. QED
        BY <1>4, <3>2, <4>1, <4>3 DEF Iterates
    <3>. QED
      BY <3>1, <3>2
  <2>. QED
    BY <2>1
<1>. HIDE DEF step
<1>6. IsRun(window)
  BY <1>5
<1>. HIDE DEF window
<1>. QED
  BY <1>6, <1>7 DEF Here

LEMMA RanIs == \A c : QuotaOf(c) = LET w == Ran(created, c, now) IN
                                   IF now >= w.resets THEN PerWindow ELSE PerWindow - w.created
BY DEF QuotaOf, Ran

LEMMA RanNext ==
  ASSUME NEW h \in Histories, NEW c \in Clients, NEW t \in 0..MaxTime, t + 1 \in 0..MaxTime
  PROVE  Ran(h, c, t + 1) = Counted(Ran(h, c, t), h[c][t + 1], t + 1)
<1>1. t + 1 # 0 /\ (t + 1) - 1 = t
  BY TableAssumption
<1>2. Ran(h, c, t + 1) = Counted(IF t + 1 = 0 THEN NoWindow ELSE Ran(h, c, (t + 1) - 1), h[c][t + 1], t + 1)
  BY Running
<1>. QED
  BY <1>1, <1>2

LEMMA RanType ==
  ASSUME NEW h \in Histories, NEW c \in Clients, NEW to \in 0..MaxTime
  PROVE  Ran(h, c, to) \in Windows
<1>. DEFINE S == {t \in Nat : t \in 0..MaxTime => Ran(h, c, t) \in Windows}
<1>1. MaxTime \in Nat /\ (\A t \in 0..MaxTime : h[c][t] \in Nat) /\ NoWindow \in Windows
  BY TableAssumption DEF Histories, NoWindow, Windows
<1>2. 0 \in S
  <2>1. 0 \in 0..MaxTime
    BY <1>1
  <2>2. Ran(h, c, 0) = Counted(NoWindow, h[c][0], 0)
    BY <2>1, Running
  <2>. QED
    BY <1>1, <2>1, <2>2, CountedIs
<1>3. ASSUME NEW t \in S PROVE t + 1 \in S
  <2>1. CASE t + 1 \in 0..MaxTime
    <3>1. t \in 0..MaxTime /\ h[c][t + 1] \in Nat /\ t + 1 \in Nat
      BY <1>1, <2>1
    <3>2. Ran(h, c, t + 1) = Counted(Ran(h, c, t), h[c][t + 1], t + 1)
      BY <2>1, <3>1, RanNext
    <3>. QED
      BY <3>1, <3>2, CountedIs
  <2>. QED
    BY <2>1
<1>4. S = Nat
  <2>. HIDE DEF S
  <2>1. S \in SUBSET Nat
    BY DEF S
  <2>. QED
    BY <1>2, <1>3, <2>1, NatSetInduction
<1>. QED
  BY <1>1, <1>4

LEMMA RanSame ==
  ASSUME NEW h \in Histories, NEW g \in Histories, NEW c \in Clients, NEW to \in 0..MaxTime,
         \A t \in 0..to : h[c][t] = g[c][t]
  PROVE  Ran(h, c, to) = Ran(g, c, to)
<1>. DEFINE S == {t \in Nat : t \in 0..to => Ran(h, c, t) = Ran(g, c, t)}
<1>1. MaxTime \in Nat
  BY TableAssumption
<1>2. 0 \in S
  <2>1. 0 \in 0..MaxTime /\ 0 \in 0..to
    BY <1>1
  <2>2. Ran(h, c, 0) = Counted(NoWindow, h[c][0], 0) /\ Ran(g, c, 0) = Counted(NoWindow, g[c][0], 0)
    BY <2>1, Running
  <2>. QED
    BY <2>1, <2>2
<1>3. ASSUME NEW t \in S PROVE t + 1 \in S
  <2>1. CASE t + 1 \in 0..to
    <3>1. t + 1 \in 0..MaxTime /\ t \in 0..MaxTime /\ t \in 0..to
      BY <1>1, <2>1
    <3>2. Ran(h, c, t + 1) = Counted(Ran(h, c, t), h[c][t + 1], t + 1)
      BY <3>1, RanNext
    <3>3. Ran(g, c, t + 1) = Counted(Ran(g, c, t), g[c][t + 1], t + 1)
      BY <3>1, RanNext
    <3>. QED
      BY <3>1, <3>2, <3>3, <2>1
  <2>. QED
    BY <2>1
<1>4. S = Nat
  <2>. HIDE DEF S
  <2>1. S \in SUBSET Nat
    BY DEF S
  <2>. QED
    BY <1>2, <1>3, <2>1, NatSetInduction
<1>. QED
  BY <1>4

LEMMA RanNever ==
  ASSUME NEW c \in Clients, NEW to \in 0..MaxTime
  PROVE  Ran(Never, c, to) = NoWindow
<1>. DEFINE S == {t \in Nat : t \in 0..MaxTime => Ran(Never, c, t) = NoWindow}
<1>1. MaxTime \in Nat /\ Never \in Histories /\ \A t \in 0..MaxTime : Never[c][t] = 0
  BY TableAssumption DEF Never, Histories
<1>2. \A t : Counted(NoWindow, 0, t) = NoWindow
  BY DEF Counted
<1>3. 0 \in S
  <2>1. 0 \in 0..MaxTime
    BY <1>1
  <2>2. Ran(Never, c, 0) = Counted(NoWindow, Never[c][0], 0)
    BY <1>1, <2>1, Running
  <2>. QED
    BY <1>1, <1>2, <2>1, <2>2
<1>4. ASSUME NEW t \in S PROVE t + 1 \in S
  <2>1. CASE t + 1 \in 0..MaxTime
    <3>1. t \in 0..MaxTime
      BY <1>1, <2>1
    <3>2. Ran(Never, c, t + 1) = Counted(Ran(Never, c, t), Never[c][t + 1], t + 1)
      BY <1>1, <2>1, <3>1, RanNext
    <3>. QED
      BY <1>1, <1>2, <2>1, <3>1, <3>2
  <2>. QED
    BY <2>1
<1>5. S = Nat
  <2>. HIDE DEF S
  <2>1. S \in SUBSET Nat
    BY DEF S
  <2>. QED
    BY <1>3, <1>4, <2>1, NatSetInduction
<1>. QED
  BY <1>1, <1>5

(* One more in a window is the same as one more in the history of it.      *)
LEMMA CountedOne ==
  ASSUME NEW w \in Windows, NEW k \in Nat, NEW t \in Nat
  PROVE  Counted(w, k + 1, t) = Counted(Counted(w, k, t), 1, t)
<1>1. Window \in Nat /\ Window >= 1 /\ t < t + Window
  BY Ceilings
<1>2. w = [created |-> w.created, resets |-> w.resets] /\ w.created \in Nat /\ w.resets \in Nat
  BY DEF Windows
<1>3. CASE k = 0
  BY <1>3 DEF Counted
<1>4. CASE k # 0 /\ t >= w.resets
  <2>1. Counted(w, k, t) = [created |-> k, resets |-> t + Window]
    BY <1>4 DEF Counted
  <2>2. Counted(w, k + 1, t) = [created |-> k + 1, resets |-> t + Window]
    BY <1>4 DEF Counted
  <2>3. ~ (t >= Counted(w, k, t).resets)
    BY <1>1, <2>1
  <2>4. Counted(Counted(w, k, t), 1, t) = [Counted(w, k, t) EXCEPT !.created = @ + 1]
    BY <2>3 DEF Counted
  <2>. QED
    BY <2>1, <2>2, <2>4
<1>5. CASE k # 0 /\ ~ (t >= w.resets)
  <2>1. Counted(w, k, t) = [created |-> w.created + k, resets |-> w.resets]
    BY <1>2, <1>5 DEF Counted
  <2>2. Counted(w, k + 1, t) = [created |-> w.created + (k + 1), resets |-> w.resets]
    BY <1>2, <1>5 DEF Counted
  <2>3. ~ (t >= Counted(w, k, t).resets)
    BY <1>5, <2>1
  <2>4. Counted(Counted(w, k, t), 1, t) = [Counted(w, k, t) EXCEPT !.created = @ + 1]
    BY <2>3 DEF Counted
  <2>. QED
    BY <1>2, <2>1, <2>2, <2>4
<1>. QED
  BY <1>3, <1>4, <1>5

LEMMA RanMore ==
  ASSUME NEW h \in Histories, NEW c \in Clients, NEW at \in 0..MaxTime
  PROVE  /\ Ran(More(h, c, at), c, at) = Counted(Ran(h, c, at), 1, at)
         /\ \A d \in Clients : d # c => Ran(More(h, c, at), d, at) = Ran(h, d, at)
<1>. DEFINE g == More(h, c, at)
<1>1. MaxTime \in Nat /\ g \in Histories
  BY TableAssumption, MoreIs
<1>2. ASSUME NEW d \in Clients, d # c PROVE Ran(g, d, at) = Ran(h, d, at)
  <2>1. \A t \in 0..at : g[d][t] = h[d][t]
    BY <1>1, <1>2, MoreIs
  <2>. QED
    BY <1>1, <2>1, RanSame
<1>3. Ran(g, c, at) = Counted(Ran(h, c, at), 1, at)
  <2>0. at \in Nat
    BY <1>1
  <2>1. g[c][at] = h[c][at] + 1 /\ h[c][at] \in Nat
    BY MoreIs, ZenonT(60) DEF Histories
  <2>. DEFINE before(f) == IF at = 0 THEN NoWindow ELSE Ran(f, c, at - 1)
  <2>2. Ran(h, c, at) = Counted(before(h), h[c][at], at) /\ Ran(g, c, at) = Counted(before(g), g[c][at], at)
    BY <1>1, Running
  <2>3. before(g) = before(h) /\ before(h) \in Windows
    <3>1. CASE at = 0
      BY <3>1 DEF NoWindow, Windows
    <3>2. CASE at # 0
      <4>0. at - 1 \in 0..MaxTime /\ \A t \in 0..at - 1 : t \in 0..MaxTime /\ t # at
        BY <1>1, <3>2
      <4>1. at - 1 \in 0..MaxTime /\ \A t \in 0..at - 1 : g[c][t] = h[c][t]
        BY <4>0, MoreIs
      <4>2. Ran(g, c, at - 1) = Ran(h, c, at - 1) /\ Ran(h, c, at - 1) \in Windows
        BY <1>1, <4>1, RanSame, RanType
      <4>. QED
        BY <3>2, <4>2
    <3>. QED
      BY <3>1, <3>2
  <2>. HIDE DEF before, g
  <2>. QED
    BY <2>0, <2>1, <2>2, <2>3, CountedOne
<1>. QED
  BY <1>2, <1>3
-----------------------------------------------------------------------------
(* What the window of now, begun Window ticks before it resets, says of the
   history: what was created since is in it, and what was created before it
   filled no more windows than have begun since.                           *)
Within(w, h, c, n) ==
  /\ w \in Windows /\ w.created <= PerWindow /\ w.resets <= n + Window
  /\ h[c][n] > 0 => w.resets > n
  /\ \A s \in 0..n :
       \/ s + Window > w.resets /\ Count(h, c, s, n) <= w.created
       \/ /\ s + Window <= w.resets
          /\ Count(h, c, s, n) <= w.created + PerWindow * Ceil(w.resets - Window - s)
  /\ \A s \in 0..n, t \in 0..n : s <= t => Count(h, c, s, t) <= PerWindow * (Ceil(t - s) + 1)

LEMMA Products ==
  \A x \in Nat : PerWindow * x \in Nat /\ PerWindow * (x + 1) = PerWindow * x + PerWindow
BY Ceilings

LEMMA ProductsGrow ==
  ASSUME NEW x \in Nat, NEW y \in Nat, x <= y
  PROVE  PerWindow * x <= PerWindow * y
<1>1. PerWindow * x = x * PerWindow /\ PerWindow * y = y * PerWindow
  BY Ceilings
<1>. QED
  BY <1>1, Ceilings, ProductGrows

(* What the spans that end now come to.                                    *)
LEMMA WithinSpans ==
  ASSUME NEW c \in Clients, NEW n \in 0..MaxTime, NEW h \in Histories, NEW w \in Windows,
         w.created <= PerWindow, w.resets <= n + Window, NEW s \in 0..n,
         \/ s + Window > w.resets /\ Count(h, c, s, n) <= w.created
         \/ /\ s + Window <= w.resets
            /\ Count(h, c, s, n) <= w.created + PerWindow * Ceil(w.resets - Window - s)
  PROVE  Count(h, c, s, n) <= PerWindow * (Ceil(n - s) + 1)
<1>1. /\ n \in Nat /\ s \in Nat /\ n - s \in Nat /\ Window \in Nat /\ PerWindow \in Nat
      /\ w.created \in Nat /\ w.resets \in Nat
  BY Numbers, Ceilings DEF Windows
<1>2. Ceil(n - s) \in Nat
  BY <1>1, Ceilings
<1>3. PerWindow * (Ceil(n - s) + 1) = PerWindow * Ceil(n - s) + PerWindow /\ PerWindow * Ceil(n - s) \in Nat
  BY <1>2, Products
<1>4. Count(h, c, s, n) \in Nat
  BY <1>1, Counting
<1>5. CASE s + Window > w.resets
  BY <1>1, <1>3, <1>4, <1>5
<1>6. CASE s + Window <= w.resets
  <2>. DEFINE d == w.resets - Window - s
  <2>1. d \in Nat /\ d <= n - s
    BY <1>1, <1>6
  <2>2. Ceil(d) \in Nat /\ Ceil(d) <= Ceil(n - s)
    BY <1>1, <2>1, Ceilings
  <2>3. PerWindow * Ceil(d) <= PerWindow * Ceil(n - s) /\ PerWindow * Ceil(d) \in Nat
    BY <1>2, <2>2, Products, ProductsGrow
  <2>4. Count(h, c, s, n) <= w.created + PerWindow * Ceil(d)
    BY <1>1, <1>6
  <2>. HIDE DEF d
  <2>. QED
    BY <1>1, <1>3, <1>4, <2>3, <2>4
<1>. QED
  BY <1>5, <1>6, <1>1

LEMMA NeverWithin ==
  ASSUME NEW c \in Clients, NEW n \in 0..MaxTime
  PROVE  Within(NoWindow, Never, c, n)
<1>1. Never \in Histories /\ \A t \in 0..MaxTime : Never[c][t] = 0
  BY DEF Never, Histories
<1>2. n \in Nat /\ \A t \in 0..n : t \in Nat /\ t \in 0..MaxTime
  BY Numbers
<1>3. \A s \in 0..n, t \in 0..n : Count(Never, c, s, t) = 0
  <2>1. ASSUME NEW s \in 0..n, NEW t \in 0..n PROVE Count(Never, c, s, t) = 0
    <3>1. \A u \in 0..t : u \in 0..MaxTime
      BY Numbers
    <3>. QED
      BY <1>1, <1>2, <3>1, CountNone
  <2>. QED
    BY <2>1
<1>4. /\ NoWindow \in Windows /\ NoWindow.created = 0 /\ NoWindow.resets = 0
      /\ 0 <= PerWindow /\ 0 <= n + Window /\ \A s \in 0..n : s + Window > 0
  BY <1>2, Ceilings DEF NoWindow, Windows
<1>5. ASSUME NEW s \in 0..n, NEW t \in 0..n, s <= t
      PROVE  0 <= PerWindow * (Ceil(t - s) + 1)
  <2>1. t - s \in Nat
    BY <1>2, <1>5
  <2>2. Ceil(t - s) + 1 \in Nat
    BY <2>1, Ceilings, SMTT(30)
  <2>. QED
    BY <2>2, Products
<1>6. Never[c][n] = 0 /\ n \in 0..n
  BY <1>1, <1>2
<1>. QED
  BY <1>3, <1>4, <1>5, <1>6 DEF Within

LEMMA TickWithin ==
  ASSUME NEW c \in Clients, NEW n \in 0..MaxTime, n + 1 \in 0..MaxTime, NEW h \in Histories, NEW w,
         Within(w, h, c, n), \A t \in 0..MaxTime : t > n => h[c][t] = 0
  PROVE  Within(w, h, c, n + 1)
<1>1. /\ n \in Nat /\ Window \in Nat /\ PerWindow \in Nat /\ h[c][n + 1] = 0
      /\ w \in Windows /\ w.created \in Nat /\ w.resets \in Nat
      /\ w.created <= PerWindow /\ w.resets <= n + Window
  <2>1. n \in Nat /\ n + 1 > n
    BY Numbers
  <2>2. h[c][n + 1] = 0
    BY <2>1
  <2>3. w \in Windows /\ w.created <= PerWindow /\ w.resets <= n + Window
    BY DEF Within
  <2>4. w.created \in Nat /\ w.resets \in Nat
    BY <2>3 DEF Windows
  <2>. QED
    BY <2>1, <2>2, <2>3, <2>4, Ceilings
<1>2. \A s \in Nat : Count(h, c, s, n + 1) = Count(h, c, s, n) /\ Count(h, c, s, n) \in Nat
  <2>1. ASSUME NEW s \in Nat PROVE Count(h, c, s, n + 1) = Count(h, c, s, n) /\ Count(h, c, s, n) \in Nat
    <3>1. Count(h, c, s, n + 1) = Count(h, c, s, n) + 0 /\ Count(h, c, s, n) \in Nat
      BY <1>1, CountNext, Counting
    <3>. QED
      BY <3>1
  <2>. QED
    BY <2>1
<1>3. Count(h, c, n + 1, n + 1) = 0
  <2>1. n + 1 \in Nat /\ \A t \in 0..n + 1 : t >= n + 1 => h[c][t] = 0
    BY <1>1
  <2>. QED
    BY <2>1, CountNone
<1>4. ASSUME NEW s \in 0..n + 1
      PROVE  \/ s + Window > w.resets /\ Count(h, c, s, n + 1) <= w.created
             \/ /\ s + Window <= w.resets
                /\ Count(h, c, s, n + 1) <= w.created + PerWindow * Ceil(w.resets - Window - s)
  <2>1. CASE s = n + 1
    BY <1>1, <1>3, <2>1
  <2>2. CASE s # n + 1
    <3>1. s \in 0..n /\ s \in Nat
      BY <1>1, <2>2
    <3>2. Count(h, c, s, n + 1) = Count(h, c, s, n)
      BY <1>2, <3>1
    <3>. QED
      BY <3>1, <3>2 DEF Within
  <2>. QED
    BY <2>1, <2>2
<1>5. ASSUME NEW s \in 0..n + 1, NEW t \in 0..n + 1, s <= t
      PROVE  Count(h, c, s, t) <= PerWindow * (Ceil(t - s) + 1)
  <2>1. CASE t = n + 1
    <3>1. w.resets <= (n + 1) + Window
      BY <1>1
    <3>. QED
      BY <1>1, <1>4, <2>1, <3>1, WithinSpans
  <2>2. CASE t # n + 1
    <3>1. t \in 0..n /\ s \in 0..n
      BY <1>1, <1>5, <2>2
    <3>. QED
      BY <1>5, <3>1 DEF Within
  <2>. QED
    BY <2>1, <2>2
<1>6. w.resets <= (n + 1) + Window /\ (h[c][n + 1] > 0 => w.resets > n + 1)
  BY <1>1
<1>. QED
  BY <1>1, <1>4, <1>5, <1>6 DEF Within

LEMMA OthersWithin ==
  ASSUME NEW c \in Clients, NEW d \in Clients, d # c, NEW n \in 0..MaxTime, NEW h \in Histories, NEW w,
         Within(w, h, d, n)
  PROVE  Within(w, More(h, c, n), d, n)
<1>1. n \in 0..n /\ \A t \in 0..n : t \in Nat /\ t \in 0..MaxTime
  BY Numbers
<1>2. \A s \in 0..n, t \in 0..n : Count(More(h, c, n), d, s, t) = Count(h, d, s, t)
  BY <1>1, CountMore
<1>3. More(h, c, n)[d] = h[d]
  BY MoreIs
<1>. QED
  BY <1>1, <1>2, <1>3 DEF Within

(* The window to count in at tick n.                                       *)
OpenAt(w, n) == IF n >= w.resets THEN [created |-> 0, resets |-> n + Window] ELSE w

(* An entry goes into the window that is open.                             *)
LEMMA GrantWithin ==
  ASSUME NEW c \in Clients, NEW n \in 0..MaxTime, NEW h \in Histories, NEW w,
         Within(w, h, c, n), OpenAt(w, n).created < PerWindow
  PROVE  Within(Counted(w, 1, n), More(h, c, n), c, n)
<1>. DEFINE g == More(h, c, n)
            v == Counted(w, 1, n)
<1>1. /\ n \in Nat /\ n \in 0..n /\ Window \in Nat /\ Window >= 1 /\ PerWindow \in Nat /\ PerWindow >= 1
      /\ w \in Windows /\ w = [created |-> w.created, resets |-> w.resets]
      /\ w.created \in Nat /\ w.resets \in Nat
      /\ w.created <= PerWindow /\ w.resets <= n + Window
      /\ g \in Histories /\ h[c][n] \in Nat
  <2>1. n \in Nat /\ n \in 0..n
    BY Numbers
  <2>2. w \in Windows /\ w.created <= PerWindow /\ w.resets <= n + Window
    BY DEF Within
  <2>3. w = [created |-> w.created, resets |-> w.resets] /\ w.created \in Nat /\ w.resets \in Nat
    BY <2>2 DEF Windows
  <2>4. g \in Histories
    BY MoreIs
  <2>5. h[c][n] \in Nat
    BY DEF Histories
  <2>. QED
    BY <2>1, <2>2, <2>3, <2>4, <2>5, Ceilings
<1>2. \A s \in 0..n : Count(g, c, s, n) = Count(h, c, s, n) + 1 /\ Count(h, c, s, n) \in Nat
  <2>1. ASSUME NEW s \in 0..n PROVE Count(g, c, s, n) = Count(h, c, s, n) + 1 /\ Count(h, c, s, n) \in Nat
    <3>1. s \in Nat /\ n >= s
      BY <1>1
    <3>. QED
      BY <3>1, CountMore, Counting
  <2>. QED
    BY <2>1
<1>3. v \in Windows /\ v.created <= PerWindow /\ v.resets <= n + Window /\ v.resets > n
  BY <1>1 DEF Counted, OpenAt, Windows
<1>4. ASSUME NEW s \in 0..n
      PROVE  \/ s + Window > v.resets /\ Count(g, c, s, n) <= v.created
             \/ /\ s + Window <= v.resets
                /\ Count(g, c, s, n) <= v.created + PerWindow * Ceil(v.resets - Window - s)
  <2>0. \/ s + Window > w.resets /\ Count(h, c, s, n) <= w.created
        \/ /\ s + Window <= w.resets
           /\ Count(h, c, s, n) <= w.created + PerWindow * Ceil(w.resets - Window - s)
    BY DEF Within
  <2>1. CASE n >= w.resets
    <3>1. v.created = 1 /\ v.resets = n + Window
      BY <2>1 DEF Counted
    <3>2. s + Window <= v.resets /\ v.resets - Window - s = n - s /\ n - s \in Nat
      BY <1>1, <3>1
    <3>3. Count(h, c, s, n) <= PerWindow * Ceil(n - s)
      <4>1. CASE s = n
        <5>1. Count(h, c, n, n) = 0
          <6>1. h[c][n] = 0
            BY <1>1, <2>1 DEF Within
          <6>2. \A t \in 0..n : t >= n => h[c][t] = 0
            BY <1>1, <6>1
          <6>. QED
            BY <1>1, <6>2, CountNone
        <5>2. n - s = 0 /\ Ceil(0) = 0 /\ PerWindow * 0 = 0
          BY <1>1, <4>1, Ceilings
        <5>. QED
          BY <4>1, <5>1, <5>2
      <4>2. CASE s # n /\ s + Window > w.resets
        <5>1. n - s >= 1
          BY <1>1, <4>2
        <5>2. Ceil(n - s) >= 1 /\ Ceil(n - s) \in Nat
          BY <3>2, <5>1, Ceilings
        <5>3. PerWindow * 1 <= PerWindow * Ceil(n - s) /\ PerWindow * 1 = PerWindow
          BY <1>1, <5>2, ProductsGrow
        <5>4. PerWindow * Ceil(n - s) \in Nat
          BY <5>2, Products
        <5>. QED
          BY <1>1, <1>2, <2>0, <4>2, <5>3, <5>4
      <4>3. CASE s + Window <= w.resets
        <5>. DEFINE d == w.resets - Window - s
        <5>1. d \in Nat /\ d + Window \in Nat /\ d + Window <= n - s
          BY <1>1, <2>1, <4>3
        <5>2. Ceil(d) \in Nat /\ Ceil(n - s) \in Nat /\ Ceil(d) + 1 <= Ceil(n - s)
          BY <3>2, <5>1, Ceilings
        <5>3. PerWindow * (Ceil(d) + 1) <= PerWindow * Ceil(n - s)
          BY <5>2, ProductsGrow
        <5>4. /\ PerWindow * (Ceil(d) + 1) = PerWindow * Ceil(d) + PerWindow
              /\ PerWindow * Ceil(d) \in Nat /\ PerWindow * Ceil(n - s) \in Nat
          BY <5>2, Products
        <5>5. Count(h, c, s, n) <= w.created + PerWindow * Ceil(d)
          BY <1>1, <2>0, <4>3
        <5>. HIDE DEF d
        <5>. QED
          BY <1>1, <1>2, <5>3, <5>4, <5>5
      <4>. QED
        BY <1>1, <4>1, <4>2, <4>3
    <3>4. Ceil(n - s) \in Nat
      BY <3>2, Ceilings
    <3>5. PerWindow * Ceil(n - s) \in Nat
      BY <3>4, Products
    <3>. HIDE DEF g, v
    <3>. QED
      BY <1>1, <1>2, <3>1, <3>2, <3>3, <3>5
  <2>2. CASE ~ (n >= w.resets)
    <3>1. v.created = w.created + 1 /\ v.resets = w.resets
      BY <1>1, <2>2 DEF Counted
    <3>2. CASE s + Window > w.resets
      <4>. HIDE DEF g, v
      <4>. QED
        BY <1>1, <1>2, <2>0, <3>1, <3>2
    <3>3. CASE s + Window <= w.resets
      <4>. DEFINE d == w.resets - Window - s
      <4>1. d \in Nat
        BY <1>1, <3>3
      <4>2. Ceil(d) \in Nat
        BY <4>1, Ceilings
      <4>3. PerWindow * Ceil(d) \in Nat
        BY <4>2, Products
      <4>4. Count(h, c, s, n) <= w.created + PerWindow * Ceil(d)
        BY <1>1, <2>0, <3>3
      <4>. HIDE DEF d, g, v
      <4>5. Count(g, c, s, n) <= v.created + PerWindow * Ceil(d)
        BY <1>1, <1>2, <3>1, <4>3, <4>4
      <4>. QED
        BY <3>1, <3>3, <4>5 DEF d
    <3>. QED
      BY <1>1, <3>2, <3>3
  <2>. QED
    BY <2>1, <2>2
<1>5. ASSUME NEW s \in 0..n, NEW t \in 0..n, s <= t
      PROVE  Count(g, c, s, t) <= PerWindow * (Ceil(t - s) + 1)
  <2>. HIDE DEF g, v
  <2>1. CASE t = n
    BY <1>1, <1>3, <1>4, <2>1, WithinSpans
  <2>2. CASE t # n
    <3>1. t < n /\ s \in Nat /\ t \in 0..MaxTime
      BY <1>1, <2>2, Numbers
    <3>2. Count(g, c, s, t) = Count(h, c, s, t)
      BY <3>1, CountMore DEF g
    <3>. QED
      BY <1>5, <3>2 DEF Within
  <2>. QED
    BY <2>1, <2>2
<1>. HIDE DEF g, v
<1>6. Within(v, g, c, n)
  BY <1>3, <1>4, <1>5 DEF Within
<1>. QED
  BY <1>6 DEF g, v
-----------------------------------------------------------------------------

(* The rows are what they should be, and the future has not happened yet.  *)
Typed ==
  /\ TypeOK
  /\ IsFiniteSet(DOMAIN buckets) /\ IsFiniteSet(DOMAIN windows)
  /\ allowed \in Histories /\ created \in Histories
  /\ \A c \in Clients, t \in 0..MaxTime : t > now => allowed[c][t] = 0 /\ created[c][t] = 0

(* A bucket says of the past what one would that is never dropped.         *)
RateInv ==
  \A c \in Clients : Held(Available(c), allowed, c, now) /\ Level(allowed, c, now) = Available(c)

(* And so does a window; one that was dropped has run out.                 *)
QuotaInv ==
  \A c \in Clients :
    /\ Within(Ran(created, c, now), created, c, now)
    /\ \/ c \in DOMAIN windows /\ windows[c] = Ran(created, c, now)
       \/ c \notin DOMAIN windows /\ now >= Ran(created, c, now).resets

IInv == Typed /\ RateInv /\ QuotaInv
-----------------------------------------------------------------------------
LEMMA KeptRows ==
  ASSUME NEW rows, NEW gone, IsFiniteSet(DOMAIN rows)
  PROVE  /\ DOMAIN StillKept(rows, gone) \subseteq DOMAIN rows /\ IsFiniteSet(DOMAIN StillKept(rows, gone))
         /\ Cardinality(DOMAIN StillKept(rows, gone)) <= MaxRows
         /\ \A c \in DOMAIN StillKept(rows, gone) : StillKept(rows, gone)[c] = rows[c]
         /\ Cleared(rows, gone) => DOMAIN StillKept(rows, gone) = {}
         /\ ~Cleared(rows, gone) => \A c \in DOMAIN rows : c \notin DOMAIN StillKept(rows, gone) => c \in gone
<1>. DEFINE left == (DOMAIN rows) \ gone
<1>1. /\ IsFiniteSet(left) /\ Cardinality(left) <= Cardinality(DOMAIN rows)
      /\ Cardinality(left) \in Nat /\ Cardinality(DOMAIN rows) \in Nat
  <2>1. left \subseteq DOMAIN rows
    OBVIOUS
  <2>. QED
    BY <2>1, FS_Subset, FS_CardinalityType
<1>2. MaxRows \in Nat
  BY TableAssumption
<1>3. CASE Cardinality(DOMAIN rows) <= MaxRows
  <2>1. StillKept(rows, gone) = rows /\ ~Cleared(rows, gone)
    BY <1>1, <1>2, <1>3 DEF StillKept, Cleared
  <2>. QED
    BY <1>3, <2>1
<1>4. CASE ~ (Cardinality(DOMAIN rows) <= MaxRows) /\ Cardinality(left) <= MaxRows
  <2>1. StillKept(rows, gone) = [c \in left |-> rows[c]] /\ ~Cleared(rows, gone)
    BY <1>1, <1>2, <1>4 DEF StillKept, Cleared
  <2>2. DOMAIN StillKept(rows, gone) = left
    BY <2>1
  <2>3. \A c \in left : StillKept(rows, gone)[c] = rows[c]
    BY <2>1
  <2>. QED
    BY <1>1, <1>4, <2>1, <2>2, <2>3
<1>5. CASE ~ (Cardinality(DOMAIN rows) <= MaxRows) /\ ~ (Cardinality(left) <= MaxRows)
  <2>1. StillKept(rows, gone) = NoRows /\ Cleared(rows, gone)
    BY <1>1, <1>2, <1>5 DEF StillKept, Cleared
  <2>2. DOMAIN StillKept(rows, gone) = {}
    BY <2>1 DEF NoRows
  <2>. QED
    BY <1>2, <2>1, <2>2, FS_EmptySet
<1>. QED
  BY <1>3, <1>4, <1>5

(* A table is rows with the row of c set, and has no more than one too many. *)
Sets(table, rows, c, row) ==
  /\ DOMAIN table = DOMAIN rows \cup {c} /\ IsFiniteSet(DOMAIN table)
  /\ Cardinality(DOMAIN table) <= MaxRows + 1
  /\ table[c] = row /\ \A d \in DOMAIN rows : d # c => table[d] = rows[d]

LEMMA WithRow ==
  ASSUME NEW rows, NEW c, NEW row, IsFiniteSet(DOMAIN rows), Cardinality(DOMAIN rows) <= MaxRows
  PROVE  Sets(With(rows, c, row), rows, c, row)
<1>1. DOMAIN With(rows, c, row) = DOMAIN rows \cup {c}
  BY DEF With
<1>2. With(rows, c, row)[c] = row /\ \A d \in DOMAIN rows : d # c => With(rows, c, row)[d] = rows[d]
  BY DEF With
<1>3. IsFiniteSet(DOMAIN rows \cup {c}) /\ Cardinality(DOMAIN rows \cup {c}) <= MaxRows + 1
  <2>1. Cardinality(DOMAIN rows) \in Nat /\ MaxRows \in Nat
    BY FS_CardinalityType, TableAssumption
  <2>. QED
    BY <2>1, FS_AddElement, SMTT(30)
<1>. QED
  BY <1>1, <1>2, <1>3 DEF Sets

(* A history tallied is the one before, or it with one more.               *)
LEMMA Tallied ==
  ASSUME NEW h \in Histories, NEW c \in Clients, NEW forgotten \in BOOLEAN, now \in 0..MaxTime
  PROVE  /\ Tally(h, forgotten, c, TRUE) = More(IF forgotten THEN Never ELSE h, c, now)
         /\ Tally(h, forgotten, c, FALSE) = IF forgotten THEN Never ELSE h
<1>. DEFINE start == IF forgotten THEN Never ELSE h
<1>1. start \in Histories
  BY DEF Never, Histories
<1>2. Tally(h, forgotten, c, TRUE) = More(start, c, now)
  BY DEF Tally, More
<1>3. Tally(h, forgotten, c, FALSE) = [start EXCEPT ![c][now] = @]
  BY DEF Tally
<1>. HIDE DEF start
<1>4. [start[c] EXCEPT ![now] = @] = start[c]
  <2>1. start[c] \in [0..MaxTime -> Nat]
    BY <1>1 DEF Histories
  <2>. QED
    BY <2>1
<1>5. [start EXCEPT ![c][now] = @] = start
  BY <1>1, <1>4 DEF Histories
<1>. QED
  BY <1>2, <1>3, <1>5 DEF start

(* A bucket never holds more than a second of the rate.                    *)
LEMMA Credits ==
  ASSUME now \in Nat, NEW b \in [tokens : 0..Full, filled : 0..now]
  PROVE  /\ Credit(b) \in 0..Full
         /\ b.filled = now => Credit(b) = b.tokens
<1>1. b.tokens \in 0..Full /\ b.filled \in 0..now
  OBVIOUS
<1>2. now - b.filled \in Nat /\ (now - b.filled) * Rate \in Nat /\ 0 * Rate = 0
  BY <1>1, Numbers
<1>3. Credit(b) \in 0..Full
  BY <1>1, <1>2, Numbers DEF Credit
<1>4. ASSUME b.filled = now PROVE Credit(b) = b.tokens
  <2>1. (now - b.filled) * Rate = 0
    BY <1>2, <1>4
  <2>. QED
    BY <1>1, <2>1, Numbers DEF Credit
<1>. QED
  BY <1>3, <1>4
-----------------------------------------------------------------------------
LEMMA InitOk ==
  ASSUME Init
  PROVE  IInv
<1>1. 0 \in 0..MaxTime /\ Window \in Nat /\ Full \in Nat /\ MaxRows \in Nat
  BY Numbers, Ceilings, TableAssumption
<1>2. DOMAIN buckets = {} /\ DOMAIN windows = {} /\ now = 0 /\ allowed = Never /\ created = Never
  BY DEF Init, NoRows
<1>3. IsFiniteSet({}) /\ Cardinality({}) = 0
  BY FS_EmptySet
<1>4. Never \in Histories /\ \A c \in Clients, t \in 0..MaxTime : Never[c][t] = 0
  BY DEF Never, Histories
<1>5. TypeOK
  <2>1. limit \in {"rate", "quota"}
    BY DEF Init
  <2>. QED
    BY <1>1, <1>2, <1>3, <2>1 DEF TypeOK
<1>6. Typed
  BY <1>2, <1>3, <1>4, <1>5 DEF Typed
<1>7. RateInv
  BY <1>1, <1>2, NeverHeld, LevelNever DEF RateInv, Available
<1>8. QuotaInv
  <2>1. ASSUME NEW c \in Clients
        PROVE  Within(Ran(Never, c, 0), Never, c, 0) /\ 0 >= Ran(Never, c, 0).resets
    BY <1>1, NeverWithin, RanNever DEF NoWindow
  <2>. QED
    BY <1>2, <2>1 DEF QuotaInv
<1>. QED
  BY <1>6, <1>7, <1>8 DEF IInv

LEMMA TickOk ==
  ASSUME IInv, Tick
  PROVE  IInv'
<1>1. now \in 0..MaxTime /\ now \in Nat /\ now + 1 \in 0..MaxTime /\ now' = now + 1
  BY Numbers DEF IInv, Typed, TypeOK, Tick
<1>2. UNCHANGED <<limit, buckets, windows, allowed, created>>
  BY DEF Tick
<1>3. /\ allowed \in Histories /\ created \in Histories
      /\ \A c \in Clients, t \in 0..MaxTime : t > now => allowed[c][t] = 0 /\ created[c][t] = 0
  BY DEF IInv, Typed
<1>4. Typed'
  <2>1. TypeOK'
    <3>1. TypeOK
      BY DEF IInv, Typed
    <3>2. \A c \in DOMAIN buckets : buckets[c] \in [tokens : 0..Full, filled : 0..now + 1]
      BY <1>1, <3>1 DEF TypeOK
    <3>3. \A c \in DOMAIN windows : windows[c] \in [created : 1..PerWindow, resets : 1..((now + 1) + Window)]
      <4>1. \A r \in 1..(now + Window) : r \in 1..((now + 1) + Window)
        BY <1>1, Ceilings
      <4>2. \A c \in DOMAIN windows : windows[c] \in [created : 1..PerWindow, resets : 1..(now + Window)]
        BY <3>1 DEF TypeOK
      <4>. QED
        BY <4>1, <4>2
    <3>. QED
      BY <1>1, <1>2, <3>1, <3>2, <3>3 DEF TypeOK
  <2>2. \A t \in 0..MaxTime : t > now + 1 => t > now
    BY <1>1
  <2>. QED
    BY <1>1, <1>2, <1>3, <2>1, <2>2 DEF IInv, Typed
<1>5. RateInv'
  <2>1. ASSUME NEW c \in Clients
        PROVE  (Available(c))' = IF Available(c) + Rate > Full THEN Full ELSE Available(c) + Rate
    <3>1. CASE c \in DOMAIN buckets
      <4>. DEFINE b == buckets[c]
                  r == b.tokens + (now - b.filled) * Rate
      <4>1. b \in [tokens : 0..Full, filled : 0..now]
        BY <3>1 DEF IInv, Typed, TypeOK
      <4>2. b.tokens \in Nat /\ now - b.filled \in Nat /\ (now + 1) - b.filled = (now - b.filled) + 1
        BY <1>1, <4>1, Numbers
      <4>3. /\ (now - b.filled) * Rate \in Nat
            /\ ((now + 1) - b.filled) * Rate = (now - b.filled) * Rate + Rate
        BY <4>2, Numbers
      <4>4. Available(c) = IF r > Full THEN Full ELSE r
        BY <3>1 DEF Available, Credit
      <4>5. (Available(c))' = IF b.tokens + ((now + 1) - b.filled) * Rate > Full THEN Full
                              ELSE b.tokens + ((now + 1) - b.filled) * Rate
        BY <1>1, <1>2, <3>1 DEF Available, Credit
      <4>6. b.tokens + ((now + 1) - b.filled) * Rate = r + Rate /\ r \in Nat
        BY <4>2, <4>3, Numbers
      <4>. HIDE DEF b, r
      <4>. QED
        BY <4>4, <4>5, <4>6, Numbers
    <3>2. CASE c \notin DOMAIN buckets
      <4>1. Available(c) = Full /\ (Available(c))' = Full
        BY <1>2, <3>2 DEF Available
      <4>2. Full + Rate > Full \/ Full + Rate = Full
        BY Numbers
      <4>. QED
        BY <4>1, <4>2
    <3>. QED
      BY <3>1, <3>2
  <2>2. ASSUME NEW c \in Clients
        PROVE  Held((Available(c))', allowed, c, now + 1) /\ Level(allowed, c, now + 1) = (Available(c))'
    <3>1. Held(Available(c), allowed, c, now) /\ Level(allowed, c, now) = Available(c)
      BY DEF IInv, RateInv
    <3>2. Held((Available(c))', allowed, c, now + 1)
      BY <1>1, <1>3, <2>1, <3>1, TickHeld
    <3>3. allowed[c][now + 1] = 0 /\ Available(c) \in 0..Full
      BY <1>1, <1>3, <3>1 DEF Held
    <3>4. Level(allowed, c, now + 1)
            = (IF Available(c) + Rate > Full THEN Full ELSE Available(c) + Rate) - 0 * Second
      BY <1>1, <1>3, <3>1, <3>3, LevelNext
    <3>5. Level(allowed, c, now + 1) = IF Available(c) + Rate > Full THEN Full ELSE Available(c) + Rate
      BY <3>3, <3>4, Numbers
    <3>. QED
      BY <2>1, <3>2, <3>5
  <2>. QED
    BY <1>1, <1>2, <2>2 DEF RateInv
<1>6. QuotaInv'
  <2>1. ASSUME NEW c \in Clients
        PROVE  /\ Within(Ran(created, c, now + 1), created, c, now + 1)
               /\ Ran(created, c, now + 1) = Ran(created, c, now)
               /\ now >= Ran(created, c, now).resets => now + 1 >= Ran(created, c, now).resets
    <3>1. Within(Ran(created, c, now), created, c, now)
      BY DEF IInv, QuotaInv
    <3>2. created[c][now + 1] = 0
      BY <1>1, <1>3
    <3>3. Ran(created, c, now + 1) = Ran(created, c, now)
      BY <1>1, <1>3, <3>2, RanNext, ZenonT(60) DEF Counted
    <3>4. Ran(created, c, now).resets \in Nat
      BY <1>1, <1>3, RanType DEF Windows
    <3>5. Within(Ran(created, c, now), created, c, now + 1)
      BY <1>1, <1>3, <3>1, TickWithin
    <3>. QED
      BY <1>1, <3>3, <3>4, <3>5
  <2>. QED
    BY <1>1, <1>2, <2>1 DEF IInv, QuotaInv
<1>. QED
  BY <1>4, <1>5, <1>6 DEF IInv

LEMMA AllowOk ==
  ASSUME IInv, NEW c \in Clients, Allow(c)
  PROVE  IInv'
<1>. DEFINE rows == StillKept(buckets, Refilled)
            cleared == Cleared(buckets, Refilled)
            start == IF cleared THEN Never ELSE allowed
            was(d) == IF cleared THEN Full ELSE Available(d)
            held == IF c \in DOMAIN rows THEN Credit(rows[c]) ELSE Full
            granted == held >= Second
            left == IF granted THEN held - Second ELSE held
            row == [tokens |-> left, filled |-> now]
<1>1. /\ buckets' = With(rows, c, row) /\ allowed' = Tally(allowed, cleared, c, granted)
      /\ UNCHANGED <<limit, now, windows, created>>
  BY DEF Allow
<1>2. now \in 0..MaxTime /\ now \in Nat /\ Typed /\ TypeOK
  BY Numbers DEF IInv, Typed, TypeOK
<1>3. /\ DOMAIN rows \subseteq DOMAIN buckets /\ DOMAIN buckets \subseteq Clients /\ IsFiniteSet(DOMAIN rows)
      /\ Cardinality(DOMAIN rows) <= MaxRows /\ \A d \in DOMAIN rows : rows[d] = buckets[d]
      /\ cleared => DOMAIN rows = {}
      /\ ~cleared => \A d \in DOMAIN buckets : d \notin DOMAIN rows => d \in Refilled
  BY <1>2, KeptRows DEF Typed, TypeOK
<1>4. \A d \in DOMAIN buckets : buckets[d] \in [tokens : 0..Full, filled : 0..now] /\ Credit(buckets[d]) \in 0..Full
  BY <1>2, Credits DEF TypeOK
<1>5. \A d \in Clients : was(d) = IF d \in DOMAIN rows THEN Credit(rows[d]) ELSE Full
  <2>1. ASSUME NEW d \in Clients PROVE was(d) = IF d \in DOMAIN rows THEN Credit(rows[d]) ELSE Full
    <3>1. CASE cleared
      BY <1>3, <3>1
    <3>2. CASE ~cleared /\ d \in DOMAIN rows
      <4>1. d \in DOMAIN buckets /\ rows[d] = buckets[d]
        BY <1>3, <3>2
      <4>2. was(d) = Credit(buckets[d])
        BY <3>2, <4>1 DEF Available
      <4>. HIDE DEF rows, was
      <4>. QED
        BY <3>2, <4>1, <4>2
    <3>3. CASE ~cleared /\ d \in DOMAIN buckets /\ d \notin DOMAIN rows
      <4>1. Credit(buckets[d]) >= Full /\ Credit(buckets[d]) \in 0..Full
        BY <1>3, <1>4, <3>3 DEF Refilled
      <4>2. was(d) = Credit(buckets[d])
        BY <3>3 DEF Available
      <4>. HIDE DEF rows, was
      <4>. QED
        BY <3>3, <4>1, <4>2, Numbers
    <3>4. CASE ~cleared /\ d \notin DOMAIN buckets
      <4>1. was(d) = Full /\ d \notin DOMAIN rows
        BY <1>3, <3>4 DEF Available
      <4>. HIDE DEF rows, was
      <4>. QED
        BY <4>1
    <3>. QED
      BY <3>1, <3>2, <3>3, <3>4
  <2>. QED
    BY <2>1
<1>6. held = was(c)
  BY <1>5
<1>7. /\ start \in Histories
      /\ \A d \in Clients : Held(was(d), start, d, now) /\ Level(start, d, now) = was(d) /\ was(d) \in 0..Full
  <2>1. CASE cleared
    <3>1. start = Never /\ \A d \in Clients : was(d) = Full
      BY <2>1
    <3>2. Full \in 0..Full
      BY Numbers
    <3>3. Never \in Histories
      BY DEF Never, Histories
    <3>. HIDE DEF start, was
    <3>. QED
      BY <1>2, <3>1, <3>2, <3>3, NeverHeld, LevelNever
  <2>2. CASE ~cleared
    <3>1. start = allowed /\ \A d \in Clients : was(d) = Available(d)
      BY <2>2
    <3>. HIDE DEF start, was
    <3>2. ASSUME NEW d \in Clients
          PROVE  Held(was(d), start, d, now) /\ Level(start, d, now) = was(d)
      BY <3>1 DEF IInv, RateInv
    <3>. QED
      BY <1>2, <3>1, <3>2 DEF Typed, Held
  <2>. QED
    BY <2>1, <2>2
<1>8. \A t \in 0..MaxTime, d \in Clients : t > now => start[d][t] = 0
  <2>1. \A t \in 0..MaxTime, d \in Clients : Never[d][t] = 0
    BY DEF Never
  <2>. QED
    BY <1>2, <2>1 DEF Typed
<1>9. allowed' = IF granted THEN More(start, c, now) ELSE start
  <2>1. cleared \in BOOLEAN
    BY DEF Cleared
  <2>2. CASE granted
    <3>1. granted = TRUE
      BY <2>2
    <3>. HIDE DEF granted
    <3>. QED
      BY <1>1, <1>2, <2>1, <3>1, Tallied DEF Typed
  <2>3. CASE ~granted
    <3>1. granted = FALSE
      BY <2>3
    <3>. HIDE DEF granted
    <3>. QED
      BY <1>1, <1>2, <2>1, <3>1, Tallied DEF Typed
  <2>. QED
    BY <2>2, <2>3
<1>10. left \in 0..Full /\ row \in [tokens : 0..Full, filled : 0..now] /\ row.filled = now /\ row.tokens = left
  <2>1. held \in 0..Full
    BY <1>6, <1>7
  <2>. HIDE DEF held
  <2>2. left \in 0..Full
    BY <2>1, Numbers
  <2>. HIDE DEF left
  <2>. QED
    BY <1>2, <2>2
<1>. HIDE DEF rows, cleared, was, held, row, start, left, granted
<1>11. /\ DOMAIN (buckets') = DOMAIN rows \cup {c} /\ IsFiniteSet(DOMAIN (buckets'))
       /\ Cardinality(DOMAIN (buckets')) <= MaxRows + 1 /\ buckets'[c] = row
       /\ \A d \in DOMAIN rows : d # c => buckets'[d] = rows[d]
  <2>1. IsFiniteSet(DOMAIN rows) /\ Cardinality(DOMAIN rows) <= MaxRows
    BY <1>3
  <2>2. Sets(With(rows, c, row), rows, c, row)
    BY <2>1, WithRow
  <2>. QED
    BY <1>1, <2>2 DEF Sets
<1>12. \A d \in Clients : (Available(d))' = IF d = c THEN left ELSE was(d)
  <2>1. \A b : (Credit(b))' = Credit(b)
    BY <1>1 DEF Credit
  <2>2. Credit(row) = left
    BY <1>2, <1>10, Credits
  <2>3. ASSUME NEW d \in Clients PROVE (Available(d))' = IF d = c THEN left ELSE was(d)
    <3>1. (Available(d))' = IF d \in DOMAIN (buckets') THEN Credit(buckets'[d]) ELSE Full
      BY <1>1 DEF Available, Credit
    <3>. QED
      BY <1>5, <1>11, <2>2, <3>1
  <2>. QED
    BY <2>3
<1>13. Typed'
  <2>1. \A d \in DOMAIN (buckets') : buckets'[d] \in [tokens : 0..Full, filled : 0..now]
    BY <1>3, <1>4, <1>10, <1>11
  <2>2. TypeOK'
    BY <1>1, <1>2, <1>3, <1>11, <2>1 DEF TypeOK
  <2>3. allowed' \in Histories
    BY <1>2, <1>7, <1>9, MoreIs
  <2>4. ASSUME NEW d \in Clients, NEW t \in 0..MaxTime, t > now PROVE allowed'[d][t] = 0
    <3>1. t # now
      BY <1>2, <2>4
    <3>. QED
      BY <1>2, <1>7, <1>8, <1>9, <2>4, <3>1, MoreIs, SMTT(30)
  <2>. QED
    BY <1>1, <1>2, <1>11, <2>2, <2>3, <2>4 DEF Typed
<1>14. RateInv'
  <2>1. ASSUME NEW d \in Clients
        PROVE  Held((Available(d))', allowed', d, now) /\ Level(allowed', d, now) = (Available(d))'
    <3>1. CASE ~granted
      <4>1. allowed' = start /\ left = was(c)
        BY <1>6, <1>9, <3>1 DEF left
      <4>. QED
        BY <1>7, <1>12, <4>1
    <3>2. CASE granted /\ d = c
      <4>1. allowed' = More(start, c, now) /\ left = was(c) - Second /\ was(c) >= Second
        BY <1>6, <1>9, <3>2 DEF left, granted
      <4>2. was(c) \in Nat
        BY <1>7, Numbers
      <4>3. Held(was(c) - Second, More(start, c, now), c, now)
        BY <1>2, <1>7, <4>1, GrantHeld
      <4>4. Level(More(start, c, now), c, now) = was(c) - Second
        BY <1>2, <1>7, <4>2, LevelMore
      <4>. QED
        BY <1>12, <3>2, <4>1, <4>3, <4>4
    <3>3. CASE granted /\ d # c
      <4>1. allowed' = More(start, c, now) /\ (Available(d))' = was(d)
        BY <1>9, <1>12, <3>3
      <4>2. was(c) \in Nat /\ Level(start, c, now) = was(c)
        BY <1>7, Numbers
      <4>3. Held(was(d), More(start, c, now), d, now)
        BY <1>2, <1>7, <3>3, OthersHeld
      <4>4. Level(More(start, c, now), d, now) = Level(start, d, now)
        BY <1>2, <1>7, <3>3, <4>2, LevelMore
      <4>. QED
        BY <1>7, <4>1, <4>3, <4>4
    <3>. QED
      BY <3>1, <3>2, <3>3
  <2>. QED
    BY <1>1, <2>1 DEF RateInv
<1>15. QuotaInv'
  BY <1>1 DEF IInv, QuotaInv
<1>. QED
  BY <1>13, <1>14, <1>15 DEF IInv

LEMMA MayStoreOk ==
  ASSUME IInv, NEW c \in Clients, MayStore(c)
  PROVE  IInv'
<1>. DEFINE rows == StillKept(windows, Elapsed)
            cleared == Cleared(windows, Elapsed)
            start == IF cleared THEN Never ELSE created
            w(d) == Ran(start, d, now)
            window == Open(IF c \in DOMAIN rows THEN rows[c] ELSE [created |-> 0, resets |-> 0])
            granted == window.created < PerWindow
            row == IF granted THEN [window EXCEPT !.created = @ + 1] ELSE window
<1>1. /\ windows' = With(rows, c, row) /\ created' = Tally(created, cleared, c, granted)
      /\ UNCHANGED <<limit, now, buckets, allowed>>
  BY DEF MayStore
<1>2. now \in 0..MaxTime /\ now \in Nat /\ Typed /\ TypeOK
  BY Numbers DEF IInv, Typed, TypeOK
<1>3. /\ DOMAIN rows \subseteq DOMAIN windows /\ DOMAIN windows \subseteq Clients /\ IsFiniteSet(DOMAIN rows)
      /\ Cardinality(DOMAIN rows) <= MaxRows /\ \A d \in DOMAIN rows : rows[d] = windows[d]
      /\ cleared => DOMAIN rows = {}
      /\ ~cleared => \A d \in DOMAIN windows : d \notin DOMAIN rows => d \in Elapsed
  BY <1>2, KeptRows DEF Typed, TypeOK
<1>4. \A d \in DOMAIN windows : windows[d] \in [created : 1..PerWindow, resets : 1..(now + Window)]
  BY <1>2 DEF TypeOK
<1>5. start \in Histories /\ \A t \in 0..MaxTime, d \in Clients : t > now => start[d][t] = 0
  <2>1. Never \in Histories /\ \A t \in 0..MaxTime, d \in Clients : Never[d][t] = 0
    BY DEF Never, Histories
  <2>. QED
    BY <1>2, <2>1 DEF Typed
<1>6. \A d \in Clients : Within(w(d), start, d, now) /\ (d \in DOMAIN rows => rows[d] = w(d))
                         /\ (d \notin DOMAIN rows => now >= w(d).resets)
  <2>1. ASSUME NEW d \in Clients
        PROVE  /\ Within(w(d), start, d, now) /\ (d \in DOMAIN rows => rows[d] = w(d))
               /\ (d \notin DOMAIN rows => now >= w(d).resets)
    <3>1. CASE cleared
      <4>1. start = Never /\ w(d) = NoWindow /\ d \notin DOMAIN rows
        BY <1>2, <1>3, <3>1, RanNever
      <4>2. Within(NoWindow, Never, d, now) /\ NoWindow.resets = 0
        BY <1>2, NeverWithin DEF NoWindow
      <4>. HIDE DEF start, w, rows
      <4>. QED
        BY <1>2, <4>1, <4>2
    <3>2. CASE ~cleared
      <4>1. start = created /\ w(d) = Ran(created, d, now)
        BY <3>2
      <4>. HIDE DEF start, w
      <4>2. /\ Within(w(d), start, d, now)
            /\ \/ d \in DOMAIN windows /\ windows[d] = w(d)
               \/ d \notin DOMAIN windows /\ now >= w(d).resets
        BY <4>1 DEF IInv, QuotaInv
      <4>3. ASSUME d \in DOMAIN rows PROVE rows[d] = w(d)
        BY <1>3, <4>2, <4>3
      <4>4. ASSUME d \notin DOMAIN rows PROVE now >= w(d).resets
        <5>1. CASE d \in DOMAIN windows
          <6>1. now >= windows[d].resets
            BY <1>3, <3>2, <4>4, <5>1 DEF Elapsed
          <6>. QED
            BY <4>2, <5>1, <6>1
        <5>2. CASE d \notin DOMAIN windows
          BY <4>2, <5>2
        <5>. QED
          BY <5>1, <5>2
      <4>. QED
        BY <4>2, <4>3, <4>4
    <3>. QED
      BY <3>1, <3>2
  <2>. QED
    BY <2>1
<1>7. created' = IF granted THEN More(start, c, now) ELSE start
  <2>1. cleared \in BOOLEAN
    BY DEF Cleared
  <2>2. CASE granted
    <3>1. granted = TRUE
      BY <2>2
    <3>. HIDE DEF granted
    <3>. QED
      BY <1>1, <1>2, <2>1, <3>1, Tallied DEF Typed
  <2>3. CASE ~granted
    <3>1. granted = FALSE
      BY <2>3
    <3>. HIDE DEF granted
    <3>. QED
      BY <1>1, <1>2, <2>1, <3>1, Tallied DEF Typed
  <2>. QED
    BY <2>2, <2>3
<1>8. /\ w(c) \in Windows /\ w(c) = [created |-> w(c).created, resets |-> w(c).resets]
      /\ w(c).created \in 0..PerWindow /\ w(c).resets \in 0..(now + Window)
  <2>. HIDE DEF w, start
  <2>1. w(c) \in Windows /\ w(c).created <= PerWindow /\ w(c).resets <= now + Window
    BY <1>6 DEF Within
  <2>. QED
    BY <1>2, <2>1, Ceilings DEF Windows
<1>9. window = OpenAt(w(c), now)
  <2>1. CASE c \in DOMAIN rows
    <3>1. rows[c] = w(c)
      BY <1>6, <2>1
    <3>2. window = Open(rows[c])
      BY <2>1
    <3>. HIDE DEF rows, w, window
    <3>. QED
      BY <3>1, <3>2 DEF Open, OpenAt
  <2>2. CASE c \notin DOMAIN rows
    <3>1. now >= w(c).resets
      BY <1>6, <2>2
    <3>2. window = Open([created |-> 0, resets |-> 0])
      BY <2>2
    <3>3. Open([created |-> 0, resets |-> 0]) = [created |-> 0, resets |-> now + Window]
      BY <1>2 DEF Open
    <3>. HIDE DEF rows, w, window
    <3>. QED
      BY <3>1, <3>2, <3>3 DEF OpenAt
  <2>. QED
    BY <2>1, <2>2
<1>. HIDE DEF rows, cleared, start, w, window
<1>10. /\ granted => row = Counted(w(c), 1, now)
       /\ ~granted => row = w(c)
       /\ row \in [created : 1..PerWindow, resets : 1..(now + Window)]
  <2>1. CASE now >= w(c).resets
    <3>1. window = [created |-> 0, resets |-> now + Window]
      BY <1>9, <2>1 DEF OpenAt
    <3>2. granted /\ row = [created |-> 1, resets |-> now + Window]
      BY <3>1, Ceilings
    <3>3. Counted(w(c), 1, now) = [created |-> 1, resets |-> now + Window]
      BY <2>1 DEF Counted
    <3>4. 1 \in 1..PerWindow /\ now + Window \in 1..(now + Window)
      BY <1>2, Ceilings
    <3>. HIDE DEF granted, row
    <3>. QED
      BY <3>2, <3>3, <3>4
  <2>2. CASE ~ (now >= w(c).resets)
    <3>1. window = w(c)
      BY <1>9, <2>2 DEF OpenAt
    <3>2. w(c).resets \in 1..(now + Window)
      BY <1>2, <1>8, <2>2, Ceilings
    <3>3. CASE w(c).created < PerWindow
      <4>1. granted /\ row = [w(c) EXCEPT !.created = @ + 1]
        BY <3>1, <3>3
      <4>2. Counted(w(c), 1, now) = [w(c) EXCEPT !.created = @ + 1]
        BY <2>2 DEF Counted
      <4>3. w(c).created + 1 \in 1..PerWindow
        BY <1>8, <3>3, Ceilings
      <4>. HIDE DEF granted, row
      <4>4. row = [created |-> w(c).created + 1, resets |-> w(c).resets]
        BY <1>8, <4>1
      <4>. QED
        BY <3>2, <4>1, <4>2, <4>3, <4>4
    <3>4. CASE ~ (w(c).created < PerWindow)
      <4>1. ~granted /\ row = w(c)
        BY <3>1, <3>4
      <4>2. w(c).created \in 1..PerWindow
        BY <1>8, <3>4, Ceilings
      <4>. HIDE DEF granted, row
      <4>. QED
        BY <1>8, <3>2, <4>1, <4>2
    <3>. QED
      BY <3>3, <3>4
  <2>. QED
    BY <2>1, <2>2
<1>11. granted => OpenAt(w(c), now).created < PerWindow
  BY <1>9
<1>. HIDE DEF granted, row
<1>12. /\ DOMAIN (windows') = DOMAIN rows \cup {c} /\ IsFiniteSet(DOMAIN (windows'))
       /\ Cardinality(DOMAIN (windows')) <= MaxRows + 1 /\ windows'[c] = row
       /\ \A d \in DOMAIN rows : d # c => windows'[d] = rows[d]
  <2>1. IsFiniteSet(DOMAIN rows) /\ Cardinality(DOMAIN rows) <= MaxRows
    BY <1>3
  <2>2. Sets(With(rows, c, row), rows, c, row)
    BY <2>1, WithRow
  <2>. QED
    BY <1>1, <2>2 DEF Sets
<1>13. Typed'
  <2>1. \A d \in DOMAIN (windows') : windows'[d] \in [created : 1..PerWindow, resets : 1..(now + Window)]
    BY <1>3, <1>4, <1>10, <1>12
  <2>2. TypeOK'
    BY <1>1, <1>2, <1>3, <1>12, <2>1 DEF TypeOK
  <2>3. created' \in Histories
    BY <1>2, <1>5, <1>7, MoreIs
  <2>4. ASSUME NEW d \in Clients, NEW t \in 0..MaxTime, t > now PROVE created'[d][t] = 0
    <3>1. t # now
      BY <1>2, <2>4
    <3>. QED
      BY <1>2, <1>5, <1>7, <2>4, <3>1, MoreIs, SMTT(30)
  <2>. QED
    BY <1>1, <1>2, <1>12, <2>2, <2>3, <2>4 DEF Typed
<1>14. QuotaInv'
  <2>1. ASSUME NEW d \in Clients
        PROVE  /\ Within(Ran(created', d, now), created', d, now)
               /\ d = c => Ran(created', d, now) = row
               /\ d # c => Ran(created', d, now) = w(d)
    <3>0. w(d) = Ran(start, d, now)
      BY DEF w
    <3>1. CASE ~granted
      <4>1. created' = start /\ row = w(c)
        BY <1>7, <1>10, <3>1
      <4>. QED
        BY <1>6, <3>0, <4>1
    <3>2. CASE granted /\ d = c
      <4>1. created' = More(start, c, now) /\ row = Counted(w(c), 1, now)
        BY <1>7, <1>10, <3>2
      <4>2. Within(Counted(w(c), 1, now), More(start, c, now), c, now)
        BY <1>2, <1>5, <1>6, <1>11, <3>2, GrantWithin
      <4>3. Ran(More(start, c, now), c, now) = Counted(w(c), 1, now)
        BY <1>2, <1>5, <3>0, <3>2, RanMore
      <4>. QED
        BY <3>2, <4>1, <4>2, <4>3
    <3>3. CASE granted /\ d # c
      <4>1. created' = More(start, c, now)
        BY <1>7, <3>3
      <4>2. Within(w(d), More(start, c, now), d, now)
        BY <1>2, <1>5, <1>6, <3>3, OthersWithin
      <4>3. Ran(More(start, c, now), d, now) = w(d)
        BY <1>2, <1>5, <3>0, <3>3, RanMore
      <4>. QED
        BY <3>3, <4>1, <4>2, <4>3
    <3>. QED
      BY <3>1, <3>2, <3>3
  <2>2. ASSUME NEW d \in Clients
        PROVE  \/ d \in DOMAIN (windows') /\ windows'[d] = Ran(created', d, now)
               \/ d \notin DOMAIN (windows') /\ now >= Ran(created', d, now).resets
    <3>1. CASE d = c
      BY <1>12, <2>1, <3>1
    <3>2. CASE d # c /\ d \in DOMAIN rows
      BY <1>6, <1>12, <2>1, <3>2
    <3>3. CASE d # c /\ d \notin DOMAIN rows
      BY <1>6, <1>12, <2>1, <3>3
    <3>. QED
      BY <3>1, <3>2, <3>3
  <2>. QED
    BY <1>1, <2>1, <2>2 DEF QuotaInv
<1>15. RateInv'
  <2>1. ASSUME NEW d \in Clients PROVE (Available(d))' = Available(d)
    BY <1>1 DEF Available, Credit
  <2>. QED
    BY <1>1, <2>1 DEF IInv, RateInv
<1>. QED
  BY <1>13, <1>14, <1>15 DEF IInv
-----------------------------------------------------------------------------
LEMMA Invariant == Spec => []IInv
<1>1. Init => IInv
  BY InitOk
<1>2. ASSUME IInv, [Next]_vars PROVE IInv'
  <2>1. CASE Next
    BY <1>2, <2>1, TickOk, AllowOk, MayStoreOk DEF Next
  <2>2. CASE UNCHANGED vars
    <3>1. /\ now' = now /\ limit' = limit /\ buckets' = buckets /\ windows' = windows
          /\ allowed' = allowed /\ created' = created
      BY <2>2 DEF vars
    <3>2. Typed'
      BY <1>2, <3>1 DEF IInv, Typed, TypeOK
    <3>3. RateInv'
      <4>1. ASSUME NEW d \in Clients PROVE (Available(d))' = Available(d)
        BY <3>1 DEF Available, Credit
      <4>. QED
        BY <1>2, <3>1, <4>1 DEF IInv, RateInv
    <3>4. QuotaInv'
      BY <1>2, <3>1 DEF IInv, QuotaInv
    <3>. QED
      BY <3>2, <3>3, <3>4 DEF IInv
  <2>. QED
    BY <1>2, <2>1, <2>2
<1>. QED
  BY <1>1, <1>2, PTL DEF Spec

(* The tables and the clock are what they should be (ClientTable::row,
   internal/cdn/clients.hpp): no table has more than a row above its limit. *)
THEOREM TypeCorrect == Spec => []TypeOK
<1>1. IInv => TypeOK
  BY DEF IInv, Typed
<1>. QED
  BY <1>1, Invariant, PTL

(* No address is allowed more than a burst and the rate, over any stretch of
   time, whatever rows are dropped for others (RateLimiter::allow).         *)
THEOREM Rated == Spec => []HeldToRate
<1>1. ASSUME IInv PROVE HeldToRate
  <2>1. now \in 0..MaxTime /\ MaxTime \in Nat
    BY <1>1, Numbers DEF IInv, Typed, TypeOK
  <2>2. ASSUME NEW c \in Clients, NEW span \in Spans
        PROVE  Count(allowed, c, span[1], span[2]) * Second <= Full + (span[2] - span[1]) * Rate
    <3>1. span[1] \in 0..now /\ span[2] \in 0..now /\ span[1] <= span[2]
      BY <2>1 DEF Spans
    <3>2. Held(Available(c), allowed, c, now)
      BY <1>1 DEF IInv, RateInv
    <3>. QED
      BY <3>1, <3>2 DEF Held
  <2>. QED
    BY <2>2 DEF HeldToRate
<1>. QED
  BY <1>1, Invariant, PTL

(* And none less: what it was not allowed in the last second it may have.   *)
THEOREM Bursts == Spec => []QuietMayBurst
<1>1. ASSUME IInv PROVE QuietMayBurst
  <2>1. now \in 0..MaxTime /\ now \in Nat /\ allowed \in Histories
    BY <1>1, Numbers DEF IInv, Typed, TypeOK
  <2>2. ASSUME NEW c \in Clients, NEW from, from = IF now < Second THEN 0 ELSE now - Second + 1
        PROVE  Available(c) + Count(allowed, c, from, now) * Second >= Full
    <3>1. Held(Available(c), allowed, c, now)
      BY <1>1 DEF IInv, RateInv
    <3>2. CASE from = 0
      BY <3>1, <3>2 DEF Held
    <3>3. CASE from # 0
      <4>1. from \in 1..now + 1 /\ now + 1 - from = Second
        BY <2>1, <2>2, <3>3, Numbers
      <4>2. Available(c) + Count(allowed, c, from, now) * Second >= Due(Second)
        BY <3>1, <4>1 DEF Held
      <4>3. Second * Rate = Full
        BY Numbers DEF Full
      <4>4. Due(Second) = Full
        BY <4>3, Numbers DEF Due
      <4>. QED
        BY <4>2, <4>4
    <3>. QED
      BY <3>2, <3>3
  <2>. QED
    BY <2>2 DEF QuietMayBurst
<1>. QED
  BY <1>1, Invariant, PTL

(* What a crowded table has left says what one that never drops a row would
   say: dropping a full bucket or a window that has run out forgets nothing. *)
THEOREM Remembers == Spec => []ForgetsNothing
<1>1. ASSUME IInv PROVE ForgetsNothing
  <2>1. now \in 0..MaxTime /\ now \in Nat /\ created \in Histories
    BY <1>1, Numbers DEF IInv, Typed, TypeOK
  <2>2. ASSUME NEW c \in Clients PROVE Available(c) = CreditOf(c)
    BY <1>1, LevelIs DEF IInv, RateInv
  <2>3. ASSUME NEW c \in Clients PROVE QuotaLeft(c) = QuotaOf(c)
    <3>. DEFINE w == Ran(created, c, now)
    <3>1. QuotaOf(c) = IF now >= w.resets THEN PerWindow ELSE PerWindow - w.created
      BY RanIs
    <3>2. \/ c \in DOMAIN windows /\ windows[c] = w
          \/ c \notin DOMAIN windows /\ now >= w.resets
      BY <1>1 DEF IInv, QuotaInv
    <3>. HIDE DEF w
    <3>. QED
      BY <3>1, <3>2 DEF QuotaLeft
  <2>. QED
    BY <2>2, <2>3 DEF ForgetsNothing
<1>. QED
  BY <1>1, Invariant, PTL

(* No address has more entries stored than its quota allows in the windows a
   stretch of time can meet (ClientQuota::mayStore).                        *)
THEOREM Quotas == Spec => []HeldToQuota
<1>1. ASSUME IInv PROVE HeldToQuota
  <2>1. now \in 0..MaxTime /\ MaxTime \in Nat
    BY <1>1, Numbers DEF IInv, Typed, TypeOK
  <2>2. ASSUME NEW c \in Clients, NEW span \in Spans
        PROVE  Count(created, c, span[1], span[2])
                 <= PerWindow * ((span[2] - span[1] + Window - 1) \div Window + 1)
    <3>1. span[1] \in 0..now /\ span[2] \in 0..now /\ span[1] <= span[2]
      BY <2>1 DEF Spans
    <3>2. Within(Ran(created, c, now), created, c, now)
      BY <1>1 DEF IInv, QuotaInv
    <3>3. Count(created, c, span[1], span[2]) <= PerWindow * (Ceil(span[2] - span[1]) + 1)
      BY <3>1, <3>2 DEF Within
    <3>. QED
      BY <3>3 DEF Ceil
  <2>. QED
    BY <2>2 DEF HeldToQuota
<1>. QED
  BY <1>1, Invariant, PTL
=============================================================================
