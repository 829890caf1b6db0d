------------------------- MODULE LocalStoresProofs -------------------------
(***************************************************************************)
(* Proofs about LocalStores, for any keys, entries and budget, any number  *)
(* of faults and wherever they cut a file: what the file store thinks it   *)
(* holds.                                                                  *)
(***************************************************************************)
EXTENDS LocalStores, LruProofs

Records == [entry : Entries, cut : {"no"} \cup Cuts, written : 0..MaxTime, size : Nat]

(* A directory, and the ".tmp" files in it.                                *)
IsDirectory(f) == DOMAIN f \subseteq Keys /\ f \in [DOMAIN f -> Records]
IsTemps(t) == DOMAIN t \subseteq Keys /\ t \in [DOMAIN t -> Nat]

Sizes(f) == [k \in DOMAIN f |-> f[k].size]

(* The count is a number, and no less than what is there.                  *)
Counts(n, f) == n \in Nat /\ n >= File!Bytes(f)

IInv == /\ now \in 0..MaxTime
        /\ IsDirectory(files)
        /\ IsTemps(temps)
        /\ Counts(counted, files)
-----------------------------------------------------------------------------
LEMMA FewKeys ==
  ASSUME NEW K, K \subseteq Keys
  PROVE  IsFiniteSet(K)
BY FS_Subset, KeysAssumption

LEMMA SizesFit ==
  ASSUME NEW f, IsDirectory(f)
  PROVE  IsFiniteSet(DOMAIN f) /\ Sizes(f) \in [DOMAIN f -> Nat]
BY FewKeys DEF IsDirectory, Sizes, Records

(* The bytes of a directory are the total of its sizes.                    *)
LEMMA BytesAre ==
  ASSUME NEW f, IsDirectory(f)
  PROVE  File!Bytes(f) = Total(Sizes(f))
<1>. DEFINE D == DOMAIN f
            w == Sizes(f)
            Sums(iter) == iter = [s \in SUBSET D |-> IF s = {} THEN 0 ELSE LET x == CHOOSE x \in s : TRUE IN f[x].size + iter[s \ {x}]]
            iter == CHOOSE iter : Sums(iter)
<1>1. File!Bytes(f) = iter[D]
  BY DEF File!Bytes, File!MapThenSumSet, File!MapThenFoldSet
<1>2. IsFiniteSet(D) /\ w \in [D -> Nat] /\ \A k \in D : w[k] = f[k].size
  BY SizesFit DEF Sizes
<1>. HIDE DEF w
<1>3. PICK g : Additive(g, w, D)
  BY <1>2, SumsExist
<1>4. Sums(g)
  <2>1. ASSUME NEW s \in SUBSET D, s # {} PROVE g[s] = LET x == CHOOSE x \in s : TRUE IN f[x].size + g[s \ {x}]
    BY <1>2, <1>3, <2>1 DEF Additive
  <2>. QED
    BY <1>3, <2>1 DEF Additive
<1>. HIDE DEF Sums
<1>5. Sums(iter)
  BY <1>4
<1>. HIDE DEF iter
<1>6. ASSUME NEW s \in SUBSET D PROVE Takes(iter, w, s)
  <2>1. CASE s = {}
    BY <1>5, <2>1 DEF Sums, Takes
  <2>2. CASE s # {}
    <3>. DEFINE x == CHOOSE x \in s : TRUE
    <3>1. x \in s
      BY <2>2
    <3>2. iter[s] = w[x] + iter[s \ {x}]
      BY <1>2, <1>5, <2>2 DEF Sums
    <3>. QED
      BY <2>2, <3>1, <3>2 DEF Takes
  <2>. QED
    BY <2>1, <2>2
<1>7. iter[D] = g[D]
  BY <1>2, <1>3, <1>6, SumsAgree
<1>. QED
  BY <1>1, <1>2, <1>3, <1>7, TotalIs DEF w

LEMMA BytesNat ==
  ASSUME NEW f, IsDirectory(f)
  PROVE  File!Bytes(f) \in Nat
BY BytesAre, SizesFit, TotalNat

(* Files go.                                                               *)
LEMMA WithoutFits ==
  ASSUME NEW f, IsDirectory(f), NEW gone
  PROVE  IsDirectory(File!Without(f, gone))
BY DEF IsDirectory, File!Without

LEMMA BytesWithout ==
  ASSUME NEW f, IsDirectory(f), NEW k \in DOMAIN f
  PROVE  File!Bytes(f) = f[k].size + File!Bytes(File!Without(f, {k}))
<1>1. Sizes(File!Without(f, {k})) = Dropped(Sizes(f), k) /\ Sizes(f)[k] = f[k].size
  BY DEF Sizes, Dropped, File!Without
<1>2. Total(Sizes(f)) = Sizes(f)[k] + Total(Dropped(Sizes(f), k))
  BY SizesFit, TotalDropped
<1>3. IsDirectory(File!Without(f, {k}))
  BY WithoutFits
<1>. QED
  BY <1>1, <1>2, <1>3, BytesAre

(* A file comes, or takes the place of another.                            *)
LEMMA AndFits ==
  ASSUME NEW f, IsDirectory(f), NEW k \in Keys, NEW file \in Records
  PROVE  IsDirectory(File!And(f, k, file))
BY DEF IsDirectory, File!And

LEMMA BytesAnd ==
  ASSUME NEW f, IsDirectory(f), NEW k \in Keys, NEW file \in Records
  PROVE  File!Bytes(File!And(f, k, file)) = file.size + File!Bytes(File!Without(f, {k}))
<1>. DEFINE g == File!And(f, k, file)
<1>1. IsDirectory(g)
  BY AndFits
<1>2. k \in DOMAIN g /\ g[k] = file /\ File!Without(g, {k}) = File!Without(f, {k})
  BY DEF File!And, File!Without
<1>. HIDE DEF g
<1>3. File!Bytes(g) = g[k].size + File!Bytes(File!Without(g, {k}))
  BY <1>1, <1>2, BytesWithout
<1>. QED
  BY <1>2, <1>3 DEF g
-----------------------------------------------------------------------------
(* A get removes a file, touches it, or leaves all as it is.               *)
LEMMA GetOk ==
  ASSUME IInv, NEW k, File!Get(k)
  PROVE  IInv'
<1>1. IsDirectory(files) /\ IsTemps(temps) /\ counted \in Nat /\ counted >= File!Bytes(files)
      /\ now \in 0..MaxTime /\ now' = now /\ temps' = temps
  BY DEF IInv, Counts, File!Get
<1>2. CASE files' = files /\ counted' = counted
  BY <1>1, <1>2 DEF IInv, Counts
<1>3. CASE k \in DOMAIN files /\ File!Forget(k)
  <2>. DEFINE rest == File!Without(files, {k})
              size == files[k].size
  <2>1. files' = rest /\ counted' = counted - (IF size > counted THEN counted ELSE size)
    BY <1>3 DEF File!Forget
  <2>2. IsDirectory(rest)
    BY <1>1, WithoutFits
  <2>3. File!Bytes(rest) \in Nat
    BY <2>2, BytesNat
  <2>4. size \in Nat
    BY <1>1, <1>3 DEF IsDirectory, Records
  <2>5. File!Bytes(files) = size + File!Bytes(rest)
    BY <1>1, <1>3, BytesWithout
  <2>. HIDE DEF rest, size
  <2>6. counted' \in Nat /\ counted' >= File!Bytes(rest)
    BY <1>1, <2>1, <2>3, <2>4, <2>5
  <2>. QED
    BY <1>1, <2>1, <2>2, <2>6 DEF IInv, Counts
<1>4. CASE k \in DOMAIN files /\ files' = [files EXCEPT ![k].written = now] /\ counted' = counted
  <2>. DEFINE touched == [files[k] EXCEPT !.written = now]
  <2>1. touched \in Records /\ touched.size = files[k].size
    BY <1>1, <1>4 DEF IsDirectory, Records
  <2>2. files' = [j \in DOMAIN files |-> IF j = k THEN touched ELSE files[j]]
    BY <1>1, <1>4 DEF IsDirectory
  <2>. HIDE DEF touched
  <2>3. IsDirectory(files')
    BY <1>1, <2>1, <2>2 DEF IsDirectory
  <2>4. Sizes(files') = Sizes(files)
    BY <1>4, <2>1, <2>2 DEF Sizes
  <2>5. File!Bytes(files') = File!Bytes(files)
    BY <1>1, <2>3, <2>4, BytesAre
  <2>. QED
    BY <1>1, <1>4, <2>3, <2>5 DEF IInv, Counts
<1>. QED
  BY <1>2, <1>3, <1>4 DEF File!Get

(* A sweep keeps some of the files, and counts them. *)
LEMMA SweepsOk ==
  ASSUME NEW f, IsDirectory(f), File!Sweeps(f)
  PROVE  IsDirectory(files') /\ Counts(counted', files')
<1>1. PICK gone : files' = File!Without(f, gone) /\ counted' = File!Bytes(files')
  BY DEF File!Sweeps, File!Swept
<1>2. IsDirectory(files')
  BY <1>1, WithoutFits
<1>. QED
  BY <1>1, <1>2, BytesNat DEF Counts

LEMMA TempsFit ==
  ASSUME NEW t, IsTemps(t)
  PROVE  /\ IsTemps(File!Nothing)
         /\ \A k : IsTemps(File!Without(t, {k}))
         /\ \A k \in Keys : \A n \in Nat : IsTemps(File!And(t, k, n))
         /\ File!TempBytes(t) \in Nat
<1>1. IsTemps(File!Nothing)
  BY DEF IsTemps, File!Nothing
<1>2. ASSUME NEW k PROVE IsTemps(File!Without(t, {k}))
  BY DEF IsTemps, File!Without
<1>3. ASSUME NEW k \in Keys, NEW n \in Nat PROVE IsTemps(File!And(t, k, n))
  BY <1>3 DEF IsTemps, File!And
<1>4. File!TempBytes(t) = Total(t)
  BY DEF File!TempBytes, File!MapThenSumSet, File!MapThenFoldSet, Total, MapThenSumSet, MapThenFoldSet
<1>5. Total(t) \in Nat
  BY TotalNat, FewKeys DEF IsTemps
<1>. QED
  BY <1>1, <1>2, <1>3, <1>4, <1>5

(* A put that replaces a file: what it takes off the count is in the count. *)
LEMMA ReplaceOk ==
  ASSUME IInv, NEW k \in Keys, NEW e \in Entries, NEW file \in Records, file.size <= SizeOf(e),
         File!Replace(k, e, file), now' = now
  PROVE  IInv'
<1>. DEFINE f == File!And(files, k, file)
            previous == IF k \in DOMAIN files THEN files[k].size ELSE 0
            total == counted - previous + SizeOf(e)
            rest == File!Without(files, {k})
<1>1. IsDirectory(files) /\ IsTemps(temps) /\ counted \in Nat /\ counted >= File!Bytes(files)
      /\ now \in 0..MaxTime
  BY DEF IInv, Counts
<1>2. IsDirectory(f) /\ File!Bytes(f) = file.size + File!Bytes(rest)
  BY <1>1, AndFits, BytesAnd
<1>3. file.size \in Nat /\ SizeOf(e) \in Nat
  BY SizesAssumption DEF Records
<1>4. IsDirectory(rest)
  BY <1>1, WithoutFits
<1>5. File!Bytes(rest) \in Nat /\ previous \in Nat /\ File!Bytes(files) = previous + File!Bytes(rest)
  <2>1. File!Bytes(rest) \in Nat
    BY <1>4, BytesNat
  <2>2. CASE k \in DOMAIN files
    <3>1. File!Bytes(files) = files[k].size + File!Bytes(rest) /\ files[k].size \in Nat
      BY <1>1, <2>2, BytesWithout DEF IsDirectory, Records
    <3>. QED
      BY <2>1, <2>2, <3>1
  <2>3. CASE k \notin DOMAIN files
    <3>1. rest = files
      BY <1>1, <2>3 DEF IsDirectory, File!Without
    <3>. QED
      BY <2>1, <2>3, <3>1
  <2>. QED
    BY <2>1, <2>2, <2>3
<1>6. total \in Nat /\ total >= File!Bytes(f)
  <2>. HIDE DEF f, rest, previous
  <2>. QED
    BY <1>1, <1>2, <1>3, <1>5
<1>7. CASE total > MaxUsage
  <2>1. File!Sweeps(f) /\ temps' = File!Nothing
    BY <1>7 DEF File!Replace
  <2>. QED
    BY <1>1, <1>2, <2>1, SweepsOk, TempsFit DEF IInv
<1>8. CASE ~(total > MaxUsage)
  <2>1. files' = f /\ temps' = File!Without(temps, {k}) /\ counted' = total
    BY <1>8 DEF File!Replace
  <2>. HIDE DEF f, total
  <2>. QED
    BY <1>1, <1>2, <1>6, <2>1, TempsFit DEF IInv, Counts
<1>. QED
  BY <1>7, <1>8

(* A new process counts what it finds. *)
LEMMA MeasuredOk ==
  ASSUME IInv, NEW f, IsDirectory(f), NEW t, IsTemps(t), File!Measured(f, t)
  PROVE  IInv'
<1>1. File!Bytes(f) \in Nat /\ File!TempBytes(t) \in Nat
  BY BytesNat, TempsFit
<1>2. files' = f /\ temps' = t /\ counted' = File!Bytes(f) + File!TempBytes(t) /\ now' = now
  BY DEF File!Measured
<1>. QED
  BY <1>1, <1>2 DEF IInv, Counts

(* The file of an entry that is written to its end. *)
LEMMA WholeFits ==
  ASSUME IInv, NEW e \in Entries
  PROVE  File!Whole(e) \in Records /\ File!Whole(e).size <= SizeOf(e)
BY SizesAssumption DEF File!Whole, Records, IInv

LEMMA ShortFits ==
  ASSUME IInv, NEW e \in Entries, NEW file \in File!Short(e)
  PROVE  file \in Records /\ file.size <= SizeOf(e)
<1>1. PICK cut \in Cuts : file \in [entry : {e}, cut : {cut}, written : {now}, size : File!Left(cut, SizeOf(e))]
  BY DEF File!Short
<1>2. cut \in {"head", "body"} /\ SizeOf(e) \in Nat /\ now \in 0..MaxTime
  BY <1>1, CutsAssumption, SizesAssumption DEF IInv
<1>3. \A size \in File!Left(cut, SizeOf(e)) : size \in Nat /\ size <= SizeOf(e)
  BY <1>2 DEF File!Left
<1>. QED
  BY <1>1, <1>2, <1>3 DEF Records

(* A machine that stops leaves a shorter file in the place of one. *)
LEMMA CutFits ==
  ASSUME IInv, NEW k, File!PowerCut(k)
  PROVE  \E shorter \in Records :
           shorter.size <= files[k].size /\ File!Measured(File!And(files, k, shorter), temps)
<1>1. PICK cut \in Cuts : \E size \in File!Left(cut, files[k].size) :
        File!Measured([files EXCEPT ![k].cut = cut, ![k].size = size], temps)
  BY DEF File!PowerCut
<1>2. PICK size \in File!Left(cut, files[k].size) :
        File!Measured([files EXCEPT ![k].cut = cut, ![k].size = size], temps)
  BY <1>1
<1>. DEFINE shorter == [files[k] EXCEPT !.cut = cut, !.size = size]
<1>3. k \in DOMAIN files /\ files[k] \in Records /\ files \in [DOMAIN files -> Records]
  BY DEF File!PowerCut, IInv, IsDirectory
<1>4. cut \in {"no"} \cup Cuts
  BY <1>1
<1>5. size \in Nat /\ size <= files[k].size
  <2>1. files[k].size \in Nat
    BY <1>3 DEF Records
  <2>. QED
    BY <1>2, <2>1 DEF File!Left
<1>6. shorter \in Records /\ shorter.size = size
  BY <1>3, <1>4, <1>5 DEF Records
<1>7. [files EXCEPT ![k].cut = cut, ![k].size = size] = File!And(files, k, shorter)
  BY <1>3 DEF File!And
<1>. HIDE DEF shorter
<1>. QED
  BY <1>2, <1>5, <1>6, <1>7

(* Every fault but a failed put is a put or a start of its own kind. *)
LEMMA FaultOk ==
  ASSUME IInv, Fault
  PROVE  IInv'
<1>1. IsDirectory(files) /\ IsTemps(temps)
  BY DEF IInv
<1>2. CASE File!Restart
  BY <1>1, <1>2, MeasuredOk DEF File!Restart
<1>3. ASSUME NEW k \in Keys, File!PowerCut(k) PROVE IInv'
  <2>1. PICK shorter \in Records : File!Measured(File!And(files, k, shorter), temps)
    BY <1>3, CutFits
  <2>2. IsDirectory(File!And(files, k, shorter))
    BY <1>1, AndFits
  <2>. QED
    BY <1>1, <2>1, <2>2, MeasuredOk
<1>4. ASSUME NEW k \in Keys, NEW e \in Entries, File!PutFails(k, e) PROVE IInv'
  <2>1. IsTemps(temps')
    BY <1>1, <1>4, TempsFit DEF File!PutFails
  <2>. QED
    BY <1>4, <2>1 DEF IInv, Counts, File!PutFails
<1>5. ASSUME NEW k \in Keys, NEW e \in Entries, File!PutShort(k, e) PROVE IInv'
  <2>1. PICK file \in File!Short(e) : File!Replace(k, e, file)
    BY <1>5 DEF File!PutShort
  <2>2. now' = now
    BY <1>5 DEF File!PutShort
  <2>. QED
    BY <2>1, <2>2, ShortFits, ReplaceOk
<1>6. ASSUME NEW k \in Keys, NEW e \in Entries, File!StopWriting(k, e) PROVE IInv'
  <2>1. PICK size \in 0..SizeOf(e) : File!Measured(files, File!And(temps, k, size))
    BY <1>6 DEF File!StopWriting
  <2>2. size \in Nat
    BY <2>1, SizesAssumption
  <2>3. IsTemps(File!And(temps, k, size))
    BY <1>1, <2>2, TempsFit
  <2>. QED
    BY <1>1, <2>1, <2>3, MeasuredOk
<1>7. ASSUME NEW k \in Keys, NEW e \in Entries, File!StopRenamed(k, e) PROVE IInv'
  <2>1. IsDirectory(File!And(files, k, File!Whole(e)))
    BY <1>1, WholeFits, AndFits
  <2>2. IsTemps(File!Without(temps, {k}))
    BY <1>1, TempsFit
  <2>3. File!Measured(File!And(files, k, File!Whole(e)), File!Without(temps, {k}))
    BY <1>7 DEF File!StopRenamed
  <2>. QED
    BY <2>1, <2>2, <2>3, MeasuredOk
<1>. QED
  BY <1>2, <1>3, <1>4, <1>5, <1>6, <1>7 DEF Fault

LEMMA PutOk ==
  ASSUME IInv, NEW k \in Keys, NEW e \in Entries, File!Put(k, e)
  PROVE  IInv'
<1>1. CASE SizeOf(e) > MaxUsage
  BY <1>1 DEF File!Put, IInv, Counts
<1>2. CASE ~(SizeOf(e) > MaxUsage)
  <2>1. File!Replace(k, e, File!Whole(e)) /\ now' = now
    BY <1>2 DEF File!Put
  <2>. QED
    BY <2>1, WholeFits, ReplaceOk
<1>. QED
  BY <1>1, <1>2

LEMMA Initially == Init => IInv
<1>. SUFFICES ASSUME Init PROVE IInv
  OBVIOUS
<1>1. files = File!Nothing /\ temps = File!Nothing /\ counted = 0 /\ now = 0
  BY DEF Init, File!Init
<1>2. IsDirectory(files) /\ IsTemps(temps)
  BY <1>1 DEF IsDirectory, IsTemps, File!Nothing
<1>3. Total(Sizes(files)) = 0
  <2>1. Sizes(files) \in [{} -> Nat]
    BY <1>1 DEF Sizes, File!Nothing
  <2>. QED
    BY <2>1, TotalNothing
<1>. QED
  BY <1>1, <1>2, <1>3, BytesAre, BoundsAssumption DEF IInv, Counts

LEMMA Inductive == IInv /\ [Next]_vars => IInv'
<1>. SUFFICES ASSUME IInv, [Next]_vars PROVE IInv'
  OBVIOUS
<1>1. CASE UNCHANGED vars
  BY <1>1 DEF vars, IInv, Counts
<1>2. CASE Tick
  <2>1. now' \in 0..MaxTime /\ UNCHANGED <<files, temps, counted>>
    BY <1>2, BoundsAssumption DEF Tick, IInv
  <2>. QED
    BY <2>1 DEF IInv, Counts
<1>3. CASE Fault
  BY <1>3, FaultOk
<1>4. ASSUME NEW k \in Keys, Get(k) PROVE IInv'
  <2>1. CASE Memory!Get(k) /\ UNCHANGED <<files, temps, counted, stopped>>
    BY <2>1 DEF Memory!Get, IInv, Counts
  <2>2. CASE File!Get(k)
    BY <2>2, GetOk
  <2>. QED
    BY <1>4, <2>1, <2>2 DEF Get
<1>5. ASSUME NEW k \in Keys, NEW e \in Entries, Put(k, e) PROVE IInv'
  <2>1. CASE Memory!Put(k, e) /\ UNCHANGED <<files, temps, counted, stopped>>
    BY <2>1 DEF Memory!Put, IInv, Counts
  <2>2. CASE File!Put(k, e)
    BY <2>2, PutOk
  <2>. QED
    BY <1>5, <2>1, <2>2 DEF Put
<1>. QED
  BY <1>1, <1>2, <1>3, <1>4, <1>5 DEF Next

(* held_ never falls below what the directory holds, however a put fails, the
   process stops or the machine cuts a file: what a put or a forget takes off
   is in the count (file.cpp:59-89), so the unsigned subtraction never wraps. *)
THEOREM Counting == Spec => []NeverUndercounts
<1>1. IInv => NeverUndercounts
  BY DEF IInv, Counts, NeverUndercounts
<1>. QED
  BY <1>1, Initially, Inductive, PTL DEF Spec
-----------------------------------------------------------------------------
(* What WithinBudget says of the file store. *)
FileInBudget == ~stopped => File!Bytes(files) <= MaxUsage

(* A file gets shorter, or goes, and the directory gets lighter. *)
LEMMA Lighter ==
  ASSUME NEW f, IsDirectory(f), NEW k \in DOMAIN f
  PROVE  /\ File!Bytes(File!Without(f, {k})) <= File!Bytes(f)
         /\ \A file \in Records : file.size <= f[k].size =>
              File!Bytes(File!And(f, k, file)) <= File!Bytes(f)
<1>. k \in Keys
  BY DEF IsDirectory
<1>. DEFINE rest == File!Without(f, {k})
<1>1. IsDirectory(rest)
  BY WithoutFits
<1>2. File!Bytes(rest) \in Nat
  BY <1>1, BytesNat
<1>3. f[k].size \in Nat /\ \A file \in Records : file.size \in Nat
  BY DEF IsDirectory, Records
<1>4. File!Bytes(f) = f[k].size + File!Bytes(rest)
  BY BytesWithout
<1>5. \A file \in Records : File!Bytes(File!And(f, k, file)) = file.size + File!Bytes(rest)
  BY BytesAnd
<1>. HIDE DEF rest
<1>6. File!Bytes(rest) <= File!Bytes(f)
  BY <1>2, <1>3, <1>4
<1>7. ASSUME NEW file \in Records, file.size <= f[k].size
      PROVE  File!Bytes(File!And(f, k, file)) <= File!Bytes(f)
  BY <1>2, <1>3, <1>4, <1>5, <1>7
<1>. QED
  BY <1>6, <1>7 DEF rest

(* A put that is kept either fits what is counted or sweeps until it does. *)
LEMMA ReplaceInBudget ==
  ASSUME IInv, NEW k \in Keys, NEW e \in Entries, NEW file \in Records, file.size <= SizeOf(e),
         File!Replace(k, e, file), now' = now
  PROVE  FileInBudget'
<1>. DEFINE f == File!And(files, k, file)
            previous == IF k \in DOMAIN files THEN files[k].size ELSE 0
            total == counted - previous + SizeOf(e)
<1>1. CASE total > MaxUsage
  <2>1. File!Sweeps(f)
    BY <1>1 DEF File!Replace
  <2>2. \E gone : File!Bytes(File!Without(f, gone)) <= MaxUsage /\ files' = File!Without(f, gone)
    BY <2>1 DEF File!Sweeps, File!Swept
  <2>. QED
    BY <2>2 DEF FileInBudget
<1>2. CASE ~(total > MaxUsage)
  <2>1. counted' = total
    BY <1>2 DEF File!Replace
  <2>2. Counts(counted', files') /\ IsDirectory(files')
    BY ReplaceOk DEF IInv
  <2>3. File!Bytes(files') \in Nat
    BY <2>2, BytesNat
  <2>4. total \in Nat /\ total >= File!Bytes(files')
    BY <2>1, <2>2 DEF Counts
  <2>. HIDE DEF total
  <2>. QED
    BY <1>2, <2>3, <2>4, BudgetAssumption DEF FileInBudget
<1>. QED
  BY <1>1, <1>2

LEMMA NextInBudget == IInv /\ FileInBudget /\ [Next]_vars => FileInBudget'
<1>. SUFFICES ASSUME IInv, FileInBudget, [Next]_vars PROVE FileInBudget'
  OBVIOUS
<1>1. IsDirectory(files) /\ now \in 0..MaxTime /\ IInv'
  BY Inductive DEF IInv
<1>2. CASE UNCHANGED <<files, stopped>>
  BY <1>2 DEF FileInBudget
<1>3. ASSUME stopped' = stopped, IsDirectory(files'), File!Bytes(files') <= File!Bytes(files) PROVE FileInBudget'
  <2>1. File!Bytes(files') \in Nat /\ File!Bytes(files) \in Nat
    BY <1>1, <1>3, BytesNat
  <2>. QED
    BY <1>3, <2>1, BudgetAssumption DEF FileInBudget
<1>4. ASSUME NEW k, File!Get(k) PROVE FileInBudget'
  <2>1. stopped' = stopped /\ IsDirectory(files')
    BY <1>1, <1>4 DEF IInv, File!Get
  <2>2. CASE k \in DOMAIN files /\ File!Forget(k)
    BY <1>1, <1>3, <2>1, <2>2, Lighter DEF File!Forget
  <2>3. CASE k \in DOMAIN files /\ files' = [files EXCEPT ![k].written = now]
    <3>. DEFINE touched == [files[k] EXCEPT !.written = now]
    <3>1. touched \in Records /\ touched.size = files[k].size /\ files[k].size \in Nat
      BY <1>1, <2>3 DEF IsDirectory, Records
    <3>2. files' = File!And(files, k, touched)
      BY <1>1, <2>3 DEF IsDirectory, File!And
    <3>. HIDE DEF touched
    <3>3. touched.size <= files[k].size
      BY <3>1
    <3>. QED
      BY <1>1, <1>3, <2>1, <2>3, <3>1, <3>2, <3>3, Lighter
  <2>. QED
    BY <1>2, <1>4, <2>1, <2>2, <2>3 DEF File!Get
<1>5. ASSUME NEW k \in Keys, NEW e \in Entries, File!Put(k, e) PROVE FileInBudget'
  <2>1. CASE SizeOf(e) > MaxUsage
    BY <1>2, <1>5, <2>1 DEF File!Put
  <2>2. CASE ~(SizeOf(e) > MaxUsage)
    <3>1. File!Replace(k, e, File!Whole(e)) /\ now' = now
      BY <1>5, <2>2 DEF File!Put
    <3>. QED
      BY <3>1, WholeFits, ReplaceInBudget
  <2>. QED
    BY <2>1, <2>2
<1>6. ASSUME NEW k \in Keys, NEW e \in Entries, File!PutShort(k, e) PROVE FileInBudget'
  <2>1. PICK file \in File!Short(e) : File!Replace(k, e, file)
    BY <1>6 DEF File!PutShort
  <2>2. now' = now
    BY <1>6 DEF File!PutShort
  <2>. QED
    BY <2>1, <2>2, ShortFits, ReplaceInBudget
<1>7. ASSUME NEW k, File!PowerCut(k) PROVE FileInBudget'
  <2>1. PICK shorter \in Records : shorter.size <= files[k].size /\ files' = File!And(files, k, shorter)
    BY <1>7, CutFits DEF IInv, File!Measured
  <2>2. k \in DOMAIN files /\ stopped' = stopped
    BY <1>7 DEF File!PowerCut
  <2>. QED
    BY <1>1, <1>3, <2>1, <2>2, Lighter DEF IInv
<1>8. CASE Fault
  <2>1. CASE File!Restart
    BY <1>2, <2>1 DEF File!Restart, File!Measured
  <2>2. ASSUME NEW k \in Keys, NEW e \in Entries, File!PutFails(k, e) \/ File!StopWriting(k, e)
        PROVE  FileInBudget'
    BY <1>2, <2>2 DEF File!PutFails, File!StopWriting, File!Measured
  <2>3. ASSUME NEW k \in Keys, NEW e \in Entries, File!StopRenamed(k, e) PROVE FileInBudget'
    BY <2>3 DEF File!StopRenamed, FileInBudget
  <2>. QED
    BY <1>6, <1>7, <1>8, <2>1, <2>2, <2>3 DEF Fault
<1>. QED
  BY <1>2, <1>4, <1>5, <1>8 DEF Next, vars, Tick, Get, Put

(* The directory holds its budget, but for a process that stopped after the
   rename (file.cpp:81) and before the sweep (file.cpp:88). *)
THEOREM Budgeted == Spec => []FileInBudget
<1>1. Init => FileInBudget
  <2>. SUFFICES ASSUME Init PROVE FileInBudget
    OBVIOUS
  <2>1. Sizes(files) \in [{} -> Nat]
    BY DEF Init, File!Init, Sizes, File!Nothing
  <2>2. Total(Sizes(files)) = 0
    BY <2>1, TotalNothing
  <2>3. IsDirectory(files)
    BY Initially DEF IInv
  <2>4. File!Bytes(files) = 0
    BY <2>2, <2>3, BytesAre
  <2>. QED
    BY <2>4, BudgetAssumption DEF FileInBudget
<1>. QED
  BY <1>1, Initially, Inductive, NextInBudget, PTL DEF Spec
-----------------------------------------------------------------------------
(* The memory store's list: what is in it was put or read in the order it  *)
(* is in, and its nodes fit the budget.                                    *)
Values == [entry : Entries, until : Nat]
Until(node) == [k \in DOMAIN node |-> node[k].value.until]
SortedBy(order, u) == \A i, j \in 1..Len(order) : i < j => u[order[j]] <= u[order[i]]

Sound(lru, time) ==
  /\ IsList(lru, Values)
  /\ DOMAIN lru.node \subseteq Keys
  /\ SortedBy(lru.order, Until(lru.node))
  /\ \A k \in DOMAIN lru.node : lru.node[k].value.until <= time + Ttl

MInv == Sound(memory, now) /\ memory.held <= MaxUsage

(* The operators of the instance are those of LruBySize.                   *)
LEMMA SameList ==
  ASSUME NEW lru, NEW k
  PROVE  /\ Memory!Promoted(lru, k) = Promoted(lru, k)
         /\ Memory!Erased(lru, k) = Erased(lru, k)
         /\ Memory!Holds(lru, k) = Holds(lru, k)
BY SMTT(30) DEF Memory!Promoted, Memory!Erased, Memory!Holds, Memory!Unlinked, Memory!RemoveAt,
       Promoted, Erased, Holds, Unlinked, RemoveAt

LEMMA SameKept ==
  ASSUME NEW lru, NEW k, NEW value, NEW size, NEW budget
  PROVE  Memory!Kept(lru, k, value, size, budget) = Kept(lru, k, value, size, budget)
BY Zenon DEF
  Memory!Kept, Memory!Evicted, Memory!Pushed, Memory!Erased, Memory!Holds, Memory!Unlinked, Memory!RemoveAt,
  Memory!Weight, Memory!SumFunction, Memory!SumFunctionOnSet, Memory!FoldFunctionOnSet, Memory!MapThenFoldSet,
  Kept, Evicted, Pushed, Erased, Holds, Unlinked, RemoveAt,
  Weight, SumFunction, SumFunctionOnSet, FoldFunctionOnSet, MapThenFoldSet

LEMMA SortedSkips ==
  ASSUME NEW K, NEW order, IsOrder(order, K), NEW k \in K, NEW u, NEW v,
         SortedBy(order, u), \A j \in K \ {k} : v[j] = u[j]
  PROVE  SortedBy(Unlinked(order, k), v)
<1>1. PICK p \in 1..Len(order) : order[p] = k /\ Unlinked(order, k) = Skipping(order, p)
  BY UnlinkedIs
<1>2. IsOrder(Unlinked(order, k), K \ {k}) /\ Len(Unlinked(order, k)) = Len(order) - 1
  BY UnlinkedOk
<1>3. Len(order) \in Nat
  BY AllFirst
<1>. DEFINE rest == Unlinked(order, k)
            at(i) == IF i < p THEN i ELSE i + 1
<1>4. \A i \in 1..Len(order) - 1 : rest[i] = order[at(i)] /\ at(i) \in 1..Len(order)
  BY <1>1, <1>3 DEF Skipping
<1>5. \A i \in 1..Len(order) - 1 : rest[i] \in K \ {k}
  BY <1>2 DEF IsOrder
<1>6. ASSUME NEW i \in 1..Len(order) - 1, NEW j \in 1..Len(order) - 1, i < j
      PROVE  v[rest[j]] <= v[rest[i]]
  <2>1. at(i) < at(j)
    BY <1>3, <1>6
  <2>2. u[order[at(j)]] <= u[order[at(i)]]
    BY <1>4, <2>1, SMTT(30) DEF SortedBy
  <2>3. v[rest[j]] = u[rest[j]] /\ v[rest[i]] = u[rest[i]]
    BY <1>5
  <2>. HIDE DEF rest, at
  <2>. QED
    BY <1>4, <2>2, <2>3
<1>. QED
  BY <1>2, <1>6 DEF SortedBy

LEMMA SortedFront ==
  ASSUME NEW K, NEW order, IsOrder(order, K), NEW k, k \notin K, NEW u, NEW v,
         SortedBy(order, u), \A j \in K : v[j] = u[j] /\ v[j] <= v[k]
  PROVE  SortedBy(<<k>> \o order, v)
<1>. DEFINE longer == <<k>> \o order
            n == Len(order)
<1>1. n \in Nat /\ \A i \in 1..n : order[i] \in K
  BY AllFirst DEF IsOrder
<1>2. Len(longer) = n + 1 /\ longer[1] = k /\ \A i \in 2..n + 1 : longer[i] = order[i - 1]
  BY FrontOk
<1>. HIDE DEF longer
<1>3. ASSUME NEW i \in 1..n + 1, NEW j \in 1..n + 1, i < j PROVE v[longer[j]] <= v[longer[i]]
  <2>1. j \in 2..n + 1 /\ j - 1 \in 1..n
    BY <1>1, <1>3
  <2>2. CASE i = 1
    BY <1>1, <1>2, <2>1, <2>2
  <2>3. CASE i # 1
    <3>1. i \in 2..n + 1 /\ i - 1 \in 1..n /\ i - 1 < j - 1
      BY <1>1, <1>3, <2>3
    <3>2. u[order[j - 1]] <= u[order[i - 1]]
      BY <2>1, <3>1 DEF SortedBy
    <3>. QED
      BY <1>1, <1>2, <2>1, <3>1, <3>2, SMTT(30)
  <2>. QED
    BY <2>2, <2>3
<1>. QED
  BY <1>2, <1>3 DEF SortedBy, longer

(* A hit comes to the front, with the latest time of all.                  *)
LEMMA RenewedOk ==
  ASSUME NEW lru, NEW time \in Nat, Sound(lru, time), NEW k \in DOMAIN lru.node
  PROVE  /\ Sound([Promoted(lru, k) EXCEPT !.node[k].value.until = time + Ttl], time)
         /\ [Promoted(lru, k) EXCEPT !.node[k].value.until = time + Ttl].held = lru.held
         /\ [Promoted(lru, k) EXCEPT !.node[k].value.until = time + Ttl].node =
              [lru.node EXCEPT ![k].value.until = time + Ttl]
<1>. DEFINE order == <<k>> \o Unlinked(lru.order, k)
            node == [lru.node EXCEPT ![k].value.until = time + Ttl]
            new == [Promoted(lru, k) EXCEPT !.node[k].value.until = time + Ttl]
            D == DOMAIN lru.node
            u == Until(lru.node)
            v == Until(node)
<1>1. IsList(lru, Values) /\ D \subseteq Keys /\ SortedBy(lru.order, u)
      /\ \A j \in D : lru.node[j].value.until <= time + Ttl
  BY DEF Sound
<1>2. IsIndex(lru.node, Values) /\ IsOrder(lru.order, D) /\ lru.held = Total(NodeSizes(lru.node))
  BY <1>1 DEF IsList
<1>3. Promoted(lru, k) = [order |-> order, node |-> lru.node, held |-> lru.held] /\ IsOrder(order, D)
  BY <1>1, PromotedIs
<1>4. new = [order |-> order, node |-> node, held |-> lru.held]
  <2>. HIDE DEF order
  <2>. QED
    BY <1>3
<1>5. time + Ttl \in Nat
  BY TtlAssumption
<1>6. DOMAIN node = D /\ \A j \in D : node[j] = IF j = k THEN [lru.node[k] EXCEPT !.value.until = time + Ttl] ELSE lru.node[j]
  BY <1>2 DEF IsIndex
<1>7. lru.node[k] \in [value : Values, size : Nat] /\ lru.node[k].value \in Values
  BY <1>2 DEF IsIndex
<1>8. [lru.node[k] EXCEPT !.value.until = time + Ttl] \in [value : Values, size : Nat]
      /\ [lru.node[k] EXCEPT !.value.until = time + Ttl].size = lru.node[k].size
      /\ [lru.node[k] EXCEPT !.value.until = time + Ttl].value.until = time + Ttl
  BY <1>5, <1>7 DEF Values
<1>9. IsIndex(node, Values)
  <2>1. node = [j \in D |-> node[j]]
    OBVIOUS
  <2>. HIDE DEF node
  <2>. QED
    BY <1>2, <1>6, <1>8, <2>1, ZenonT(60) DEF IsIndex
<1>. HIDE DEF node
<1>10. NodeSizes(node) = NodeSizes(lru.node)
  BY <1>6, <1>8 DEF NodeSizes
<1>11. \A j \in D \ {k} : v[j] = u[j]
  BY <1>6 DEF Until
<1>12. v[k] = time + Ttl /\ \A j \in D : u[j] <= time + Ttl
  BY <1>1, <1>6, <1>8 DEF Until
<1>. HIDE DEF u, v, order
<1>13. IsOrder(Unlinked(lru.order, k), D \ {k})
  BY <1>2, UnlinkedOk
<1>14. SortedBy(Unlinked(lru.order, k), v)
  BY <1>1, <1>2, <1>11, SortedSkips
<1>15. SortedBy(order, v)
  <2>1. \A j \in D \ {k} : v[j] = v[j] /\ v[j] <= v[k]
    BY <1>11, <1>12
  <2>. HIDE DEF D
  <2>. QED
    BY <1>13, <1>14, <2>1, SortedFront DEF order
<1>16. \A j \in D : node[j].value.until <= time + Ttl
  BY <1>1, <1>5, <1>6, <1>8
<1>17. IsList(new, Values)
  BY <1>2, <1>3, <1>4, <1>6, <1>9, <1>10 DEF IsList
<1>18. Sound(new, time)
  BY <1>1, <1>4, <1>6, <1>15, <1>16, <1>17, ZenonT(60) DEF Sound, v
<1>. QED
  BY <1>4, <1>18 DEF node

LEMMA ErasedSound ==
  ASSUME NEW lru, NEW time, Sound(lru, time), NEW k
  PROVE  Sound(Erased(lru, k), time)
<1>. DEFINE new == Erased(lru, k)
            D == DOMAIN lru.node
<1>1. IsList(lru, Values) /\ D \subseteq Keys /\ SortedBy(lru.order, Until(lru.node))
      /\ \A j \in D : lru.node[j].value.until <= time + Ttl
  BY DEF Sound
<1>2. IsList(new, Values) /\ new.node = [j \in D \ {k} |-> lru.node[j]]
  BY <1>1, ErasedOk, ErasedNode
<1>3. CASE k \notin D
  <2>1. new = lru
    BY <1>3 DEF Erased, Holds
  <2>. QED
    BY <2>1
<1>4. CASE k \in D
  <2>1. new.order = Unlinked(lru.order, k)
    BY <1>4 DEF Erased, Holds
  <2>. HIDE DEF new
  <2>2. \A j \in D \ {k} : Until(new.node)[j] = Until(lru.node)[j]
    BY <1>2 DEF Until
  <2>3. IsOrder(lru.order, D)
    BY <1>1 DEF IsList
  <2>4. SortedBy(new.order, Until(new.node))
    BY <1>1, <1>4, <2>1, <2>2, <2>3, SortedSkips, SMTT(30)
  <2>. QED
    BY <1>1, <1>2, <2>4 DEF Sound, new
<1>. QED
  BY <1>3, <1>4

LEMMA PushedSound ==
  ASSUME NEW lru, NEW time \in Nat, Sound(lru, time), NEW k \in Keys, k \notin DOMAIN lru.node, NEW e \in Entries
  PROVE  Sound(Pushed(lru, k, [entry |-> e, until |-> time + Ttl], SizeOf(e)), time)
<1>. DEFINE value == [entry |-> e, until |-> time + Ttl]
            new == Pushed(lru, k, value, SizeOf(e))
            D == DOMAIN lru.node
<1>1. IsList(lru, Values) /\ D \subseteq Keys /\ SortedBy(lru.order, Until(lru.node))
      /\ \A j \in D : lru.node[j].value.until <= time + Ttl
  BY DEF Sound
<1>2. value \in Values /\ SizeOf(e) \in Nat /\ value.until = time + Ttl /\ time + Ttl \in Nat
  BY TtlAssumption, SizesAssumption DEF Values
<1>. HIDE DEF value
<1>3. IsList(new, Values)
  BY <1>1, <1>2, PushedOk
<1>4. new.order = <<k>> \o lru.order
      /\ new.node = [j \in D \cup {k} |-> IF j = k THEN [value |-> value, size |-> SizeOf(e)] ELSE lru.node[j]]
  BY DEF Pushed
<1>. HIDE DEF new
<1>5. IsOrder(lru.order, D)
  BY <1>1 DEF IsList
<1>6. \A j \in D \cup {k} : new.node[j].value.until <= time + Ttl
  BY <1>1, <1>2, <1>4
<1>7. \A j \in D : Until(new.node)[j] = Until(lru.node)[j] /\ Until(new.node)[j] <= Until(new.node)[k]
  <2>1. Until(new.node)[k] = time + Ttl
    BY <1>2, <1>4 DEF Until
  <2>2. \A j \in D : j # k /\ j \in DOMAIN new.node
    BY <1>4
  <2>3. \A j \in D : Until(new.node)[j] = new.node[j].value.until /\ new.node[j] = lru.node[j]
    BY <1>4, <2>2 DEF Until
  <2>. QED
    BY <1>6, <2>1, <2>3 DEF Until
<1>8. SortedBy(new.order, Until(new.node))
  BY <1>1, <1>4, <1>5, <1>7, SortedFront, ZenonT(60)
<1>. QED
  BY <1>1, <1>3, <1>4, <1>6, <1>8 DEF Sound, new, value

LEMMA CutSound ==
  ASSUME NEW lru, NEW time, Sound(lru, time), NEW n \in 0..Len(lru.order)
  PROVE  Sound(UpTo(lru, n), time)
<1>. DEFINE new == UpTo(lru, n)
            D == DOMAIN lru.node
<1>1. IsList(lru, Values) /\ D \subseteq Keys /\ SortedBy(lru.order, Until(lru.node))
      /\ \A j \in D : lru.node[j].value.until <= time + Ttl
  BY DEF Sound
<1>2. IsList(new, Values)
  BY <1>1, CutOk
<1>3. IsOrder(lru.order, D) /\ Len(lru.order) \in Nat
  BY <1>1, AllFirst DEF IsList
<1>4. Len(new.order) = n /\ \A i \in 1..n : new.order[i] = lru.order[i]
  BY <1>3, PrefixOk DEF UpTo
<1>5. new.node = [k \in Firsts(lru.order, n) |-> lru.node[k]]
  BY DEF UpTo
<1>. HIDE DEF new
<1>6. \A i \in 1..n : lru.order[i] \in Firsts(lru.order, n) /\ lru.order[i] \in D
  BY <1>3 DEF Firsts, IsOrder
<1>7. Firsts(lru.order, n) \subseteq D
  BY <1>6 DEF Firsts
<1>8. \A i \in 1..n : Until(new.node)[new.order[i]] = Until(lru.node)[lru.order[i]]
  BY <1>4, <1>5, <1>6 DEF Until
<1>9. SortedBy(new.order, Until(new.node))
  BY <1>1, <1>3, <1>4, <1>8 DEF SortedBy
<1>. QED
  BY <1>1, <1>2, <1>5, <1>7, <1>9 DEF Sound, new
-----------------------------------------------------------------------------
LEMMA MemoryGets ==
  ASSUME MInv, now \in Nat, NEW k, Memory!Get(k)
  PROVE  MInv'
<1>1. now' = now /\ Sound(memory, now) /\ memory.held <= MaxUsage /\ IsList(memory, Values)
  BY DEF Memory!Get, MInv, Sound
<1>2. CASE Memory!Found(k)
  <2>1. k \in DOMAIN memory.node /\ memory' = [Promoted(memory, k) EXCEPT !.node[k].value.until = now + Ttl]
    BY <1>2, SameList DEF Memory!Get, Memory!Found, Holds
  <2>. QED
    BY <1>1, <2>1, RenewedOk, ZenonT(60) DEF MInv
<1>3. CASE ~Memory!Found(k)
  <2>1. memory' = Erased(memory, k)
    BY <1>3, SameList DEF Memory!Get
  <2>2. Sound(memory', now)
    BY <1>1, <2>1, ErasedSound
  <2>3. memory'.held <= MaxUsage
    <3>1. CASE k \notin DOMAIN memory.node
      BY <1>1, <2>1, <3>1 DEF Erased, Holds
    <3>2. CASE k \in DOMAIN memory.node
      <4>1. memory'.held = memory.held - memory.node[k].size
        BY <2>1, <3>2 DEF Erased, Holds
      <4>2. memory.node[k].size \in Nat /\ memory.held \in Nat
        BY <1>1, <3>2, NodesFinite DEF IsList, IsIndex
      <4>. QED
        BY <1>1, <4>1, <4>2, BudgetAssumption
    <3>. QED
      BY <3>1, <3>2
  <2>. QED
    BY <1>1, <2>2, <2>3 DEF MInv
<1>. QED
  BY <1>2, <1>3

(* What the list is before the eviction, and that a prefix of it is kept.  *)
Pushing(k, e) == Pushed(Erased(memory, k), k, [entry |-> e, until |-> now + Ttl], SizeOf(e))

LEMMA PutIs ==
  ASSUME MInv, now \in Nat, NEW k \in Keys, NEW e \in Entries, Memory!Put(k, e), SizeOf(e) <= MaxUsage
  PROVE  /\ Sound(Pushing(k, e), now)
         /\ \E n \in 0..Len(Pushing(k, e).order) :
              memory' = UpTo(Pushing(k, e), n) /\ Keeps(Pushing(k, e), MaxUsage, n)
<1>1. Sound(memory, now) /\ IsList(memory, Values)
  BY DEF MInv, Sound
<1>2. Sound(Erased(memory, k), now) /\ k \notin DOMAIN Erased(memory, k).node
  <2>1. Erased(memory, k).node = [j \in DOMAIN memory.node \ {k} |-> memory.node[j]]
    BY <1>1, ErasedNode
  <2>2. k \notin DOMAIN Erased(memory, k).node
    BY <2>1
  <2>. QED
    BY <1>1, <2>2, ErasedSound
<1>3. Sound(Pushing(k, e), now)
  BY <1>2, PushedSound DEF Pushing
<1>4. IsList(Pushing(k, e), Values)
  BY <1>3 DEF Sound
<1>5. memory' = Kept(memory, k, [entry |-> e, until |-> now + Ttl], SizeOf(e), MaxUsage)
  BY SameKept DEF Memory!Put
<1>6. ~(SizeOf(e) > MaxUsage)
  BY SizesAssumption, BudgetAssumption
<1>7. memory' = Evicted(Pushing(k, e), MaxUsage)
  BY <1>5, <1>6 DEF Kept, Pushing
<1>. HIDE DEF Pushing
<1>8. \E n \in 0..Len(Pushing(k, e).order) :
        Evicted(Pushing(k, e), MaxUsage) = UpTo(Pushing(k, e), n) /\ Keeps(Pushing(k, e), MaxUsage, n)
  BY <1>4, BudgetAssumption, EvictedIs
<1>. QED
  BY <1>3, <1>7, <1>8

LEMMA RefusedPut ==
  ASSUME NEW k, NEW e, Memory!Put(k, e), SizeOf(e) > MaxUsage
  PROVE  memory' = memory
BY SameKept DEF Memory!Put, Kept

LEMMA MemoryPuts ==
  ASSUME MInv, now \in Nat, NEW k \in Keys, NEW e \in Entries, Memory!Put(k, e)
  PROVE  MInv'
<1>1. now' = now
  BY DEF Memory!Put
<1>2. CASE SizeOf(e) > MaxUsage
  BY <1>1, <1>2, RefusedPut DEF MInv
<1>3. CASE SizeOf(e) <= MaxUsage
  <2>1. Sound(Pushing(k, e), now)
    BY <1>3, PutIs
  <2>2. PICK n \in 0..Len(Pushing(k, e).order) : memory' = UpTo(Pushing(k, e), n) /\ Keeps(Pushing(k, e), MaxUsage, n)
    BY <1>3, PutIs
  <2>3. Sound(memory', now)
    BY <2>1, <2>2, CutSound
  <2>4. memory'.held <= MaxUsage
    BY <2>2 DEF UpTo, Keeps
  <2>. QED
    BY <1>1, <2>3, <2>4 DEF MInv
<1>. QED
  BY <1>2, <1>3, SizesAssumption, BudgetAssumption
-----------------------------------------------------------------------------
(* What one store leaves to the other, and what a get may answer.          *)
Rest == /\ store \in {"memory", "file"}
        /\ stopped \in BOOLEAN
        /\ answer \in Entries \cup {None, Mangled}
        /\ faults \in 0..MaxFaults

Typed == IInv /\ MInv /\ Rest

LEMMA InitiallyTyped == Init => Typed
<1>. SUFFICES ASSUME Init PROVE Typed
  OBVIOUS
<1>1. memory = EmptyLru
  BY DEF Init, Memory!Init, EmptyLru, Memory!EmptyLru
<1>2. IsList(memory, Values)
  BY <1>1, EmptyOk
<1>3. memory.order = <<>> /\ DOMAIN memory.node = {} /\ memory.held = 0
  BY <1>1 DEF EmptyLru
<1>4. SortedBy(memory.order, Until(memory.node))
  BY <1>3 DEF SortedBy
<1>5. Sound(memory, now)
  BY <1>2, <1>3, <1>4 DEF Sound
<1>6. MInv
  BY <1>3, <1>5, BudgetAssumption DEF MInv
<1>7. Rest
  <2>1. stopped = FALSE /\ answer = None /\ faults = 0 /\ store \in {"memory", "file"}
    BY DEF Init, File!Init
  <2>2. stopped \in BOOLEAN
    BY <2>1
  <2>3. faults \in 0..MaxFaults
    BY <2>1, BoundsAssumption
  <2>. QED
    BY <2>1, <2>2, <2>3 DEF Rest
<1>. QED
  BY <1>6, <1>7, Initially DEF Typed

LEMMA LaterSound ==
  ASSUME MInv, now \in Nat, now' = now + 1, memory' = memory
  PROVE  MInv'
<1>1. \A k \in DOMAIN memory.node : memory.node[k].value.until \in Nat
  BY DEF MInv, Sound, IsList, IsIndex, Values
<1>2. \A k \in DOMAIN memory.node : memory.node[k].value.until <= now' + Ttl
  BY <1>1, TtlAssumption DEF MInv, Sound
<1>3. Sound(memory, now')
  BY <1>2 DEF MInv, Sound
<1>. QED
  BY <1>3 DEF MInv

LEMMA MemoryAnswers ==
  ASSUME MInv, NEW k, Memory!Get(k)
  PROVE  answer' \in Entries \cup {None, Mangled}
<1>1. CASE Memory!Found(k)
  <2>1. k \in DOMAIN memory.node /\ answer' = memory.node[k].value.entry
    BY <1>1 DEF Memory!Get, Memory!Found, Memory!Holds
  <2>2. memory.node[k].value.entry \in Entries
    BY <2>1 DEF MInv, Sound, IsList, IsIndex, Values
  <2>. QED
    BY <2>1, <2>2
<1>. QED
  BY <1>1 DEF Memory!Get

LEMMA FileAnswers ==
  ASSUME IInv, NEW k, File!Get(k)
  PROVE  answer' \in Entries \cup {None, Mangled}
<1>1. k \in DOMAIN files => files[k].entry \in Entries
  BY DEF IInv, IsDirectory, Records
<1>2. answer' = None \/ (k \in DOMAIN files /\ answer' = File!Decoded(files[k]))
  BY DEF File!Get
<1>. QED
  BY <1>1, <1>2 DEF File!Decoded

LEMMA FaultAnswers ==
  ASSUME Fault
  PROVE  answer' = None /\ now' = now
BY DEF Fault, File!Restart, File!PowerCut, File!PutFails, File!PutShort, File!StopWriting, File!StopRenamed, File!Measured

LEMMA FaultStops ==
  ASSUME Fault, stopped \in BOOLEAN
  PROVE  stopped' \in BOOLEAN
BY DEF Fault, File!Restart, File!PowerCut, File!PutFails, File!PutShort, File!StopWriting, File!StopRenamed, File!Replace

LEMMA RestOk ==
  ASSUME Typed, [Next]_vars
  PROVE  Rest'
<1>1. store \in {"memory", "file"} /\ stopped \in BOOLEAN /\ answer \in Entries \cup {None, Mangled} /\ faults \in 0..MaxFaults
  BY DEF Typed, Rest
<1>2. CASE UNCHANGED vars
  BY <1>1, <1>2 DEF vars, Rest
<1>3. CASE Tick
  BY <1>1, <1>3 DEF Tick, Rest
<1>4. CASE Fault
  <2>1. faults' \in 0..MaxFaults /\ store' = store
    BY <1>1, <1>4, BoundsAssumption DEF Fault
  <2>. QED
    BY <1>1, <1>4, <2>1, FaultAnswers, FaultStops DEF Rest
<1>5. ASSUME NEW k \in Keys, Get(k) PROVE Rest'
  <2>1. store' = store /\ faults' = faults /\ stopped' = stopped
    BY <1>5 DEF Get, File!Get
  <2>2. answer' \in Entries \cup {None, Mangled}
    BY <1>5, MemoryAnswers, FileAnswers DEF Get, Typed
  <2>. QED
    BY <1>1, <2>1, <2>2 DEF Rest
<1>6. ASSUME NEW k \in Keys, NEW e \in Entries, Put(k, e) PROVE Rest'
  <2>1. store' = store /\ faults' = faults /\ answer' = None
    BY <1>6 DEF Put, Memory!Put, File!Put
  <2>2. stopped' \in BOOLEAN
    BY <1>1, <1>6 DEF Put, File!Put, File!Replace
  <2>. QED
    BY <1>1, <2>1, <2>2 DEF Rest
<1>. QED
  BY <1>2, <1>3, <1>4, <1>5, <1>6 DEF Next

LEMMA MemoryOk ==
  ASSUME Typed, [Next]_vars
  PROVE  MInv'
<1>1. MInv /\ now \in Nat
  BY DEF Typed, IInv
<1>2. CASE UNCHANGED <<memory, now>>
  BY <1>1, <1>2 DEF MInv
<1>3. CASE Tick
  BY <1>1, <1>3, LaterSound DEF Tick
<1>4. CASE Fault
  BY <1>2, <1>4, FaultAnswers DEF Fault
<1>5. ASSUME NEW k \in Keys, Get(k) PROVE MInv'
  BY <1>1, <1>2, <1>5, MemoryGets DEF Get, File!Get
<1>6. ASSUME NEW k \in Keys, NEW e \in Entries, Put(k, e) PROVE MInv'
  BY <1>1, <1>2, <1>6, MemoryPuts DEF Put, File!Put
<1>. QED
  BY <1>2, <1>3, <1>4, <1>5, <1>6 DEF Next, vars

LEMMA StaysTyped == Typed /\ [Next]_vars => Typed'
BY Inductive, MemoryOk, RestOk DEF Typed

LEMMA AlwaysTyped == Spec => []Typed
BY InitiallyTyped, StaysTyped, PTL DEF Spec

(* What held_ counts never goes below zero in either store, an index leads
   only to nodes of the list, and a file is one that a put has written
   (lru.hpp:53-59, file.cpp:59-89). *)
THEOREM Typing == Spec => []TypeOK
<1>1. Typed => TypeOK
  <2>. SUFFICES ASSUME Typed PROVE TypeOK
    OBVIOUS
  <2>1. DOMAIN memory.node \subseteq Keys /\ IsList(memory, Values)
    BY DEF Typed, MInv, Sound
  <2>2. memory.order \in Seq(DOMAIN memory.node) /\ memory.held \in Nat
    BY <2>1, NodesFinite DEF IsList, IsOrder
  <2>3. memory.order \in Seq(Keys)
    BY <2>1, <2>2
  <2>4. \A k \in DOMAIN files : k \in Keys /\ files[k] \in Records
    BY DEF Typed, IInv, IsDirectory
  <2>5. now \in 0..MaxTime /\ DOMAIN temps \subseteq Keys /\ counted \in Nat
    BY DEF Typed, IInv, IsTemps, Counts
  <2>. QED
    BY <2>1, <2>2, <2>3, <2>4, <2>5 DEF TypeOK, Typed, Rest, Records
<1>. QED
  BY <1>1, AlwaysTyped, PTL
-----------------------------------------------------------------------------
(* What the keys weigh together is what the list counts, and what the      *)
(* directory does.                                                         *)
ListUsage(lru) == SumFunction([k \in Keys |-> IF k \in DOMAIN lru.node THEN lru.node[k].size ELSE 0])
FilesUsage(f) == SumFunction([k \in Keys |-> IF k \in DOMAIN f THEN f[k].size ELSE 0])

LEMMA UsageIs ==
  /\ store = "memory" => Usage = ListUsage(memory)
  /\ store # "memory" => Usage = FilesUsage(files)
BY DEF Usage, Size, ListUsage, FilesUsage, Memory!Size, Memory!Holds, File!Size

LEMMA ListWeighs ==
  ASSUME NEW lru, NEW time, Sound(lru, time)
  PROVE  ListUsage(lru) = lru.held
<1>. DEFINE w == NodeSizes(lru.node)
            D == DOMAIN lru.node
<1>1. IsList(lru, Values) /\ D \subseteq Keys
  BY DEF Sound
<1>2. w \in [D -> Nat] /\ (\A k \in D : w[k] = lru.node[k].size) /\ lru.held = Total(w)
  BY <1>1, SizesOfNodes DEF IsList
<1>. HIDE DEF w
<1>3. [k \in Keys |-> IF k \in D THEN lru.node[k].size ELSE 0] = Padded(w, Keys)
  BY <1>2 DEF Padded
<1>4. ListUsage(lru) = Total(Padded(w, Keys))
  BY <1>3, SumIs DEF ListUsage
<1>5. Total(Padded(w, Keys)) = Total(w)
  <2>. HIDE DEF D
  <2>. QED
    BY <1>1, <1>2, TotalPadded, KeysAssumption
<1>. QED
  BY <1>2, <1>4, <1>5

LEMMA FilesWeigh ==
  ASSUME NEW f, IsDirectory(f)
  PROVE  FilesUsage(f) = File!Bytes(f)
<1>. DEFINE w == Sizes(f)
            D == DOMAIN f
<1>1. w \in [D -> Nat] /\ D \subseteq Keys /\ \A k \in D : w[k] = f[k].size
  BY SizesFit DEF IsDirectory, Sizes
<1>2. File!Bytes(f) = Total(w)
  BY BytesAre
<1>. HIDE DEF w
<1>3. [k \in Keys |-> IF k \in D THEN f[k].size ELSE 0] = Padded(w, Keys)
  BY <1>1 DEF Padded
<1>4. FilesUsage(f) = Total(Padded(w, Keys))
  BY <1>3, SumIs DEF FilesUsage
<1>5. Total(Padded(w, Keys)) = Total(w)
  <2>. HIDE DEF D
  <2>. QED
    BY <1>1, TotalPadded, KeysAssumption
<1>. QED
  BY <1>2, <1>4, <1>5

(* However often keys are put, found, expired and evicted, the order of the
   memory store's list, its index and its count are one: no iterator of the
   index is left without its node (lru.hpp:26-59). *)
THEOREM ListWhole == Spec => []ListIsWhole
<1>1. Typed => ListIsWhole
  <2>. SUFFICES ASSUME Typed PROVE ListIsWhole
    OBVIOUS
  <2>1. Once(memory.order) /\ KeysOf(memory.order) = DOMAIN memory.node
    BY DEF Typed, MInv, Sound, IsList, IsOrder
  <2>. QED
    BY <2>1, UsageIs, ListWeighs DEF ListIsWhole, Once, KeysOf, Typed, MInv
<1>. QED
  BY <1>1, AlwaysTyped, PTL

(* Neither store outgrows its budget, but for a process that stopped after
   the rename and before the sweep (lru.hpp:45-50, file.cpp:81-88). *)
THEOREM InBudget == Spec => []WithinBudget
<1>1. Typed /\ FileInBudget => WithinBudget
  <2>. SUFFICES ASSUME Typed, FileInBudget PROVE WithinBudget
    OBVIOUS
  <2>1. CASE store = "memory"
    BY <2>1, UsageIs, ListWeighs DEF WithinBudget, Typed, MInv
  <2>2. CASE store # "memory"
    BY <2>2, UsageIs, FilesWeigh DEF WithinBudget, Typed, IInv, FileInBudget
  <2>. QED
    BY <2>1, <2>2
<1>. QED
  BY <1>1, AlwaysTyped, Budgeted, PTL
-----------------------------------------------------------------------------
LEMMA MemoryOldestGo ==
  ASSUME Typed, NEW k \in Keys, NEW e \in Entries, store = "memory", store' = "memory", Memory!Put(k, e)
  PROVE  OldestGo(k, e)
<1>. DEFINE D == DOMAIN memory.node
            P == Pushing(k, e)
<1>1. MInv /\ now \in Nat /\ Sound(memory, now) /\ IsList(memory, Values)
  BY DEF Typed, IInv, MInv, Sound
<1>2. \A j \in D : memory.node[j].value.entry \in Entries /\ memory.node[j].value.entry # None
                   /\ memory.node[j].value.until \in Nat
  BY <1>1, EntriesAssumption DEF IsList, IsIndex, Values
<1>3. \A j : (j \in D => Entry(j) = memory.node[j].value.entry /\ Used(j) = memory.node[j].value.until - Ttl
                         /\ Size(j) = memory.node[j].size)
             /\ (j \notin D => Entry(j) = None)
  BY DEF Entry, Used, Size, Memory!Entry, Memory!Used, Memory!Size, Memory!Holds
<1>4. \A j : (j \in DOMAIN memory'.node => Entry(j)' = memory'.node[j].value.entry)
             /\ (j \notin DOMAIN memory'.node => Entry(j)' = None)
  BY DEF Entry, Memory!Entry, Memory!Holds
<1>5. \A j : (Alive(j) <=> j \in D /\ now < memory.node[j].value.until)
             /\ (Alive(j)' => j \in DOMAIN memory'.node)
  BY DEF Alive, Memory!Found, Memory!Holds
<1>6. CASE SizeOf(e) > MaxUsage
  <2>1. memory' = memory
    BY <1>6, RefusedPut
  <2>2. \A j : Entry(j)' = Entry(j)
    BY <1>3, <1>4, <2>1
  <2>. QED
    BY <2>2 DEF OldestGo, Fresh
<1>7. CASE SizeOf(e) <= MaxUsage
  <2>1. Sound(P, now)
    BY <1>1, <1>7, PutIs
  <2>2. PICK n \in 0..Len(P.order) : memory' = UpTo(P, n) /\ Keeps(P, MaxUsage, n)
    BY <1>1, <1>7, PutIs
  <2>3. P.node = [j \in (D \ {k}) \cup {k} |->
                    IF j = k THEN [value |-> [entry |-> e, until |-> now + Ttl], size |-> SizeOf(e)] ELSE memory.node[j]]
    <3>1. Erased(memory, k).node = [j \in D \ {k} |-> memory.node[j]]
      BY <1>1, ErasedNode, SMTT(30)
    <3>. QED
      BY <3>1 DEF Pushing, Pushed
  <2>. HIDE DEF P
  <2>4. IsList(P, Values) /\ IsOrder(P.order, DOMAIN P.node) /\ Len(P.order) \in Nat
        /\ SortedBy(P.order, Until(P.node))
    BY <2>1, AllFirst DEF Sound, IsList
  <2>5. \A j \in D \ {k} : P.node[j] = memory.node[j] /\ j \in DOMAIN P.node
    BY <2>3
  <2>6. DOMAIN memory'.node = Firsts(P.order, n) /\ (\A j \in Firsts(P.order, n) : memory'.node[j] = P.node[j])
        /\ memory'.held = Weight(P, n)
    BY <2>2 DEF UpTo
  <2>7. \A i \in 1..Len(P.order) : P.order[i] \in DOMAIN P.node
    BY <2>4 DEF IsOrder
  <2>8. \A i \in n + 1..Len(P.order) : P.order[i] \notin Firsts(P.order, n)
    <3>1. \A i \in n + 1..Len(P.order) : i \in DOMAIN P.order /\ \A m \in 1..n : m # i /\ m \in DOMAIN P.order
      BY <2>4 DEF IsOrder
    <3>. QED
      BY <2>4, <3>1 DEF Firsts, IsOrder, Once
  <2>9. ASSUME NEW j \in Fresh \ {k}, Entry(j)' = None
        PROVE  j \in D \ {k} /\ now < memory.node[j].value.until
               /\ \E q \in n + 1..Len(P.order) : P.order[q] = j
    <3>1. j \in D \ {k} /\ now < memory.node[j].value.until
      BY <1>5, <2>9 DEF Fresh
    <3>2. j \notin DOMAIN memory'.node
      BY <1>2, <1>4, <2>5, <2>6, <2>9, <3>1
    <3>3. PICK q \in 1..Len(P.order) : P.order[q] = j
      BY <2>4, <2>5, <3>1 DEF IsOrder, KeysOf
    <3>4. ~(q \in 1..n)
      BY <2>6, <3>2, <3>3 DEF Firsts
    <3>. QED
      BY <2>4, <3>1, <3>3, <3>4
  <2>10. ASSUME NEW j \in Fresh \ {k}, Entry(j)' # None
         PROVE  j \in D \ {k} /\ \E q \in 1..n : P.order[q] = j
    BY <1>4, <1>5, <2>6, <2>10, SMTT(30) DEF Fresh, Firsts
  <2>11. \A a, b \in 1..Len(P.order) : a < b => P.node[P.order[b]].value.until <= P.node[P.order[a]].value.until
    BY <2>4, <2>7 DEF SortedBy, Until
  <2>12. ASSUME NEW j \in Fresh \ {k}, Entry(j)' = None, NEW i \in Fresh \ {k}, Entry(i)' # None
         PROVE  Used(j) <= Used(i)
    <3>1. PICK b \in n + 1..Len(P.order) : P.order[b] = j
      BY <2>9, <2>12
    <3>2. PICK a \in 1..n : P.order[a] = i
      BY <2>10, <2>12
    <3>3. a \in 1..Len(P.order) /\ b \in 1..Len(P.order) /\ a < b
      BY <2>4
    <3>4. i \in D \ {k} /\ j \in D \ {k}
      BY <2>9, <2>10, <2>12
    <3>5. memory.node[j].value.until <= memory.node[i].value.until
      BY <2>5, <2>11, <3>1, <3>2, <3>3, <3>4
    <3>. QED
      BY <1>2, <1>3, <3>4, <3>5, TtlAssumption, SMTT(30)
  <2>13. ASSUME NEW j \in Fresh \ {k}, Entry(j)' = None
         PROVE  \E l \in Keys : (l = k \/ Alive(l)) /\ ~Alive(l)'
                  /\ Usage' + (IF l = k THEN SizeOf(e) ELSE Size(l)) > MaxUsage
    <3>1. PICK q \in n + 1..Len(P.order) : P.order[q] = j
      BY <2>9, <2>13
    <3>11. PICK l : l = P.order[n + 1]
      OBVIOUS
    <3>2. n < Len(P.order) /\ n + 1 \in 1..Len(P.order) /\ n + 1 \in n + 1..Len(P.order)
      BY <2>4, <3>1
    <3>3. l \in DOMAIN P.node /\ l \notin Firsts(P.order, n)
      BY <2>7, <2>8, <3>2, <3>11
    <3>4. l \in D \cup {k} /\ l \in Keys
      BY <1>1, <2>3, <3>3 DEF Sound
    <3>5. ~Alive(l)'
      BY <1>5, <2>6, <3>3
    <3>6. Weight(P, n + 1) = P.node[l].size + Weight(P, n) /\ Weight(P, n + 1) > MaxUsage
      BY <2>2, <2>4, <3>2, <3>11, WeightStep DEF Keeps
    <3>7. Usage' = Weight(P, n)
      <4>1. Sound(memory', now)
        BY <2>1, <2>2, CutSound
      <4>2. Usage' = ListUsage(memory')
        BY DEF Usage, Size, ListUsage, Memory!Size, Memory!Holds
      <4>. QED
        BY <2>6, <4>1, <4>2, ListWeighs
    <3>8. (IF l = k THEN SizeOf(e) ELSE Size(l)) = P.node[l].size
      BY <1>3, <2>3, <3>3, <3>4
    <3>9. l = k \/ Alive(l)
      <4>1. CASE l # k
        <5>1. l \in D \ {k} /\ j \in D \ {k}
          BY <2>9, <2>13, <3>4, <4>1
        <5>2. P.node[P.order[q]].value.until <= P.node[l].value.until
          <6>1. CASE q = n + 1
            BY <1>2, <2>5, <3>1, <3>11, <5>1, <6>1, SMTT(30)
          <6>2. CASE q # n + 1
            BY <2>4, <2>11, <3>1, <3>2, <3>11, <6>2, SMTT(30)
          <6>. QED
            BY <6>1, <6>2
        <5>3. now < memory.node[j].value.until /\ memory.node[j].value.until <= memory.node[l].value.until
          BY <2>5, <2>9, <2>13, <3>1, <5>1, <5>2
        <5>. QED
          BY <1>1, <1>2, <1>5, <5>1, <5>3, SMTT(30)
      <4>. QED
        BY <4>1
    <3>10. Weight(P, n) \in Nat /\ P.node[l].size \in Nat
      BY <2>4, <3>3, WeightNat DEF IsList, IsIndex
    <3>. QED
      BY <3>4, <3>5, <3>6, <3>7, <3>8, <3>9, <3>10
  <2>. QED
    BY <2>12, <2>13 DEF OldestGo
<1>. QED
  BY <1>6, <1>7, SizesAssumption, BudgetAssumption

LEMMA FileOldestGo ==
  ASSUME Typed, NEW k \in Keys, NEW e \in Entries, store = "file", store' = "file", File!Put(k, e)
  PROVE  OldestGo(k, e)
<1>. DEFINE D == DOMAIN files
            f == File!And(files, k, File!Whole(e))
            total == counted - (IF k \in D THEN files[k].size ELSE 0) + SizeOf(e)
            live == {j \in DOMAIN f : ~File!Expired(f, j)}
            gone(g) == (DOMAIN f \ live) \cup g
<1>1. IInv /\ IsDirectory(files) /\ now \in Nat /\ now' = now
  BY DEF Typed, IInv, File!Put
<1>2. \A j : Entry(j) = (IF j \in D THEN File!Decoded(files[j]) ELSE None)
             /\ Used(j) = (IF Entry(j) # None THEN files[j].written ELSE 0)
             /\ Size(j) = (IF j \in D THEN files[j].size ELSE 0)
             /\ (Alive(j) <=> j \in D /\ ~File!Expired(files, j))
  BY DEF Entry, Used, Size, Alive, File!Entry, File!Used, File!Size
<1>3. \A j : Entry(j)' = (IF j \in DOMAIN files' THEN File!Decoded(files'[j]) ELSE None)
             /\ (Alive(j)' => j \in DOMAIN files')
  BY DEF Entry, Alive, File!Entry, File!Decoded
<1>4. CASE \A j \in Fresh \ {k} : Entry(j)' # None
  BY <1>4 DEF OldestGo
<1>5. CASE \E j \in Fresh \ {k} : Entry(j)' = None
  <2>1. DOMAIN f = D \cup {k} /\ f[k] = File!Whole(e) /\ \A j \in D \ {k} : f[j] = files[j]
    BY DEF File!And
  <2>2. IsDirectory(f)
    BY <1>1, WholeFits, AndFits
  <2>3. SizeOf(e) <= MaxUsage /\ File!Sweeps(f)
    <3>1. CASE SizeOf(e) > MaxUsage
      <4>1. files' = files
        BY <3>1 DEF File!Put
      <4>. QED
        BY <1>2, <1>3, <1>5, <4>1 DEF Fresh
    <3>2. CASE ~(SizeOf(e) > MaxUsage) /\ ~(total > MaxUsage)
      <4>1. files' = f
        BY <3>2 DEF File!Put, File!Replace
      <4>. QED
        BY <1>2, <1>3, <1>5, <2>1, <4>1 DEF Fresh
    <3>3. CASE ~(SizeOf(e) > MaxUsage) /\ total > MaxUsage
      <4>1. File!Sweeps(f)
        BY <3>3 DEF File!Put, File!Replace
      <4>. QED
        BY <3>3, <4>1, SizesAssumption, BudgetAssumption
    <3>. QED
      BY <3>1, <3>2, <3>3
  <2>. HIDE DEF f
  <2>4. PICK g \in SUBSET live :
          /\ files' = File!Without(f, gone(g))
          /\ g # {} => \E last \in g :
               /\ File!Bytes(File!Without(f, gone(g \ {last}))) > MaxUsage
               /\ \A j \in g : f[j].written <= f[last].written
               /\ \A j \in live \ g : f[last].written <= f[j].written
    BY <2>3 DEF File!Sweeps, File!Swept
  <2>5. DOMAIN files' = DOMAIN f \ gone(g) /\ \A j \in DOMAIN files' : files'[j] = f[j]
    BY <2>4 DEF File!Without
  <2>6. \A j \in D \ {k} : File!Expired(f, j) <=> File!Expired(files, j)
    BY <2>1 DEF File!Expired
  <2>7. ASSUME NEW j \in Fresh \ {k}
        PROVE  j \in live /\ j \in D \ {k} /\ Used(j) = f[j].written /\ (Entry(j)' = None <=> j \in g)
    <3>1. j \in D \ {k} /\ ~File!Expired(files, j) /\ File!Decoded(files[j]) # None
      BY <1>2 DEF Fresh
    <3>2. j \in live
      BY <2>1, <2>6, <3>1
    <3>3. Used(j) = f[j].written
      BY <1>2, <2>1, <3>1
    <3>4. j \in DOMAIN files' <=> j \notin g
      BY <2>5, <3>2
    <3>5. Entry(j)' = None <=> j \in g
      BY <1>3, <2>1, <2>5, <3>1, <3>4
    <3>. QED
      BY <3>1, <3>2, <3>3, <3>5
  <2>8. PICK last \in g : /\ File!Bytes(File!Without(f, gone(g \ {last}))) > MaxUsage
                          /\ \A j \in g : f[j].written <= f[last].written
                          /\ \A j \in live \ g : f[last].written <= f[j].written
    BY <1>5, <2>4, <2>7
  <2>9. ASSUME NEW j \in Fresh \ {k}, Entry(j)' = None, NEW i \in Fresh \ {k}, Entry(i)' # None
        PROVE  Used(j) <= Used(i)
    <3>1. j \in g /\ i \in live \ g
      BY <2>7, <2>9
    <3>2. f[j].written <= f[last].written /\ f[last].written <= f[i].written
      BY <2>8, <3>1
    <3>3. f[j].written \in Nat /\ f[last].written \in Nat /\ f[i].written \in Nat
      BY <2>2, <2>4, <3>1 DEF IsDirectory, Records
    <3>. QED
      BY <2>7, <3>2, <3>3
  <2>10. last \in DOMAIN f /\ last \in Keys /\ last \in live
    BY <2>2, <2>4 DEF IsDirectory
  <2>11. ~Alive(last)'
    BY <1>3, <2>5
  <2>12. last = k \/ Alive(last)
    BY <1>2, <2>1, <2>6, <2>10
  <2>13. (IF last = k THEN SizeOf(e) ELSE Size(last)) = f[last].size
    BY <1>2, <2>1, <2>10 DEF File!Whole
  <2>. DEFINE before == File!Without(f, gone(g \ {last}))
  <2>14. IsDirectory(before) /\ last \in DOMAIN before /\ before[last] = f[last]
         /\ File!Without(before, {last}) = files'
    <3>1. IsDirectory(before)
      BY <2>2, WithoutFits
    <3>2. DOMAIN before = DOMAIN f \ gone(g \ {last}) /\ \A j \in DOMAIN before : before[j] = f[j]
      BY DEF File!Without
    <3>3. last \in DOMAIN before /\ DOMAIN before \ {last} = DOMAIN f \ gone(g)
      BY <2>10, <3>2
    <3>4. File!Without(before, {last}) = [j \in DOMAIN before \ {last} |-> before[j]]
      BY DEF File!Without
    <3>5. files' = [j \in DOMAIN f \ gone(g) |-> f[j]]
      BY <2>4 DEF File!Without
    <3>. HIDE DEF before, gone
    <3>. QED
      BY <3>1, <3>2, <3>3, <3>4, <3>5
  <2>. HIDE DEF before
  <2>15. File!Bytes(before) = f[last].size + File!Bytes(files')
    BY <2>14, BytesWithout
  <2>16. IsDirectory(files')
    BY <2>14, WithoutFits
  <2>17. Usage' = File!Bytes(files')
    <3>1. Usage' = FilesUsage(files')
      BY DEF Usage, Size, FilesUsage, File!Size
    <3>. QED
      BY <2>16, <3>1, FilesWeigh
  <2>18. f[last].size \in Nat /\ File!Bytes(files') \in Nat
    BY <2>2, <2>10, <2>16, BytesNat DEF IsDirectory, Records
  <2>19. Usage' + (IF last = k THEN SizeOf(e) ELSE Size(last)) > MaxUsage
    BY <2>8, <2>13, <2>15, <2>17, <2>18 DEF before
  <2>. QED
    BY <2>9, <2>10, <2>11, <2>12, <2>19 DEF OldestGo
<1>. QED
  BY <1>4, <1>5

(* Room is made at the cost of what was wanted longest ago, and only as much
   as it takes: by the memory store, whose order is the order of the times a
   hit has renewed, and by the file store, which sorts the files it finds
   (lru.hpp:45-50, file.cpp:88 and the sweep it calls). *)
THEOREM OldestGoes == Spec => EvictsOldest
<1>1. Typed /\ [Next]_vars => [\A k \in Keys, e \in Entries : Put(k, e) => OldestGo(k, e)]_vars
  <2>. SUFFICES ASSUME Typed, NEW k \in Keys, NEW e \in Entries, Put(k, e) PROVE OldestGo(k, e)
    OBVIOUS
  <2>. QED
    BY MemoryOldestGo, FileOldestGo DEF Put
<1>. QED
  BY <1>1, AlwaysTyped, PTL DEF Spec, EvictsOldest
-----------------------------------------------------------------------------
(* A step implements the promise: an entry that is there after it is the   *)
(* one that was there before or the one that is put, and what is not there *)
(* any more the store has lost.                                            *)
LEMMA NothingUnused ==
  ASSUME Typed', NEW j \in Keys, Entry(j)' = None
  PROVE  Used(j)' = 0
<1>1. CASE store' = "memory"
  <2>1. Entry(j)' = (IF j \in DOMAIN memory'.node THEN memory'.node[j].value.entry ELSE None)
        /\ Used(j)' = (IF j \in DOMAIN memory'.node THEN memory'.node[j].value.until - Ttl ELSE 0)
    BY <1>1 DEF Entry, Used, Memory!Entry, Memory!Used, Memory!Holds
  <2>2. \A i \in DOMAIN memory'.node : memory'.node[i].value.entry \in Entries
    BY DEF Typed, MInv, Sound, IsList, IsIndex, Values
  <2>. QED
    BY <2>1, <2>2, EntriesAssumption
<1>2. CASE store' # "memory"
  BY <1>2 DEF Entry, Used, File!Entry, File!Used
<1>. QED
  BY <1>1, <1>2

Keeping(before, times) ==
  \A j \in Keys : Entry(j)' # None => Entry(j)' = before[j] /\ Used(j)' = times[j]

LEMMA Losing ==
  ASSUME Typed', NEW before, NEW times, Keeping(before, times)
  PROVE  Promise!Loses(before, times)
<1>. DEFINE lost == {j \in Keys : Entry(j)' = None}
<1>1. EntryMap' = [j \in Keys |-> Entry(j)'] /\ UsedMap' = [j \in Keys |-> Used(j)']
  BY DEF EntryMap, UsedMap
<1>2. PICK gone \in SUBSET Keys : gone = {j \in Keys : Entry(j)' = None}
  OBVIOUS
<1>3. \A j \in Keys : Entry(j)' = (IF j \in gone THEN None ELSE before[j])
                      /\ Used(j)' = (IF j \in gone THEN 0 ELSE times[j])
  BY <1>2, NothingUnused DEF Keeping
<1>4. EntryMap' = [j \in Keys |-> IF j \in gone THEN None ELSE before[j]]
      /\ UsedMap' = [j \in Keys |-> IF j \in gone THEN 0 ELSE times[j]]
  BY <1>1, <1>3
<1>. QED
  BY <1>4 DEF Promise!Loses

LEMMA LosesSome ==
  ASSUME Typed', answer' = None, now' = now, Keeping(EntryMap, UsedMap)
  PROVE  Promise!Lose
BY Losing DEF Promise!Lose

LEMMA TakesOne ==
  ASSUME Typed', answer' = None, now' = now, NEW k \in Keys, NEW e \in Entries,
         Keeping([EntryMap EXCEPT ![k] = e], [UsedMap EXCEPT ![k] = now])
  PROVE  Promise!Put(k, e)
BY Losing DEF Promise!Put

(* The entries of either store, before and after a step of it.             *)
LEMMA InMemory ==
  ASSUME Typed, store = "memory", NEW j
  PROVE  /\ Entry(j) = IF j \in DOMAIN memory.node THEN memory.node[j].value.entry ELSE None
         /\ Used(j) = IF j \in DOMAIN memory.node THEN memory.node[j].value.until - Ttl ELSE 0
         /\ j \in DOMAIN memory.node => /\ memory.node[j].value.entry \in Entries
                                        /\ memory.node[j].value.until \in Nat
<1>1. \A i \in DOMAIN memory.node : memory.node[i].value.entry \in Entries /\ memory.node[i].value.until \in Nat
  BY DEF Typed, MInv, Sound, IsList, IsIndex, Values
<1>. QED
  BY <1>1 DEF Entry, Used, Memory!Entry, Memory!Used, Memory!Holds

LEMMA InMemoryLater ==
  ASSUME store' = "memory", NEW j
  PROVE  /\ Entry(j)' = IF j \in DOMAIN memory'.node THEN memory'.node[j].value.entry ELSE None
         /\ Used(j)' = IF j \in DOMAIN memory'.node THEN memory'.node[j].value.until - Ttl ELSE 0
BY DEF Entry, Used, Memory!Entry, Memory!Used, Memory!Holds

LEMMA InFiles ==
  ASSUME store = "file", NEW j
  PROVE  /\ Entry(j) = IF j \in DOMAIN files THEN File!Decoded(files[j]) ELSE None
         /\ Used(j) = IF Entry(j) # None THEN files[j].written ELSE 0
BY DEF Entry, Used, File!Entry, File!Used

LEMMA InFilesLater ==
  ASSUME store' = "file", NEW j
  PROVE  /\ Entry(j)' = IF j \in DOMAIN files' THEN File!Decoded(files'[j]) ELSE None
         /\ Used(j)' = IF Entry(j)' # None THEN files'[j].written ELSE 0
BY DEF Entry, Used, File!Entry, File!Used, File!Decoded

LEMMA MemoryGetImplements ==
  ASSUME Typed, Typed', store = "memory", store' = "memory", NEW k \in Keys, Memory!Get(k)
  PROVE  Promise!Get(k)
<1>1. MInv /\ now \in Nat /\ Sound(memory, now) /\ IsList(memory, Values) /\ now' = now
  BY DEF Typed, IInv, MInv, Sound, Memory!Get
<1>2. CASE Memory!Found(k)
  <2>1. k \in DOMAIN memory.node /\ now < memory.node[k].value.until
        /\ memory' = [Promoted(memory, k) EXCEPT !.node[k].value.until = now + Ttl]
        /\ answer' = memory.node[k].value.entry
    BY <1>2, SameList DEF Memory!Get, Memory!Found, Holds
  <2>2. memory'.node = [memory.node EXCEPT ![k].value.until = now + Ttl]
    BY <1>1, <2>1, RenewedOk, SMTT(30)
  <2>3. \A j \in DOMAIN memory.node : memory.node[j] \in [value : Values, size : Nat]
    BY <1>1, SMTT(30) DEF IsList, IsIndex
  <2>4. DOMAIN memory'.node = DOMAIN memory.node
        /\ (\A j \in DOMAIN memory.node : memory'.node[j].value.entry = memory.node[j].value.entry)
        /\ (\A j \in DOMAIN memory.node \ {k} : memory'.node[j].value.until = memory.node[j].value.until)
        /\ memory'.node[k].value.until = now + Ttl
    BY <2>1, <2>2, <2>3, SMTT(30) DEF Values
  <2>5. \A j \in Keys : Entry(j)' = Entry(j) /\ Used(j)' = IF j = k THEN now ELSE Used(j)
    BY <1>1, <2>1, <2>4, InMemory, InMemoryLater, TtlAssumption, SMTT(30)
  <2>6. Keeping(EntryMap, [UsedMap EXCEPT ![k] = now])
    BY <2>5 DEF Keeping, EntryMap, UsedMap
  <2>7. Promise!Loses(EntryMap, [UsedMap EXCEPT ![k] = now])
    BY <2>6, Losing
  <2>8. EntryMap[k] # None /\ now - UsedMap[k] < Ttl /\ answer' = EntryMap[k]
    BY <1>1, <2>1, InMemory, EntriesAssumption, TtlAssumption DEF EntryMap, UsedMap
  <2>. QED
    BY <1>1, <2>7, <2>8 DEF Promise!Get
<1>3. CASE ~Memory!Found(k)
  <2>1. memory' = Erased(memory, k) /\ answer' = None
    BY <1>3, SameList DEF Memory!Get
  <2>2. memory'.node = [j \in DOMAIN memory.node \ {k} |-> memory.node[j]]
    BY <1>1, <2>1, ErasedNode
  <2>3. Keeping(EntryMap, UsedMap)
    BY <2>2, InMemory, InMemoryLater DEF Keeping, EntryMap, UsedMap
  <2>. QED
    BY <1>1, <2>1, <2>3, Losing DEF Promise!Get
<1>. QED
  BY <1>2, <1>3

LEMMA MemoryPutImplements ==
  ASSUME Typed, Typed', store = "memory", store' = "memory", NEW k \in Keys, NEW e \in Entries, Memory!Put(k, e)
  PROVE  Promise!Put(k, e)
<1>1. MInv /\ now \in Nat /\ Sound(memory, now) /\ IsList(memory, Values) /\ now' = now /\ answer' = None
  BY DEF Typed, IInv, MInv, Sound, Memory!Put
<1>2. CASE SizeOf(e) > MaxUsage
  <2>1. memory' = memory
    BY <1>2, RefusedPut
  <2>2. Keeping(EntryMap, UsedMap)
    BY <2>1, InMemory, InMemoryLater DEF Keeping, EntryMap, UsedMap
  <2>. QED
    BY <1>1, <2>2, Losing DEF Promise!Put
<1>3. CASE SizeOf(e) <= MaxUsage
  <2>. DEFINE P == Pushing(k, e)
  <2>1. PICK n \in 0..Len(P.order) : memory' = UpTo(P, n)
    BY <1>1, <1>3, PutIs
  <2>2. Erased(memory, k).node = [j \in DOMAIN memory.node \ {k} |-> memory.node[j]]
    <3>1. \A V, lru : IsList(lru, V) => Erased(lru, k).node = [j \in DOMAIN lru.node \ {k} |-> lru.node[j]]
      BY ErasedNode, SMTT(30)
    <3>. QED
      BY <1>1, <3>1, ZenonT(60)
  <2>3. P.node = [j \in (DOMAIN memory.node \ {k}) \cup {k} |->
                    IF j = k THEN [value |-> [entry |-> e, until |-> now + Ttl], size |-> SizeOf(e)] ELSE memory.node[j]]
    BY <2>2 DEF Pushing, Pushed
  <2>4. IsOrder(P.order, DOMAIN P.node)
    BY <1>1, <1>3, PutIs DEF Sound, IsList
  <2>. HIDE DEF P
  <2>5. Firsts(P.order, n) \subseteq DOMAIN P.node
    BY <2>4 DEF IsOrder, Firsts
  <2>6. memory'.node = [j \in Firsts(P.order, n) |-> P.node[j]]
    BY <2>1 DEF UpTo
  <2>7. \A j \in DOMAIN memory'.node :
          /\ j = k => memory'.node[j].value.entry = e /\ memory'.node[j].value.until = now + Ttl
          /\ j # k => j \in DOMAIN memory.node /\ memory'.node[j] = memory.node[j]
    BY <2>3, <2>5, <2>6
  <2>8. ASSUME NEW j \in Keys, Entry(j)' # None
        PROVE  Entry(j)' = (IF j = k THEN e ELSE Entry(j)) /\ Used(j)' = (IF j = k THEN now ELSE Used(j))
    <3>1. j \in DOMAIN memory'.node
      BY <2>8, InMemoryLater
    <3>2. CASE j = k
      BY <1>1, <2>7, <3>1, <3>2, InMemoryLater, TtlAssumption
    <3>3. CASE j # k
      BY <2>7, <3>1, <3>3, InMemory, InMemoryLater
    <3>. QED
      BY <3>2, <3>3
  <2>9. Keeping([EntryMap EXCEPT ![k] = e], [UsedMap EXCEPT ![k] = now])
    BY <2>8 DEF Keeping, EntryMap, UsedMap
  <2>. QED
    BY <1>1, <2>9, TakesOne
<1>. QED
  BY <1>2, <1>3, SizesAssumption, BudgetAssumption

LEMMA FileGetImplements ==
  ASSUME Typed, Typed', store = "file", store' = "file", NEW k \in Keys, File!Get(k)
  PROVE  Promise!Get(k)
<1>1. IsDirectory(files) /\ now \in Nat /\ now' = now
  BY DEF Typed, IInv, File!Get
<1>2. CASE k \notin DOMAIN files
  <2>1. files' = files /\ answer' = None
    BY <1>2 DEF File!Get
  <2>2. Keeping(EntryMap, UsedMap)
    BY <2>1, InFiles, InFilesLater DEF Keeping, EntryMap, UsedMap
  <2>. QED
    BY <1>1, <2>1, <2>2, Losing DEF Promise!Get
<1>3. CASE k \in DOMAIN files /\ (File!Expired(files, k) \/ File!Decoded(files[k]) = None)
  <2>1. files' = File!Without(files, {k}) /\ answer' = None
    BY <1>3 DEF File!Get, File!Forget
  <2>2. \A j \in DOMAIN files' : j \in DOMAIN files /\ files'[j] = files[j]
    BY <2>1 DEF File!Without
  <2>3. Keeping(EntryMap, UsedMap)
    BY <2>2, InFiles, InFilesLater DEF Keeping, EntryMap, UsedMap
  <2>. QED
    BY <1>1, <2>1, <2>3, Losing DEF Promise!Get
<1>4. CASE k \in DOMAIN files /\ ~(File!Expired(files, k) \/ File!Decoded(files[k]) = None)
  <2>1. files' = [files EXCEPT ![k].written = now] /\ answer' = File!Decoded(files[k])
    BY <1>4 DEF File!Get
  <2>2. \A j \in DOMAIN files : files[j] \in Records
    BY <1>1 DEF IsDirectory
  <2>3. DOMAIN files' = DOMAIN files
        /\ (\A j \in DOMAIN files \ {k} : files'[j] = files[j])
        /\ files'[k] = [files[k] EXCEPT !.written = now]
    BY <1>1, <1>4, <2>1 DEF IsDirectory
  <2>4. files'[k].entry = files[k].entry /\ files'[k].cut = files[k].cut /\ files'[k].written = now
    BY <1>4, <2>2, <2>3 DEF Records
  <2>5. File!Decoded(files'[k]) = File!Decoded(files[k])
    BY <2>4 DEF File!Decoded
  <2>6. \A j \in Keys : Entry(j)' = Entry(j) /\ (Entry(j)' # None => Used(j)' = IF j = k THEN now ELSE Used(j))
    BY <2>3, <2>4, <2>5, InFiles, InFilesLater, ZenonT(60)
  <2>7. Keeping(EntryMap, [UsedMap EXCEPT ![k] = now])
    BY <2>6 DEF Keeping, EntryMap, UsedMap
  <2>8. EntryMap[k] # None /\ now - UsedMap[k] < Ttl /\ answer' = EntryMap[k]
    <3>1. EntryMap[k] = File!Decoded(files[k]) /\ UsedMap[k] = files[k].written
      BY <1>4, InFiles DEF EntryMap, UsedMap
    <3>2. ~(now - files[k].written >= Ttl) /\ files[k].written \in Nat
      BY <1>4, <2>2 DEF File!Expired, Records
    <3>. QED
      BY <1>1, <1>4, <2>1, <3>1, <3>2, TtlAssumption
  <2>. QED
    BY <1>1, <2>7, <2>8, Losing DEF Promise!Get
<1>. QED
  BY <1>2, <1>3, <1>4

(* What a directory holds after a file is put in it, swept or not.         *)
LEMMA ReplaceKeeps ==
  ASSUME NEW k, NEW e, NEW file, File!Replace(k, e, file)
  PROVE  \A j \in DOMAIN files' :
           /\ j = k => files'[j] = file
           /\ j # k => j \in DOMAIN files /\ files'[j] = files[j]
<1>. DEFINE f == File!And(files, k, file)
<1>1. DOMAIN f = DOMAIN files \cup {k} /\ f[k] = file /\ \A j \in DOMAIN files \ {k} : f[j] = files[j]
  BY DEF File!And
<1>2. files' = f \/ \E gone : files' = File!Without(f, gone)
  BY DEF File!Replace, File!Sweeps, File!Swept
<1>. HIDE DEF f
<1>3. \A j \in DOMAIN files' : j \in DOMAIN f /\ files'[j] = f[j]
  BY <1>2 DEF File!Without
<1>. QED
  BY <1>1, <1>3

LEMMA WholeImplements ==
  ASSUME Typed, Typed', store = "file", store' = "file", NEW k \in Keys, NEW e \in Entries,
         answer' = None, now' = now,
         \A j \in DOMAIN files' :
           /\ j = k => files'[j] = File!Whole(e)
           /\ j # k => j \in DOMAIN files /\ files'[j] = files[j]
  PROVE  Promise!Put(k, e)
<1>1. File!Decoded(File!Whole(e)) = e /\ File!Whole(e).written = now
  BY DEF File!Decoded, File!Whole
<1>2. ASSUME NEW j \in Keys, Entry(j)' # None
      PROVE  Entry(j)' = (IF j = k THEN e ELSE Entry(j)) /\ Used(j)' = (IF j = k THEN now ELSE Used(j))
  <2>1. j \in DOMAIN files' /\ Used(j)' = files'[j].written /\ Entry(j)' = File!Decoded(files'[j])
    BY <1>2, InFilesLater
  <2>2. CASE j = k
    BY <1>1, <2>1, <2>2
  <2>3. CASE j # k
    BY <1>2, <2>1, <2>3, InFiles
  <2>. QED
    BY <2>2, <2>3
<1>3. Keeping([EntryMap EXCEPT ![k] = e], [UsedMap EXCEPT ![k] = now])
  BY <1>2 DEF Keeping, EntryMap, UsedMap
<1>. QED
  BY <1>3, TakesOne

(* Files stay as they are, go, or lose their head.                         *)
LEMMA LosingImplements ==
  ASSUME Typed, Typed', store = "file", store' = "file", NEW k, answer' = None, now' = now,
         \A j \in DOMAIN files' : \/ j \in DOMAIN files /\ files'[j] = files[j]
                                  \/ File!Decoded(files'[j]) = None
  PROVE  Promise!Lose
<1>1. ASSUME NEW j \in Keys, Entry(j)' # None PROVE Entry(j)' = Entry(j) /\ Used(j)' = Used(j)
  <2>1. j \in DOMAIN files' /\ Used(j)' = files'[j].written /\ Entry(j)' = File!Decoded(files'[j])
    BY <1>1, InFilesLater
  <2>. QED
    BY <1>1, <2>1, InFiles
<1>2. Keeping(EntryMap, UsedMap)
  BY <1>1 DEF Keeping, EntryMap, UsedMap
<1>. QED
  BY <1>2, LosesSome

LEMMA FilePutImplements ==
  ASSUME Typed, Typed', store = "file", store' = "file", NEW k \in Keys, NEW e \in Entries, File!Put(k, e)
  PROVE  Promise!Put(k, e)
<1>1. answer' = None /\ now' = now
  BY DEF File!Put
<1>2. CASE SizeOf(e) > MaxUsage
  <2>1. files' = files
    BY <1>2 DEF File!Put
  <2>2. Keeping(EntryMap, UsedMap)
    BY <2>1, InFiles, InFilesLater DEF Keeping, EntryMap, UsedMap
  <2>. QED
    BY <1>1, <2>2, Losing DEF Promise!Put
<1>3. CASE ~(SizeOf(e) > MaxUsage)
  <2>1. File!Replace(k, e, File!Whole(e))
    BY <1>3 DEF File!Put
  <2>2. \A j \in DOMAIN files' :
          /\ j = k => files'[j] = File!Whole(e)
          /\ j # k => j \in DOMAIN files /\ files'[j] = files[j]
    BY <2>1, ReplaceKeeps
  <2>. QED
    BY <1>1, <2>2, WholeImplements
<1>. QED
  BY <1>2, <1>3

(* A file that is cut within its head does not decode.                     *)
LEMMA HeadCut ==
  ASSUME "body" \notin Cuts
  PROVE  /\ \A cut \in Cuts : cut = "head"
         /\ \A e : \A file \in File!Short(e) : File!Decoded(file) = None
<1>1. \A cut \in Cuts : cut = "head"
  BY CutsAssumption
<1>2. ASSUME NEW e, NEW file \in File!Short(e) PROVE File!Decoded(file) = None
  <2>1. PICK cut \in Cuts : file \in [entry : {e}, cut : {cut}, written : {now}, size : File!Left(cut, SizeOf(e))]
    BY DEF File!Short
  <2>2. file.cut = "head"
    BY <1>1, <2>1
  <2>. QED
    BY <2>2 DEF File!Decoded
<1>. QED
  BY <1>1, <1>2

LEMMA FaultImplements ==
  ASSUME Typed, Typed', "body" \notin Cuts, Fault
  PROVE  Promise!Next
<1>1. answer' = None /\ now' = now /\ store = "file" /\ store' = "file"
  BY FaultAnswers DEF Fault
<1>2. CASE files' = files
  BY <1>1, <1>2, LosingImplements DEF Promise!Next
<1>3. CASE File!Restart
  BY <1>2, <1>3 DEF File!Restart, File!Measured
<1>4. ASSUME NEW k \in Keys, File!PowerCut(k) PROVE Promise!Next
  <2>1. PICK cut \in Cuts : \E size \in File!Left(cut, files[k].size) :
          File!Measured([files EXCEPT ![k].cut = cut, ![k].size = size], temps)
    BY <1>4 DEF File!PowerCut
  <2>2. PICK size : files' = [files EXCEPT ![k].cut = cut, ![k].size = size]
    BY <2>1 DEF File!Measured
  <2>3. k \in DOMAIN files /\ files \in [DOMAIN files -> Records]
    BY <1>4 DEF File!PowerCut, Typed, IInv, IsDirectory
  <2>4. cut = "head"
    BY HeadCut
  <2>5. DOMAIN files' = DOMAIN files
        /\ (\A j \in DOMAIN files \ {k} : files'[j] = files[j])
        /\ files'[k] = [files[k] EXCEPT !.cut = cut, !.size = size]
    BY <2>2, <2>3
  <2>6. files'[k].cut = "head"
    BY <2>3, <2>4, <2>5 DEF Records
  <2>7. File!Decoded(files'[k]) = None
    BY <2>6 DEF File!Decoded
  <2>. QED
    BY <1>1, <2>5, <2>7, LosingImplements DEF Promise!Next
<1>5. ASSUME NEW k \in Keys, NEW e \in Entries, File!PutFails(k, e) \/ File!StopWriting(k, e) PROVE Promise!Next
  BY <1>2, <1>5 DEF File!PutFails, File!StopWriting, File!Measured
<1>6. ASSUME NEW k \in Keys, NEW e \in Entries, File!PutShort(k, e) PROVE Promise!Next
  <2>1. PICK file \in File!Short(e) : File!Replace(k, e, file)
    BY <1>6 DEF File!PutShort
  <2>2. File!Decoded(file) = None
    BY HeadCut
  <2>3. \A j \in DOMAIN files' :
          /\ j = k => files'[j] = file
          /\ j # k => j \in DOMAIN files /\ files'[j] = files[j]
    BY <2>1, ReplaceKeeps
  <2>. QED
    BY <1>1, <2>2, <2>3, LosingImplements DEF Promise!Next
<1>7. ASSUME NEW k \in Keys, NEW e \in Entries, File!StopRenamed(k, e) PROVE Promise!Next
  <2>1. files' = File!And(files, k, File!Whole(e))
    BY <1>7 DEF File!StopRenamed, File!Measured
  <2>2. \A j \in DOMAIN files' :
          /\ j = k => files'[j] = File!Whole(e)
          /\ j # k => j \in DOMAIN files /\ files'[j] = files[j]
    BY <2>1 DEF File!And
  <2>3. Promise!Put(k, e)
    BY <1>1, <2>2, WholeImplements
  <2>. QED
    BY <2>3 DEF Promise!Next
<1>. QED
  BY <1>3, <1>4, <1>5, <1>6, <1>7 DEF Fault

LEMMA StepImplements ==
  ASSUME Typed, Typed', "body" \notin Cuts, [Next]_vars
  PROVE  [Promise!Next]_Promise!vars
<1>1. store \in {"memory", "file"}
  BY DEF Typed, Rest
<1>2. CASE UNCHANGED vars
  <2>1. EntryMap' = EntryMap /\ UsedMap' = UsedMap
    BY <1>2 DEF vars, EntryMap, UsedMap, Entry, Used, Memory!Entry, Memory!Used, Memory!Holds,
                File!Entry, File!Used, File!Decoded
  <2>. QED
    BY <1>2, <2>1 DEF vars, Promise!vars
<1>3. CASE Tick
  <2>1. EntryMap' = EntryMap /\ UsedMap' = UsedMap
    BY <1>3 DEF Tick, EntryMap, UsedMap, Entry, Used, Memory!Entry, Memory!Used, Memory!Holds,
                File!Entry, File!Used, File!Decoded
  <2>2. Promise!Tick
    BY <1>3, <2>1 DEF Tick, Promise!Tick
  <2>. QED
    BY <2>2 DEF Promise!Next
<1>4. CASE Fault
  BY <1>4, FaultImplements
<1>5. ASSUME NEW k \in Keys, Get(k) PROVE Promise!Next
  <2>1. Promise!Get(k)
    BY <1>5, MemoryGetImplements, FileGetImplements DEF Get
  <2>. QED
    BY <2>1 DEF Promise!Next
<1>6. ASSUME NEW k \in Keys, NEW e \in Entries, Put(k, e) PROVE Promise!Next
  <2>1. Promise!Put(k, e)
    BY <1>6, MemoryPutImplements, FilePutImplements DEF Put
  <2>. QED
    BY <2>1 DEF Promise!Next
<1>. QED
  BY <1>2, <1>3, <1>4, <1>5, <1>6 DEF Next

LEMMA InitImplements == Init => Promise!Init
<1>. SUFFICES ASSUME Init PROVE Promise!Init
  OBVIOUS
<1>1. DOMAIN memory.node = {} /\ DOMAIN files = {} /\ now = 0 /\ answer = None
  BY DEF Init, Memory!Init, Memory!EmptyLru, File!Init, File!Nothing
<1>2. \A j : Entry(j) = None /\ Used(j) = 0
  BY <1>1 DEF Entry, Used, Memory!Entry, Memory!Used, Memory!Holds, File!Entry, File!Used
<1>. QED
  BY <1>1, <1>2 DEF Promise!Init, EntryMap, UsedMap

(* Either store keeps the promise of a CacheStore, through expiries,
   evictions, sweeps, failing disks, stops and restarts: what a get answers
   was put last under the key, and put or read within the ttl
   (haio_cache.hpp:40-44).  It is so if no file is cut within its body, which
   the head of an entry does not tell (key.cpp:57): that is the run
   local_stores_cut. *)
THEOREM Implements ==
  ASSUME "body" \notin Cuts
  PROVE  Spec => ImplementsPromise
<1>1. Typed /\ Typed' /\ [Next]_vars => [Promise!Next]_Promise!vars
  BY StepImplements
<1>. QED
  BY <1>1, InitImplements, AlwaysTyped, PTL DEF Spec, ImplementsPromise, Promise!Spec
=============================================================================
