---------------------------- MODULE ConvertProofs ----------------------------
(***************************************************************************)
(* Proofs about Convert, for any words, brushes and bounds.                *)
(***************************************************************************)
EXTENDS Convert, SequenceTheorems, TLAPS

(* A sequence of whatever it holds: what pictures and steps are made of    *)
(* has no type of its own.                                                 *)
Held(s) == {s[i] : i \in DOMAIN s}
IsSeq(s) == s \in Seq(Held(s))

(* What is a sequence of anything is a sequence.                           *)
LEMMA SeqIs ==
  ASSUME NEW S, NEW s \in Seq(S)
  PROVE  IsSeq(s)
<1>1. Held(s) = Range(s)
  BY DEF Held, Range
<1>. QED
  BY <1>1, SeqOfRange DEF IsSeq

(* A sequence has a length, and only None has the length nought.           *)
LEMMA SeqShape ==
  ASSUME NEW s, IsSeq(s)
  PROVE  Len(s) \in Nat /\ DOMAIN s = 1..Len(s) /\ (s = None <=> Len(s) = 0)
BY DEF IsSeq, None

(* None is a sequence of nothing.                                          *)
LEMMA SeqEmpty ==
  IsSeq(None) /\ Len(None) = 0
<1>1. None \in Seq({})
  BY DEF None
<1>. QED
  BY <1>1, SeqIs DEF None

(* A sequence of one.                                                      *)
LEMMA SeqOne ==
  ASSUME NEW x
  PROVE  IsSeq(<<x>>) /\ Len(<<x>>) = 1 /\ <<x>>[1] = x /\ <<x>> # None
<1>1. <<x>> \in Seq({x})
  OBVIOUS
<1>2. <<x>> # None
  BY DEF None
<1>. QED
  BY <1>1, <1>2, SeqIs

(* Append puts its element last and moves nothing.                         *)
LEMMA SeqAppend ==
  ASSUME NEW s, IsSeq(s), NEW x
  PROVE  /\ IsSeq(Append(s, x)) /\ Len(Append(s, x)) = Len(s) + 1
         /\ \A i \in 1..Len(s) : Append(s, x)[i] = s[i]
         /\ Append(s, x)[Len(s) + 1] = x
<1>. DEFINE S == Held(s) \cup {x}
<1>1. s \in Seq(S)
  BY SeqMonotonic DEF IsSeq
<1>2. x \in S
  OBVIOUS
<1>. HIDE DEF S
<1>3. Append(s, x) \in Seq(S) /\ Len(Append(s, x)) = Len(s) + 1
      /\ (\A i \in 1..Len(s) : Append(s, x)[i] = s[i]) /\ Append(s, x)[Len(s) + 1] = x
  BY <1>1, <1>2, AppendProperties
<1>4. IsSeq(Append(s, x))
  BY <1>3, SeqIs
<1>. QED
  BY <1>3, <1>4

(* The elements of s \o r are those of s and then those of r.              *)
LEMMA SeqConcat ==
  ASSUME NEW s, NEW r, IsSeq(s), IsSeq(r)
  PROVE  /\ IsSeq(s \o r) /\ Len(s \o r) = Len(s) + Len(r)
         /\ \A i \in 1..Len(s) : (s \o r)[i] = s[i]
         /\ \A i \in 1..Len(r) : (s \o r)[Len(s) + i] = r[i]
<1>. DEFINE S == Held(s) \cup Held(r)
<1>1. s \in Seq(S) /\ r \in Seq(S)
  BY SeqMonotonic DEF IsSeq
<1>. HIDE DEF S
<1>2. /\ s \o r \in Seq(S) /\ Len(s \o r) = Len(s) + Len(r)
      /\ \A i \in 1..Len(s) + Len(r) : (s \o r)[i] = IF i <= Len(s) THEN s[i] ELSE r[i - Len(s)]
  BY <1>1, ConcatProperties
<1>3. IsSeq(s \o r)
  BY <1>2, SeqIs
<1>4. Len(s) \in Nat /\ Len(r) \in Nat
  BY SeqShape
<1>5. ASSUME NEW i \in 1..Len(r) PROVE (s \o r)[Len(s) + i] = r[i]
  <2>1. Len(s) + i \in 1..Len(s) + Len(r) /\ ~(Len(s) + i <= Len(s)) /\ Len(s) + i - Len(s) = i
    BY <1>4
  <2>. QED
    BY <1>2, <2>1
<1>. QED
  BY <1>2, <1>3, <1>4, <1>5

Concats(c, s, r) ==
  /\ IsSeq(c) /\ Len(c) = Len(s) + Len(r)
  /\ \A i \in 1..Len(s) : c[i] = s[i]
  /\ \A i \in 1..Len(r) : c[Len(s) + i] = r[i]

(* The same, behind a name that the provers need not look into.            *)
LEMMA SeqConcats ==
  ASSUME NEW s, NEW r, IsSeq(s), IsSeq(r)
  PROVE  Concats(s \o r, s, r)
BY SeqConcat DEF Concats

(* The elements of a SubSeq, where it starts and where it ends.            *)
LEMMA SeqSub ==
  ASSUME NEW s, IsSeq(s), NEW m \in Nat \ {0}, NEW n \in Nat, n <= Len(s)
  PROVE  /\ IsSeq(SubSeq(s, m, n)) /\ Len(SubSeq(s, m, n)) = (IF m <= n THEN n - m + 1 ELSE 0)
         /\ \A i \in 1..n - m + 1 : SubSeq(s, m, n)[i] = s[m + i - 1]
<1>1. \A i \in m..n : s[i] \in Held(s)
  BY SeqShape DEF Held
<1>2. m \in Int /\ n \in Int
  OBVIOUS
<1>3. /\ SubSeq(s, m, n) \in Seq(Held(s)) /\ Len(SubSeq(s, m, n)) = (IF m <= n THEN n - m + 1 ELSE 0)
      /\ \A i \in 1..n - m + 1 : SubSeq(s, m, n)[i] = s[m + i - 1]
  BY <1>1, <1>2, SubSeqProperties
<1>4. IsSeq(SubSeq(s, m, n))
  BY <1>3, SeqIs
<1>. QED
  BY <1>3, <1>4

(* Front takes the last away and nothing else.                             *)
LEMMA SeqFront ==
  ASSUME NEW s, IsSeq(s), Len(s) >= 1
  PROVE  /\ IsSeq(Front(s)) /\ Len(Front(s)) = Len(s) - 1
         /\ \A i \in 1..Len(s) - 1 : Front(s)[i] = s[i]
<1>1. Len(s) \in Nat /\ 1 \in Nat \ {0} /\ Len(s) - 1 \in Nat /\ Len(s) - 1 <= Len(s)
  BY SeqShape
<1>. DEFINE n == Len(s) - 1
<1>2. /\ IsSeq(SubSeq(s, 1, n)) /\ Len(SubSeq(s, 1, n)) = (IF 1 <= n THEN n - 1 + 1 ELSE 0)
      /\ \A i \in 1..n - 1 + 1 : SubSeq(s, 1, n)[i] = s[1 + i - 1]
  BY <1>1, SeqSub
<1>3. Front(s) = SubSeq(s, 1, n)
  BY DEF Front
<1>4. n \in Nat
  BY <1>1
<1>. HIDE DEF n
<1>6. n - 1 + 1 = n /\ (IF 1 <= n THEN n - 1 + 1 ELSE 0) = n
  BY <1>4
<1>7. \A i \in 1..n : 1 + i - 1 = i
  BY <1>4
<1>5. /\ IsSeq(Front(s)) /\ Len(Front(s)) = n /\ \A i \in 1..n : Front(s)[i] = s[i]
  BY <1>2, <1>3, <1>6, <1>7
<1>. QED
  BY <1>5 DEF n

(* SetTop changes the last and nothing else.                               *)
LEMMA SeqTop ==
  ASSUME NEW s, IsSeq(s), Len(s) >= 1, NEW x
  PROVE  /\ IsSeq(SetTop(s, x)) /\ Len(SetTop(s, x)) = Len(s)
         /\ \A i \in 1..Len(s) - 1 : SetTop(s, x)[i] = s[i]
         /\ SetTop(s, x)[Len(s)] = x
BY SeqShape, SeqFront, SeqAppend DEF SetTop

(* Two sequences of the same elements are one.                             *)
LEMMA SeqSame ==
  ASSUME NEW s, NEW r, IsSeq(s), IsSeq(r), Len(s) = Len(r), \A i \in 1..Len(s) : s[i] = r[i]
  PROVE  s = r
<1>1. s \in Seq(Held(s) \cup Held(r)) /\ r \in Seq(Held(s) \cup Held(r))
  BY SeqMonotonic DEF IsSeq
<1>. QED
  BY <1>1, SeqEqual
-----------------------------------------------------------------------------
(* The machine the steps of a line are written for: the pictures of each   *)
(* open parenthesis, the outermost first, and the input read next.         *)
Machine(scopes, next) == [scopes |-> scopes, next |-> next]
Here(m) == Last(m.scopes)
Puts(m, pictures, next) == Machine(SetTop(m.scopes, pictures), next)
Pictured(s) == IsSeq(s) /\ \A j \in 1..Len(s) : s[j] # None

IsMachine(m, inputs) ==
  /\ m = Machine(m.scopes, m.next)
  /\ IsSeq(m.scopes) /\ Len(m.scopes) >= 1
  /\ \A i \in 1..Len(m.scopes) : Pictured(m.scopes[i])
  /\ m.next \in 1..Len(inputs) + 1

(* What a step does to it, where it may be taken at all.                   *)
Made(step, top) == IF step.kind = "pixpalette" THEN top ELSE Changed(step.kind, step.options, top)

Rests(m, step, n) == step.kind \in {"source", "encode"} /\ n = m
Decodes(m, step, n, inputs) ==
  /\ step.kind = "decode" /\ m.next <= Len(inputs)
  /\ n = Puts(m, Append(Here(m), Read(inputs[m.next], step.options)), m.next + 1)
Generates(m, step, n) ==
  /\ step.kind = "generate"
  /\ n = Puts(m, Append(Here(m), Paint(step.brush, step.options,
                                       MeantSize(step.brush, step.options, Here(m)))), m.next)
Changes(m, step, n) ==
  /\ step.kind \in PlainKinds /\ Here(m) # None
  /\ n = Puts(m, SetTop(Here(m), Made(step, Last(Here(m)))), m.next)
Merges(m, step, n) ==
  /\ step.kind = "composite" /\ Len(Here(m)) \in 2..4
  /\ n = Puts(m, <<MeantMerge(Here(m), FALSE, step.options)>>, m.next)
Opens(m, step, n) == step.kind = "open" /\ n = Machine(Append(m.scopes, None), m.next)
Closes(m, step, n) ==
  /\ step.kind = "close" /\ Len(m.scopes) > 1
  /\ n = Machine(SetTop(Front(m.scopes), Last(Front(m.scopes)) \o Here(m)), m.next)

Legal(m, step, n, inputs) ==
  \/ Rests(m, step, n) \/ Decodes(m, step, n, inputs) \/ Generates(m, step, n)
  \/ Changes(m, step, n) \/ Merges(m, step, n) \/ Opens(m, step, n) \/ Closes(m, step, n)

(* A machine has a parenthesis it is in, and pictures in it.               *)
LEMMA IsHere ==
  ASSUME NEW m, NEW inputs, IsMachine(m, inputs)
  PROVE  /\ Pictured(Here(m)) /\ IsSeq(Here(m)) /\ Here(m) = m.scopes[Len(m.scopes)]
         /\ Len(m.scopes) \in Nat \ {0}
         /\ Here(m) # None => Len(Here(m)) \in Nat \ {0} /\ Last(Here(m)) # None
<1>1. Len(m.scopes) \in Nat \ {0} /\ Len(m.scopes) \in 1..Len(m.scopes)
  BY SeqShape DEF IsMachine
<1>2. Here(m) = m.scopes[Len(m.scopes)]
  BY DEF Here, Last
<1>3. Pictured(Here(m))
  BY <1>1, <1>2 DEF IsMachine
<1>4. ASSUME Here(m) # None PROVE Len(Here(m)) \in Nat \ {0} /\ Last(Here(m)) # None
  BY <1>3, <1>4, SeqShape DEF Pictured, Last
<1>. QED
  BY <1>1, <1>2, <1>3, <1>4 DEF Pictured

(* A machine with the pictures on top replaced is one.                     *)
LEMMA PutsIs ==
  ASSUME NEW m, NEW inputs, IsMachine(m, inputs), NEW ps, Pictured(ps), NEW next \in 1..Len(inputs) + 1
  PROVE  /\ IsMachine(Puts(m, ps, next), inputs) /\ Here(Puts(m, ps, next)) = ps
         /\ Puts(m, ps, next).next = next
         /\ Len(Puts(m, ps, next).scopes) = Len(m.scopes)
         /\ \A i \in 1..Len(m.scopes) - 1 : Puts(m, ps, next).scopes[i] = m.scopes[i]
         /\ Puts(m, ps, next).scopes[Len(m.scopes)] = ps
<1>. DEFINE n == Puts(m, ps, next)
<1>1. n.scopes = SetTop(m.scopes, ps) /\ n.next = next /\ n = Machine(n.scopes, n.next)
  BY DEF Puts, Machine
<1>. HIDE DEF n
<1>2. Len(m.scopes) \in Nat \ {0}
  BY IsHere
<1>3. IsSeq(m.scopes) /\ Len(m.scopes) >= 1
  BY DEF IsMachine
<1>4. /\ IsSeq(n.scopes) /\ Len(n.scopes) = Len(m.scopes)
      /\ \A i \in 1..Len(m.scopes) - 1 : n.scopes[i] = m.scopes[i]
      /\ n.scopes[Len(m.scopes)] = ps
  BY <1>1, <1>3, SeqTop
<1>5. ASSUME NEW i \in 1..Len(n.scopes) PROVE Pictured(n.scopes[i])
  <2>1. CASE i = Len(m.scopes)
    BY <1>4, <2>1
  <2>2. CASE i # Len(m.scopes)
    <3>1. i \in 1..Len(m.scopes) - 1 /\ i \in 1..Len(m.scopes)
      BY <1>2, <1>4, <2>2
    <3>. QED
      BY <1>4, <3>1 DEF IsMachine
  <2>. QED
    BY <2>1, <2>2
<1>6. IsMachine(n, inputs)
  BY <1>1, <1>2, <1>4, <1>5 DEF IsMachine
<1>7. Here(n) = ps
  BY <1>4 DEF Here, Last
<1>. QED
  BY <1>1, <1>4, <1>6, <1>7 DEF n

(* One picture is a sequence of pictures.                                  *)
LEMMA PicturedOne ==
  ASSUME NEW x, x # None
  PROVE  Pictured(<<x>>)
BY SeqOne DEF Pictured

(* A picture more leaves a sequence of pictures.                           *)
LEMMA PicturedAppend ==
  ASSUME NEW s, Pictured(s), NEW x, x # None
  PROVE  Pictured(Append(s, x))
<1>1. IsSeq(s)
  BY DEF Pictured
<1>2. Len(s) \in Nat
  BY <1>1, SeqShape
<1>3. ASSUME NEW j \in 1..Len(s) + 1 PROVE Append(s, x)[j] # None
  <2>1. CASE j = Len(s) + 1
    BY <1>1, <2>1, SeqAppend
  <2>2. CASE j # Len(s) + 1
    <3>1. j \in 1..Len(s)
      BY <1>2, <2>2
    <3>. QED
      BY <1>1, <3>1, SeqAppend DEF Pictured
  <2>. QED
    BY <2>1, <2>2
<1>. QED
  BY <1>1, <1>3, SeqAppend DEF Pictured

(* Another picture on top leaves a sequence of pictures.                   *)
LEMMA PicturedTop ==
  ASSUME NEW s, Pictured(s), s # None, NEW x, x # None
  PROVE  Pictured(SetTop(s, x))
<1>1. IsSeq(s)
  BY DEF Pictured
<1>2. Len(s) \in Nat \ {0} /\ Len(s) >= 1
  BY <1>1, SeqShape
<1>3. ASSUME NEW j \in 1..Len(s) PROVE SetTop(s, x)[j] # None
  <2>1. CASE j = Len(s)
    BY <1>1, <1>2, <2>1, SeqTop
  <2>2. CASE j # Len(s)
    <3>1. j \in 1..Len(s) - 1
      BY <1>2, <2>2
    <3>. QED
      BY <1>1, <1>2, <3>1, SeqTop DEF Pictured
  <2>. QED
    BY <2>1, <2>2
<1>4. IsSeq(SetTop(s, x)) /\ Len(SetTop(s, x)) = Len(s)
  BY <1>1, <1>2, SeqTop
<1>. QED
  BY <1>3, <1>4 DEF Pictured

(* Pictures after pictures are pictures.                                   *)
LEMMA PicturedConcat ==
  ASSUME NEW s, NEW r, Pictured(s), Pictured(r)
  PROVE  Pictured(s \o r)
<1>1. IsSeq(s) /\ IsSeq(r)
  BY DEF Pictured
<1>2. Len(s) \in Nat /\ Len(r) \in Nat
  BY <1>1, SeqShape
<1>3. /\ IsSeq(s \o r) /\ Len(s \o r) = Len(s) + Len(r)
      /\ \A i \in 1..Len(s) : (s \o r)[i] = s[i]
      /\ \A i \in 1..Len(r) : (s \o r)[Len(s) + i] = r[i]
  BY <1>1, SeqConcat
<1>4. ASSUME NEW j \in 1..Len(s) + Len(r) PROVE (s \o r)[j] # None
  <2>1. CASE j <= Len(s)
    BY <1>2, <1>3, <2>1 DEF Pictured
  <2>2. CASE ~(j <= Len(s))
    <3>1. j - Len(s) \in 1..Len(r) /\ Len(s) + (j - Len(s)) = j
      BY <1>2, <2>2
    <3>2. (s \o r)[Len(s) + (j - Len(s))] = r[j - Len(s)]
      BY <1>3, <3>1
    <3>3. r[j - Len(s)] # None
      BY <3>1 DEF Pictured
    <3>. QED
      BY <3>1, <3>2, <3>3
  <2>. QED
    BY <2>1, <2>2
<1>. QED
  BY <1>3, <1>4 DEF Pictured

(* What is read, painted, changed or mixed is a picture, never None.       *)
LEMMA PicturesAre ==
  /\ \A f, o : Read(f, o) # None
  /\ \A b, o, z : Paint(b, o, z) # None
  /\ \A k, o, p : Changed(k, o, p) # None
  /\ \A d, o, b, l : Mixed(d, o, b, l) # None
BY DEF Read, Paint, Changed, Mixed, None

(* A merge means a picture, whatever is merged.                            *)
LEMMA MergeIs ==
  ASSUME NEW ps, NEW shape, NEW options
  PROVE  MeantMerge(ps, shape, options) # None
<1>1. \A b, l : Mixed(ModeOf(options), options, b, l) # None
  BY PicturesAre
<1>. QED
  BY <1>1 DEF MeantMerge
-----------------------------------------------------------------------------
(* A transform means a picture, whatever it is of.                         *)
LEMMA MadeIs ==
  ASSUME NEW step, NEW top, top # None
  PROVE  Made(step, top) # None
BY PicturesAre DEF Made

(* What an opening parenthesis makes of a machine.                         *)
LEMMA OpenIs ==
  ASSUME NEW m, NEW inputs, IsMachine(m, inputs), NEW n, n = Machine(Append(m.scopes, None), m.next)
  PROVE  /\ IsMachine(n, inputs) /\ Here(n) = None /\ n.next = m.next
         /\ Len(n.scopes) = Len(m.scopes) + 1
         /\ \A i \in 1..Len(m.scopes) : n.scopes[i] = m.scopes[i]
<1>1. n.scopes = Append(m.scopes, None) /\ n.next = m.next /\ n = Machine(n.scopes, n.next)
  BY DEF Machine
<1>2. IsSeq(m.scopes) /\ Len(m.scopes) \in Nat \ {0}
  BY IsHere DEF IsMachine
<1>3. /\ IsSeq(n.scopes) /\ Len(n.scopes) = Len(m.scopes) + 1
      /\ \A i \in 1..Len(m.scopes) : n.scopes[i] = m.scopes[i]
      /\ n.scopes[Len(m.scopes) + 1] = None
  BY <1>1, <1>2, SeqAppend
<1>4. ASSUME NEW i \in 1..Len(n.scopes) PROVE Pictured(n.scopes[i])
  <2>1. CASE i = Len(m.scopes) + 1
    BY <1>3, <2>1, SeqEmpty DEF Pictured
  <2>2. CASE i # Len(m.scopes) + 1
    <3>1. i \in 1..Len(m.scopes)
      BY <1>2, <1>3, <2>2
    <3>. QED
      BY <1>3, <3>1 DEF IsMachine
  <2>. QED
    BY <2>1, <2>2
<1>5. m.next \in 1..Len(inputs) + 1
  BY DEF IsMachine
<1>6. Len(n.scopes) >= 1
  BY <1>2, <1>3, SMTT(30)
<1>. QED
  BY <1>1, <1>3, <1>4, <1>5, <1>6 DEF IsMachine, Here, Last

(* What a closing parenthesis makes of a machine: the pictures in it are   *)
(* put after those before it.                                              *)
LEMMA CloseIs ==
  ASSUME NEW m, NEW inputs, IsMachine(m, inputs), Len(m.scopes) > 1,
         NEW n, n = Machine(SetTop(Front(m.scopes), Last(Front(m.scopes)) \o Here(m)), m.next)
  PROVE  /\ IsMachine(n, inputs) /\ n.next = m.next
         /\ Len(n.scopes) = Len(m.scopes) - 1
         /\ \A i \in 1..Len(m.scopes) - 2 : n.scopes[i] = m.scopes[i]
         /\ n.scopes[Len(m.scopes) - 1] = m.scopes[Len(m.scopes) - 1] \o m.scopes[Len(m.scopes)]
         /\ Here(n) = n.scopes[Len(m.scopes) - 1]
<1>. DEFINE front == Front(m.scopes)
            L == Len(m.scopes) - 1
            both == Last(front) \o Here(m)
<1>1. n.scopes = SetTop(front, both) /\ n.next = m.next /\ n = Machine(n.scopes, n.next)
  BY DEF Machine
<1>2. IsSeq(m.scopes) /\ Len(m.scopes) \in Nat \ {0} /\ Len(m.scopes) >= 1 /\ L \in Nat /\ L >= 1
  BY IsHere DEF IsMachine
<1>3. /\ IsSeq(front) /\ Len(front) = L
      /\ \A i \in 1..L : front[i] = m.scopes[i]
  BY <1>2, SeqFront
<1>4. Last(front) = m.scopes[L] /\ Here(m) = m.scopes[L + 1] /\ L + 1 = Len(m.scopes)
  BY <1>2, <1>3, IsHere DEF Last
<1>5. Pictured(m.scopes[L]) /\ Pictured(m.scopes[L + 1])
  BY <1>2, <1>4, SMTT(30) DEF IsMachine
<1>6. Pictured(both) /\ both = m.scopes[L] \o m.scopes[L + 1]
  BY <1>4, <1>5, PicturedConcat
<1>. HIDE DEF front, both, L
<1>7. /\ IsSeq(n.scopes) /\ Len(n.scopes) = L /\ n.scopes[L] = both
      /\ \A i \in 1..L - 1 : n.scopes[i] = front[i]
  BY <1>1, <1>2, <1>3, SeqTop
<1>8. \A i \in 1..L - 1 : n.scopes[i] = m.scopes[i]
  BY <1>2, <1>3, <1>7
<1>9. ASSUME NEW i \in 1..Len(n.scopes) PROVE Pictured(n.scopes[i])
  <2>1. CASE i = L
    BY <1>6, <1>7, <2>1
  <2>2. CASE i # L
    <3>1. i \in 1..L - 1 /\ i \in 1..Len(m.scopes)
      BY <1>2, <1>4, <1>7, <2>2
    <3>. QED
      BY <1>8, <3>1 DEF IsMachine
  <2>. QED
    BY <2>1, <2>2, SMTT(30)
<1>10. m.next \in 1..Len(inputs) + 1
  BY DEF IsMachine
<1>11. IsMachine(n, inputs)
  BY <1>1, <1>2, <1>7, <1>9, <1>10 DEF IsMachine
<1>12. Here(n) = n.scopes[L]
  BY <1>7 DEF Here, Last
<1>13. Len(m.scopes) - 2 = L - 1
  BY <1>2 DEF L
<1>. QED
  BY <1>1, <1>4, <1>6, <1>7, <1>8, <1>11, <1>12, <1>13, Zenon DEF L

(* A step leaves a machine, and of it all but the top, or of an opening    *)
(* and a closing what they are for.                                        *)
LEMMA LegalIs ==
  ASSUME NEW m, NEW inputs, IsMachine(m, inputs), IsSeq(inputs), NEW step, NEW n, Legal(m, step, n, inputs)
  PROVE  IsMachine(n, inputs)
<1>1. Pictured(Here(m)) /\ (Here(m) # None => Last(Here(m)) # None)
  BY IsHere
<1>2. m.next \in 1..Len(inputs) + 1 /\ Len(inputs) \in Nat
  BY SeqShape DEF IsMachine
<1>3. CASE Rests(m, step, n)
  BY <1>3 DEF Rests
<1>4. CASE Decodes(m, step, n, inputs)
  <2>1. Pictured(Append(Here(m), Read(inputs[m.next], step.options)))
    BY <1>1, PicturedAppend, PicturesAre
  <2>2. m.next + 1 \in 1..Len(inputs) + 1
    BY <1>2, <1>4 DEF Decodes
  <2>. QED
    BY <1>4, <2>1, <2>2, PutsIs DEF Decodes
<1>5. CASE Generates(m, step, n)
  <2>1. Pictured(Append(Here(m), Paint(step.brush, step.options, MeantSize(step.brush, step.options, Here(m)))))
    BY <1>1, PicturedAppend, PicturesAre
  <2>. QED
    BY <1>2, <1>5, <2>1, PutsIs DEF Generates
<1>6. CASE Changes(m, step, n)
  <2>1. Here(m) # None /\ Made(step, Last(Here(m))) # None
    BY <1>1, <1>6, MadeIs DEF Changes
  <2>2. Pictured(SetTop(Here(m), Made(step, Last(Here(m)))))
    BY <1>1, <2>1, PicturedTop
  <2>. QED
    BY <1>2, <1>6, <2>2, PutsIs DEF Changes
<1>7. CASE Merges(m, step, n)
  <2>1. Pictured(<<MeantMerge(Here(m), FALSE, step.options)>>)
    BY MergeIs, PicturedOne
  <2>. QED
    BY <1>2, <1>7, <2>1, PutsIs DEF Merges
<1>8. CASE Opens(m, step, n)
  BY <1>8, OpenIs DEF Opens
<1>9. CASE Closes(m, step, n)
  BY <1>9, CloseIs DEF Closes
<1>. QED
  BY <1>3, <1>4, <1>5, <1>6, <1>7, <1>8, <1>9 DEF Legal

(* The first picture of a parenthesis stays while the steps are about      *)
(* others.                                                                 *)
LEMMA FirstStays ==
  ASSUME NEW m, NEW inputs, IsMachine(m, inputs), IsSeq(inputs), NEW step, NEW n, Legal(m, step, n, inputs),
         NEW i \in 1..Len(m.scopes), m.scopes[i] # None, i <= Len(n.scopes),
         i = Len(m.scopes) => step.kind # "composite" /\ (step.kind \in PlainKinds => Len(m.scopes[i]) >= 2)
  PROVE  n.scopes[i] # None /\ n.scopes[i][1] = m.scopes[i][1]
<1>1. /\ Pictured(Here(m)) /\ Here(m) = m.scopes[Len(m.scopes)] /\ Len(m.scopes) \in Nat \ {0}
      /\ (Here(m) # None => Len(Here(m)) \in Nat \ {0} /\ Last(Here(m)) # None)
  BY IsHere
<1>2. m.next \in 1..Len(inputs) + 1
  BY DEF IsMachine
<1>3. IsSeq(Here(m)) /\ IsSeq(m.scopes[i])
  BY <1>1 DEF Pictured, IsMachine
<1>4. Len(m.scopes[i]) \in Nat \ {0}
  BY <1>3, SeqShape
<1>5. CASE Rests(m, step, n)
  BY <1>5 DEF Rests
<1>6. ASSUME NEW ps, Pictured(ps), NEW next \in 1..Len(inputs) + 1, n = Puts(m, ps, next),
             i = Len(m.scopes) => ps # None /\ ps[1] = m.scopes[i][1]
      PROVE  n.scopes[i] # None /\ n.scopes[i][1] = m.scopes[i][1]
  <2>1. /\ \A k \in 1..Len(m.scopes) - 1 : n.scopes[k] = m.scopes[k]
        /\ n.scopes[Len(m.scopes)] = ps
    BY <1>6, PutsIs
  <2>2. CASE i = Len(m.scopes)
    BY <1>6, <2>1, <2>2
  <2>3. CASE i # Len(m.scopes)
    <3>1. i \in 1..Len(m.scopes) - 1
      BY <1>1, <2>3
    <3>. QED
      BY <2>1, <3>1
  <2>. QED
    BY <2>2, <2>3
<1>7. ASSUME NEW x, x # None
      PROVE  /\ Pictured(Append(Here(m), x))
             /\ i = Len(m.scopes) => Append(Here(m), x) # None /\ Append(Here(m), x)[1] = m.scopes[i][1]
  <2>1. Pictured(Append(Here(m), x)) /\ IsSeq(Append(Here(m), x))
    BY <1>1, <1>7, PicturedAppend DEF Pictured
  <2>2. ASSUME i = Len(m.scopes)
        PROVE  Append(Here(m), x) # None /\ Append(Here(m), x)[1] = m.scopes[i][1]
    <3>1. Len(Here(m)) \in Nat \ {0} /\ 1 \in 1..Len(Here(m))
      BY <1>1, <1>4, <2>2
    <3>2. Len(Append(Here(m), x)) = Len(Here(m)) + 1 /\ Append(Here(m), x)[1] = Here(m)[1]
      BY <1>3, <3>1, SeqAppend
    <3>3. Append(Here(m), x) # None
      <4>1. Len(Append(Here(m), x)) # 0
        BY <3>1, <3>2
      <4>. QED
        BY <2>1, <4>1, SeqShape
    <3>. QED
      BY <1>1, <2>2, <3>2, <3>3
  <2>. QED
    BY <2>1, <2>2
<1>8. CASE Decodes(m, step, n, inputs)
  <2>1. Read(inputs[m.next], step.options) # None
    BY PicturesAre
  <2>2. m.next + 1 \in 1..Len(inputs) + 1
    BY <1>2, <1>8, SeqShape, SMTT(30) DEF Decodes
  <2>. QED
    BY <1>6, <1>7, <1>8, <2>1, <2>2 DEF Decodes
<1>9. CASE Generates(m, step, n)
  <2>1. Paint(step.brush, step.options, MeantSize(step.brush, step.options, Here(m))) # None
    BY PicturesAre
  <2>. QED
    BY <1>2, <1>6, <1>7, <1>9, <2>1 DEF Generates
<1>10. CASE Changes(m, step, n)
  <2>. DEFINE x == Made(step, Last(Here(m)))
  <2>1. Here(m) # None /\ x # None /\ step.kind \in PlainKinds
    BY <1>1, <1>10, MadeIs DEF Changes
  <2>. HIDE DEF x
  <2>2. Pictured(SetTop(Here(m), x)) /\ IsSeq(SetTop(Here(m), x))
    BY <1>1, <2>1, PicturedTop DEF Pictured
  <2>3. ASSUME i = Len(m.scopes)
        PROVE  SetTop(Here(m), x) # None /\ SetTop(Here(m), x)[1] = m.scopes[i][1]
    <3>1. Len(Here(m)) \in Nat /\ Len(Here(m)) >= 2 /\ Len(Here(m)) >= 1 /\ 1 \in 1..Len(Here(m)) - 1
      BY <1>1, <1>4, <2>1, <2>3
    <3>2. Len(SetTop(Here(m), x)) = Len(Here(m)) /\ SetTop(Here(m), x)[1] = Here(m)[1]
      BY <1>3, <3>1, SeqTop
    <3>3. SetTop(Here(m), x) # None
      <4>1. Len(SetTop(Here(m), x)) # 0
        BY <3>1, <3>2
      <4>. QED
        BY <2>2, <4>1, SeqShape
    <3>. QED
      BY <1>1, <2>3, <3>2, <3>3
  <2>4. n = Puts(m, SetTop(Here(m), x), m.next)
    BY <1>10 DEF Changes, x
  <2>. QED
    BY <1>2, <1>6, <2>2, <2>3, <2>4
<1>11. CASE Merges(m, step, n)
  <2>1. Pictured(<<MeantMerge(Here(m), FALSE, step.options)>>)
    BY MergeIs, PicturedOne
  <2>2. i # Len(m.scopes)
    BY <1>11 DEF Merges
  <2>. QED
    BY <1>2, <1>6, <1>11, <2>1, <2>2 DEF Merges
<1>12. CASE Opens(m, step, n)
  BY <1>12, OpenIs, SMTT(30) DEF Opens
<1>13. CASE Closes(m, step, n)
  <2>. DEFINE L == Len(m.scopes) - 1
  <2>1. Len(m.scopes) > 1
    BY <1>13 DEF Closes
  <2>2. /\ Len(n.scopes) = L
        /\ \A k \in 1..Len(m.scopes) - 2 : n.scopes[k] = m.scopes[k]
        /\ n.scopes[L] = m.scopes[L] \o m.scopes[Len(m.scopes)]
    BY <1>13, <2>1, CloseIs, ZenonT(60) DEF Closes
  <2>3. CASE i = L
    <3>1. n.scopes[L] = m.scopes[i] \o Here(m)
      BY <1>1, <2>2, <2>3
    <3>2. /\ IsSeq(m.scopes[i] \o Here(m)) /\ Len(m.scopes[i] \o Here(m)) = Len(m.scopes[i]) + Len(Here(m))
          /\ (m.scopes[i] \o Here(m))[1] = m.scopes[i][1]
      <4>1. 1 \in 1..Len(m.scopes[i])
        BY <1>4
      <4>. QED
        BY <1>3, <4>1, SeqConcat
    <3>3. m.scopes[i] \o Here(m) # None
      <4>1. Len(Here(m)) \in Nat
        BY <1>3, SeqShape
      <4>2. Len(m.scopes[i] \o Here(m)) # 0
        BY <1>4, <3>2, <4>1
      <4>. QED
        BY <3>2, <4>2, SeqShape
    <3>. QED
      BY <2>3, <3>1, <3>2, <3>3
  <2>4. CASE i # L
    <3>1. i \in 1..Len(m.scopes) - 2
      BY <1>1, <2>2, <2>4
    <3>. QED
      BY <2>2, <3>1
  <2>. QED
    BY <2>3, <2>4
<1>. QED
  BY <1>5, <1>8, <1>9, <1>10, <1>11, <1>12, <1>13 DEF Legal
-----------------------------------------------------------------------------
(* The machine with one more picture at the bottom of parenthesis i.       *)
Under(s, x) == <<x>> \o s
ShiftedAt(scopes, i, x) == [k \in DOMAIN scopes |-> IF k = i THEN Under(scopes[k], x) ELSE scopes[k]]
Shifted(m, i, x) == Machine(ShiftedAt(m.scopes, i, x), m.next)

(* A picture put under the others is the first, and the others move up.    *)
LEMMA UnderIs ==
  ASSUME NEW s, IsSeq(s), NEW x
  PROVE  /\ IsSeq(Under(s, x)) /\ Len(Under(s, x)) = Len(s) + 1 /\ Len(s) \in Nat
         /\ Under(s, x)[1] = x /\ \A j \in 1..Len(s) : Under(s, x)[j + 1] = s[j]
         /\ Under(s, x) # None
<1>1. IsSeq(<<x>>) /\ Len(<<x>>) = 1 /\ <<x>>[1] = x
  BY SeqOne
<1>2. /\ IsSeq(<<x>> \o s) /\ Len(<<x>> \o s) = Len(<<x>>) + Len(s)
      /\ \A i \in 1..Len(<<x>>) : (<<x>> \o s)[i] = <<x>>[i]
      /\ \A i \in 1..Len(s) : (<<x>> \o s)[Len(<<x>>) + i] = s[i]
  BY <1>1, SeqConcat
<1>3. Len(s) \in Nat
  BY SeqShape
<1>4. \A j \in 1..Len(s) : 1 + j = j + 1
  BY <1>3
<1>5. Len(Under(s, x)) = Len(s) + 1 /\ IsSeq(Under(s, x)) /\ Under(s, x)[1] = x
      /\ \A j \in 1..Len(s) : Under(s, x)[j + 1] = s[j]
  <2>1. 1 + Len(s) = Len(s) + 1 /\ 1 \in 1..1
    BY <1>3
  <2>. QED
    BY <1>1, <1>2, <1>4, <2>1 DEF Under
<1>6. Len(Under(s, x)) # 0
  BY <1>3, <1>5
<1>. QED
  BY <1>3, <1>5, <1>6, SeqShape

(* A picture put under pictures leaves pictures.                           *)
LEMMA UnderPictured ==
  ASSUME NEW s, Pictured(s), NEW x, x # None
  PROVE  Pictured(Under(s, x))
<1>1. Pictured(<<x>>)
  BY PicturedOne
<1>. QED
  BY <1>1, PicturedConcat DEF Under

(* A machine with a picture more under scope i is a machine, and differs   *)
(* in that scope only.                                                     *)
LEMMA ShiftedIs ==
  ASSUME NEW m, NEW inputs, IsMachine(m, inputs), NEW i \in 1..Len(m.scopes), NEW x, x # None
  PROVE  /\ IsMachine(Shifted(m, i, x), inputs) /\ Shifted(m, i, x).next = m.next
         /\ Len(Shifted(m, i, x).scopes) = Len(m.scopes)
         /\ Shifted(m, i, x).scopes = ShiftedAt(m.scopes, i, x)
         /\ Shifted(m, i, x).scopes[i] = Under(m.scopes[i], x)
         /\ \A k \in 1..Len(m.scopes) : k # i => Shifted(m, i, x).scopes[k] = m.scopes[k]
<1>. DEFINE n == Shifted(m, i, x)
            f == ShiftedAt(m.scopes, i, x)
            S == Held(m.scopes) \cup {Under(m.scopes[i], x)}
<1>1. n.scopes = f /\ n.next = m.next /\ n = Machine(n.scopes, n.next)
  BY DEF Shifted, Machine
<1>2. Len(m.scopes) \in Nat \ {0} /\ IsSeq(m.scopes) /\ DOMAIN m.scopes = 1..Len(m.scopes)
  BY IsHere, SeqShape DEF IsMachine
<1>3. f = [k \in 1..Len(m.scopes) |-> IF k = i THEN Under(m.scopes[k], x) ELSE m.scopes[k]]
  BY <1>2 DEF ShiftedAt
<1>4. f \in [1..Len(m.scopes) -> S]
  BY <1>2, <1>3 DEF Held
<1>. HIDE DEF S
<1>5. f \in Seq(S) /\ Len(f) = Len(m.scopes)
  BY <1>2, <1>4
<1>6. IsSeq(f)
  BY <1>5, SeqIs
<1>7. f[i] = Under(m.scopes[i], x) /\ \A k \in 1..Len(m.scopes) : k # i => f[k] = m.scopes[k]
  BY <1>3
<1>. HIDE DEF f, n
<1>8. ASSUME NEW k \in 1..Len(m.scopes) PROVE Pictured(f[k])
  <2>1. Pictured(m.scopes[k])
    BY DEF IsMachine
  <2>2. CASE k = i
    BY <1>7, <2>1, <2>2, UnderPictured
  <2>3. CASE k # i
    BY <1>7, <2>1, <2>3
  <2>. QED
    BY <2>2, <2>3
<1>9. m.next \in 1..Len(inputs) + 1
  BY DEF IsMachine
<1>10. IsMachine(n, inputs)
  BY <1>1, <1>2, <1>5, <1>6, <1>8, <1>9 DEF IsMachine
<1>. QED
  BY <1>1, <1>5, <1>7, <1>10 DEF n, f

(* What is seen of it from where it stands.                                *)
LEMMA ShiftedHere ==
  ASSUME NEW m, NEW inputs, IsMachine(m, inputs), NEW i \in 1..Len(m.scopes), NEW x, x # None
  PROVE  Here(Shifted(m, i, x)) = IF i = Len(m.scopes) THEN Under(Here(m), x) ELSE Here(m)
<1>1. Len(m.scopes) \in Nat \ {0} /\ Len(m.scopes) \in 1..Len(m.scopes) /\ Here(m) = m.scopes[Len(m.scopes)]
  BY IsHere
<1>2. Here(Shifted(m, i, x)) = Shifted(m, i, x).scopes[Len(m.scopes)]
  BY ShiftedIs DEF Here, Last
<1>. QED
  BY <1>1, <1>2, ShiftedIs

(* Machines with the same pictures are the same.                           *)
LEMMA SameMachine ==
  ASSUME NEW m, NEW n, NEW inputs, IsMachine(m, inputs), IsMachine(n, inputs), m.next = n.next,
         Len(m.scopes) = Len(n.scopes), \A k \in 1..Len(m.scopes) : m.scopes[k] = n.scopes[k]
  PROVE  m = n
<1>1. m.scopes = n.scopes
  BY SeqSame DEF IsMachine
<1>2. m = Machine(m.scopes, m.next) /\ n = Machine(n.scopes, n.next)
  BY DEF IsMachine
<1>. QED
  BY <1>1, <1>2

(* What is put on top last is all that is left there.                      *)
LEMMA PutsPuts ==
  ASSUME NEW m, NEW inputs, IsMachine(m, inputs), NEW ps, Pictured(ps), NEW qs, Pictured(qs),
         NEW next \in 1..Len(inputs) + 1, NEW more \in 1..Len(inputs) + 1
  PROVE  Puts(Puts(m, ps, next), qs, more) = Puts(m, qs, more)
<1>. DEFINE a == Puts(m, ps, next)
            b == Puts(a, qs, more)
            c == Puts(m, qs, more)
            L == Len(m.scopes)
<1>1. L \in Nat \ {0}
  BY IsHere
<1>2. /\ IsMachine(a, inputs) /\ Len(a.scopes) = L
      /\ \A k \in 1..L - 1 : a.scopes[k] = m.scopes[k]
  BY PutsIs
<1>3. /\ IsMachine(c, inputs) /\ c.next = more /\ Len(c.scopes) = L
      /\ \A k \in 1..L - 1 : c.scopes[k] = m.scopes[k]
      /\ c.scopes[L] = qs
  BY PutsIs
<1>. HIDE DEF a, c, L
<1>4. /\ IsMachine(b, inputs) /\ b.next = more /\ Len(b.scopes) = L
      /\ \A k \in 1..L - 1 : b.scopes[k] = a.scopes[k]
      /\ b.scopes[L] = qs
  BY <1>2, PutsIs, SMTT(30)
<1>. HIDE DEF b
<1>5. ASSUME NEW k \in 1..L PROVE b.scopes[k] = c.scopes[k]
  <2>1. k = L \/ k \in 1..L - 1
    BY <1>1
  <2>. QED
    BY <1>2, <1>3, <1>4, <2>1
<1>6. b = c
  BY <1>3, <1>4, <1>5, SameMachine
<1>. QED
  BY <1>6 DEF a, b, c

(* Putting pictures down and putting one under commute.                    *)
LEMMA ShiftedPuts ==
  ASSUME NEW m, NEW inputs, IsMachine(m, inputs), NEW i \in 1..Len(m.scopes), NEW x, x # None,
         NEW ps, Pictured(ps), NEW next \in 1..Len(inputs) + 1
  PROVE  Shifted(Puts(m, ps, next), i, x)
           = Puts(Shifted(m, i, x), IF i = Len(m.scopes) THEN Under(ps, x) ELSE ps, next)
<1>. DEFINE a == Puts(m, ps, next)
            b == Shifted(m, i, x)
            qs == IF i = Len(m.scopes) THEN Under(ps, x) ELSE ps
            L == Len(m.scopes)
<1>1. L \in Nat \ {0}
  BY IsHere
<1>2. /\ IsMachine(a, inputs) /\ a.next = next /\ Len(a.scopes) = L
      /\ \A k \in 1..L - 1 : a.scopes[k] = m.scopes[k]
      /\ a.scopes[L] = ps
  BY PutsIs, SMTT(30)
<1>3. /\ IsMachine(b, inputs) /\ Len(b.scopes) = L /\ b.scopes[i] = Under(m.scopes[i], x)
      /\ \A k \in 1..L : k # i => b.scopes[k] = m.scopes[k]
  BY ShiftedIs
<1>4. Pictured(qs)
  BY UnderPictured
<1>. HIDE DEF a, b, qs, L
<1>5. i \in 1..Len(a.scopes)
  BY <1>2 DEF L
<1>6. /\ IsMachine(Shifted(a, i, x), inputs) /\ Shifted(a, i, x).next = next
      /\ Len(Shifted(a, i, x).scopes) = L
      /\ Shifted(a, i, x).scopes[i] = Under(a.scopes[i], x)
      /\ \A k \in 1..L : k # i => Shifted(a, i, x).scopes[k] = a.scopes[k]
  BY <1>2, <1>5, ShiftedIs, SMTT(30)
<1>7. /\ IsMachine(Puts(b, qs, next), inputs) /\ Puts(b, qs, next).next = next
      /\ Len(Puts(b, qs, next).scopes) = L
      /\ \A k \in 1..L - 1 : Puts(b, qs, next).scopes[k] = b.scopes[k]
      /\ Puts(b, qs, next).scopes[L] = qs
  BY <1>3, <1>4, PutsIs, SMTT(30)
<1>8. ASSUME NEW k \in 1..L PROVE Shifted(a, i, x).scopes[k] = Puts(b, qs, next).scopes[k]
  <2>1. CASE k = L
    <3>1. CASE i = L
      BY <1>2, <1>6, <1>7, <2>1, <3>1 DEF qs, L
    <3>2. CASE i # L
      BY <1>1, <1>2, <1>6, <1>7, <2>1, <3>2 DEF qs, L
    <3>. QED
      BY <3>1, <3>2
  <2>2. CASE k # L
    <3>1. k \in 1..L - 1
      BY <1>1, <2>2
    <3>2. CASE k = i
      BY <1>2, <1>3, <1>6, <1>7, <3>1, <3>2
    <3>3. CASE k # i
      BY <1>2, <1>3, <1>6, <1>7, <3>1, <3>3
    <3>. QED
      BY <3>2, <3>3
  <2>. QED
    BY <2>1, <2>2
<1>9. Shifted(a, i, x) = Puts(b, qs, next)
  BY <1>6, <1>7, <1>8, SameMachine
<1>. QED
  BY <1>9 DEF a, b, qs, L

(* What is done at the top of a parenthesis is done there with a picture   *)
(* under it.                                                               *)
LEMMA UnderConcat ==
  ASSUME NEW s, NEW r, NEW x, IsSeq(s), IsSeq(r)
  PROVE  Under(s, x) \o r = Under(s \o r, x)
<1>. DEFINE S == Held(s) \cup Held(r) \cup {x}
<1>1. s \in Seq(S) /\ r \in Seq(S)
  BY SeqMonotonic DEF IsSeq
<1>2. <<x>> \in Seq(S)
  OBVIOUS
<1>. HIDE DEF S
<1>. QED
  BY <1>1, <1>2, ConcatAssociative DEF Under

(* So do appending a picture and putting one under.                        *)
LEMMA UnderAppend ==
  ASSUME NEW s, IsSeq(s), NEW x, NEW y
  PROVE  Append(Under(s, x), y) = Under(Append(s, y), x)
<1>1. IsSeq(<<y>>) /\ IsSeq(Under(s, x))
  BY SeqOne, UnderIs
<1>2. Append(s, y) = s \o <<y>>
  <2>1. s \in Seq(Held(s) \cup {y}) /\ y \in Held(s) \cup {y}
    BY SeqMonotonic DEF IsSeq
  <2>. QED
    BY <2>1, AppendIsConcat
<1>3. Append(Under(s, x), y) = Under(s, x) \o <<y>>
  <2>1. Under(s, x) \in Seq(Held(Under(s, x)) \cup {y}) /\ y \in Held(Under(s, x)) \cup {y}
    BY <1>1, SeqMonotonic DEF IsSeq
  <2>. QED
    BY <2>1, AppendIsConcat
<1>. DEFINE one == <<y>>
<1>4. IsSeq(one)
  BY <1>1
<1>. HIDE DEF one
<1>5. Under(s, x) \o one = Under(s \o one, x)
  BY <1>4, UnderConcat
<1>. QED
  BY <1>2, <1>3, <1>5 DEF one

(* And so does a change of the top, when there is a top.                   *)
LEMMA UnderTop ==
  ASSUME NEW s, IsSeq(s), s # None, NEW x, NEW y
  PROVE  SetTop(Under(s, x), y) = Under(SetTop(s, y), x) /\ Last(Under(s, x)) = Last(s)
<1>. DEFINE u == Under(s, x)
            a == SetTop(u, y)
            b == Under(SetTop(s, y), x)
            N == Len(s)
<1>1. N \in Nat \ {0}
  BY SeqShape
<1>2. /\ IsSeq(u) /\ Len(u) = N + 1 /\ u[1] = x
      /\ \A j \in 1..N : u[j + 1] = s[j]
  BY UnderIs
<1>3. /\ IsSeq(SetTop(s, y)) /\ Len(SetTop(s, y)) = N /\ SetTop(s, y)[N] = y
      /\ \A j \in 1..N - 1 : SetTop(s, y)[j] = s[j]
  BY <1>1, SeqTop
<1>. HIDE DEF u
<1>4. /\ IsSeq(a) /\ Len(a) = N + 1 /\ a[N + 1] = y
      /\ \A j \in 1..N : a[j] = u[j]
  <2>1. Len(u) >= 1 /\ Len(u) - 1 = N
    BY <1>1, <1>2
  <2>. QED
    BY <1>2, <2>1, SeqTop
<1>5. /\ IsSeq(b) /\ Len(b) = N + 1 /\ b[1] = x
      /\ \A j \in 1..N : b[j + 1] = SetTop(s, y)[j]
  BY <1>3, UnderIs
<1>. HIDE DEF a, b
<1>6. ASSUME NEW j \in 1..N + 1 PROVE a[j] = b[j]
  <2>1. CASE j = 1
    <3>1. 1 \in 1..N
      BY <1>1
    <3>. QED
      BY <1>2, <1>4, <1>5, <2>1, <3>1
  <2>2. CASE j = N + 1
    <3>1. b[N + 1] = SetTop(s, y)[N]
      BY <1>1, <1>5
    <3>. QED
      BY <1>3, <1>4, <2>2, <3>1
  <2>3. CASE j # 1 /\ j # N + 1
    <3>1. j - 1 \in 1..N - 1 /\ j - 1 \in 1..N /\ j \in 1..N /\ (j - 1) + 1 = j
      BY <1>1, <2>3
    <3>2. a[j] = u[j] /\ u[(j - 1) + 1] = s[j - 1] /\ b[(j - 1) + 1] = SetTop(s, y)[j - 1]
      BY <1>2, <1>4, <1>5, <3>1
    <3>3. SetTop(s, y)[j - 1] = s[j - 1]
      BY <1>3, <3>1
    <3>. QED
      BY <3>1, <3>2, <3>3
  <2>. QED
    BY <2>1, <2>2, <2>3
<1>7. a = b
  BY <1>4, <1>5, <1>6, SeqSame
<1>8. Last(u) = Last(s)
  <2>1. N \in 1..N /\ u[N + 1] = s[N]
    BY <1>1, <1>2
  <2>. QED
    BY <1>2, <2>1 DEF Last
<1>. QED
  BY <1>7, <1>8 DEF a, b, u

(* The size a brush falls back on is that of the picture before it, which  *)
(* one put under does not change.                                          *)
LEMMA UnderSize ==
  ASSUME NEW s, IsSeq(s), NEW x, NEW brush, NEW options, s # None \/ brush \in Shapes
  PROVE  MeantSize(brush, options, Under(s, x)) = MeantSize(brush, options, s)
<1>1. Under(s, x) # None
  BY UnderIs
<1>2. CASE s # None
  BY <1>1, <1>2, UnderTop DEF MeantSize
<1>3. CASE brush \in Shapes
  BY <1>3, ConvertAssumption DEF MeantSize, SizeFallsBack, ConvertAssumption
<1>. QED
  BY <1>2, <1>3

(* A step that could be taken can be taken with a picture more under scope *)
(* i, when it neither looks at the bottom of the scope nor counts its      *)
(* pictures.                                                               *)
LEMMA ShiftedLegal ==
  ASSUME NEW m, NEW inputs, IsMachine(m, inputs), IsSeq(inputs), NEW step, NEW n, Legal(m, step, n, inputs),
         NEW i \in 1..Len(m.scopes), i <= Len(n.scopes), NEW x, x # None,
         m.scopes[i] # None \/ (step.kind = "generate" /\ step.brush \in Shapes),
         step.kind = "composite" => i # Len(m.scopes)
  PROVE  Legal(Shifted(m, i, x), step, Shifted(n, i, x), inputs)
<1>. DEFINE h == Here(m)
            b == Shifted(m, i, x)
            c == Shifted(n, i, x)
            g == Here(b)
<1>1. /\ Pictured(h) /\ IsSeq(h) /\ h = m.scopes[Len(m.scopes)] /\ Len(m.scopes) \in Nat \ {0}
      /\ (h # None => Len(h) \in Nat \ {0} /\ Last(h) # None)
  BY IsHere
<1>2. g = IF i = Len(m.scopes) THEN Under(h, x) ELSE h
  BY ShiftedHere
<1>3. b.next = m.next /\ Len(b.scopes) = Len(m.scopes) /\ IsMachine(b, inputs)
  BY ShiftedIs
<1>4. m.next \in 1..Len(inputs) + 1 /\ Len(inputs) \in Nat
  BY SeqShape DEF IsMachine
<1>5. ASSUME NEW ps, Pictured(ps), NEW next \in 1..Len(inputs) + 1, n = Puts(m, ps, next),
             NEW qs, qs = IF i = Len(m.scopes) THEN Under(ps, x) ELSE ps
      PROVE  c = Puts(b, qs, next)
  BY <1>5, ShiftedPuts
<1>. HIDE DEF b, c, g, h
<1>6. CASE Rests(m, step, n)
  BY <1>6 DEF Rests, Legal, b, c
<1>7. ASSUME NEW y, y # None
      PROVE  /\ Pictured(Append(h, y))
             /\ Append(g, y) = IF i = Len(m.scopes) THEN Under(Append(h, y), x) ELSE Append(h, y)
  BY <1>1, <1>2, <1>7, PicturedAppend, UnderAppend
<1>8. CASE Decodes(m, step, n, inputs)
  <2>. DEFINE y == Read(inputs[m.next], step.options)
  <2>1. y # None
    BY PicturesAre
  <2>2. m.next + 1 \in 1..Len(inputs) + 1 /\ n = Puts(m, Append(h, y), m.next + 1)
        /\ step.kind = "decode" /\ m.next <= Len(inputs)
    BY <1>4, <1>8 DEF Decodes, h
  <2>. HIDE DEF y
  <2>3. c = Puts(b, Append(g, y), m.next + 1)
    BY <1>5, <1>7, <2>1, <2>2
  <2>4. Decodes(b, step, c, inputs)
    BY <1>3, <2>2, <2>3 DEF Decodes, g, y
  <2>. QED
    BY <2>4 DEF Legal, b, c
<1>9. CASE Generates(m, step, n)
  <2>. DEFINE y == Paint(step.brush, step.options, MeantSize(step.brush, step.options, h))
  <2>1. y # None
    BY PicturesAre
  <2>2. n = Puts(m, Append(h, y), m.next) /\ step.kind = "generate"
    BY <1>9 DEF Generates, h
  <2>3. MeantSize(step.brush, step.options, g) = MeantSize(step.brush, step.options, h)
    BY <1>1, <1>2, UnderSize
  <2>4. c = Puts(b, Append(g, y), m.next)
    <3>. HIDE DEF y
    <3>. QED
      BY <1>4, <1>5, <1>7, <2>1, <2>2
  <2>5. Generates(b, step, c)
    BY <1>3, <2>2, <2>3, <2>4 DEF Generates, g
  <2>. QED
    BY <2>5 DEF Legal, b, c
<1>10. CASE Changes(m, step, n)
  <2>. DEFINE y == Made(step, Last(h))
  <2>1. h # None /\ step.kind \in PlainKinds /\ n = Puts(m, SetTop(h, y), m.next)
    BY <1>10 DEF Changes, h
  <2>2. y # None
    BY <1>1, <2>1, MadeIs
  <2>3. Last(g) = Last(h) /\ g # None
    <3>. HIDE DEF y, h, g
    <3>1. Last(Under(h, x)) = Last(h)
      BY <1>1, <2>1, UnderTop
    <3>2. Under(h, x) # None
      BY <1>1, UnderIs
    <3>. QED
      BY <1>2, <2>1, <3>1, <3>2
  <2>4. Pictured(SetTop(h, y))
    <3>. HIDE DEF y
    <3>. QED
      BY <1>1, <2>1, <2>2, PicturedTop
  <2>5. SetTop(g, y) = IF i = Len(m.scopes) THEN Under(SetTop(h, y), x) ELSE SetTop(h, y)
    <3>. HIDE DEF y
    <3>. QED
      BY <1>1, <1>2, <2>1, UnderTop
  <2>6. c = Puts(b, SetTop(g, y), m.next)
    <3>. HIDE DEF y
    <3>. QED
      BY <1>4, <1>5, <2>1, <2>4, <2>5
  <2>7. Changes(b, step, c)
    BY <1>3, <2>1, <2>3, <2>6 DEF Changes, g
  <2>. QED
    BY <2>7 DEF Legal, b, c
<1>11. CASE Merges(m, step, n)
  <2>. DEFINE ps == <<MeantMerge(h, FALSE, step.options)>>
  <2>1. Pictured(ps)
    BY MergeIs, PicturedOne
  <2>2. i # Len(m.scopes) /\ step.kind = "composite" /\ Len(h) \in 2..4 /\ n = Puts(m, ps, m.next)
    BY <1>11 DEF Merges, h
  <2>3. c = Puts(b, ps, m.next)
    <3>. HIDE DEF ps
    <3>. QED
      BY <1>4, <1>5, <2>1, <2>2
  <2>4. Merges(b, step, c)
    BY <1>2, <1>3, <2>2, <2>3 DEF Merges, g
  <2>. QED
    BY <2>4 DEF Legal, b, c
<1>12. ASSUME IsMachine(n, inputs), NEW d, IsMachine(d, inputs), d.next = n.next, Len(d.scopes) = Len(n.scopes),
              d.scopes[i] = Under(n.scopes[i], x), \A k \in 1..Len(n.scopes) : k # i => d.scopes[k] = n.scopes[k]
       PROVE  c = d
  <2>1. i \in 1..Len(n.scopes)
    <3>1. Len(n.scopes) \in Nat
      BY <1>12, IsHere
    <3>. QED
      BY <3>1
  <2>2. /\ IsMachine(c, inputs) /\ c.next = n.next /\ Len(c.scopes) = Len(n.scopes)
        /\ c.scopes[i] = Under(n.scopes[i], x)
        /\ \A k \in 1..Len(n.scopes) : k # i => c.scopes[k] = n.scopes[k]
    BY <1>12, <2>1, ShiftedIs DEF c
  <2>3. \A k \in 1..Len(c.scopes) : c.scopes[k] = d.scopes[k]
    BY <1>12, <2>2
  <2>. QED
    BY <1>12, <2>2, <2>3, SameMachine
<1>13. CASE Opens(m, step, n)
  <2>. DEFINE d == Machine(Append(b.scopes, None), b.next)
  <2>1. n = Machine(Append(m.scopes, None), m.next) /\ step.kind = "open"
    BY <1>13 DEF Opens
  <2>2. /\ IsMachine(n, inputs) /\ Here(n) = None /\ n.next = m.next
        /\ Len(n.scopes) = Len(m.scopes) + 1
        /\ \A k \in 1..Len(m.scopes) : n.scopes[k] = m.scopes[k]
    BY <2>1, OpenIs, SMTT(30)
  <2>3. /\ IsMachine(d, inputs) /\ Here(d) = None /\ d.next = b.next
        /\ Len(d.scopes) = Len(b.scopes) + 1
        /\ \A k \in 1..Len(b.scopes) : d.scopes[k] = b.scopes[k]
    <3>1. IsMachine(b, inputs)
      BY <1>3
    <3>. HIDE DEF b, c, g, h
    <3>. QED
      BY <3>1, OpenIs
  <2>. HIDE DEF d
  <2>4. d.scopes[Len(m.scopes) + 1] = None /\ n.scopes[Len(m.scopes) + 1] = None
    BY <1>3, <2>2, <2>3 DEF Here, Last
  <2>5. /\ b.scopes[i] = Under(m.scopes[i], x)
        /\ \A k \in 1..Len(m.scopes) : k # i => b.scopes[k] = m.scopes[k]
    BY ShiftedIs DEF b
  <2>6. ASSUME NEW k \in 1..Len(n.scopes), k # i PROVE d.scopes[k] = n.scopes[k]
    <3>1. CASE k = Len(m.scopes) + 1
      BY <2>4, <3>1
    <3>2. CASE k # Len(m.scopes) + 1
      <4>1. k \in 1..Len(m.scopes)
        BY <1>1, <2>2, <3>2
      <4>. QED
        BY <1>3, <2>2, <2>3, <2>5, <2>6, <4>1
    <3>. QED
      BY <3>1, <3>2
  <2>7. d.scopes[i] = Under(n.scopes[i], x)
    BY <1>3, <2>2, <2>3, <2>5
  <2>8. c = d
    BY <1>3, <1>12, <2>2, <2>3, <2>6, <2>7
  <2>9. Opens(b, step, c)
    BY <2>1, <2>8 DEF Opens, d
  <2>. QED
    BY <2>9 DEF Legal, b, c
<1>14. CASE Closes(m, step, n)
  <2>. DEFINE d == Machine(SetTop(Front(b.scopes), Last(Front(b.scopes)) \o Here(b)), b.next)
              L == Len(m.scopes) - 1
  <2>1. n = Machine(SetTop(Front(m.scopes), Last(Front(m.scopes)) \o Here(m)), m.next)
        /\ step.kind = "close" /\ Len(m.scopes) > 1
    BY <1>14 DEF Closes
  <2>2. /\ IsMachine(n, inputs) /\ n.next = m.next
        /\ Len(n.scopes) = L
        /\ \A k \in 1..Len(m.scopes) - 2 : n.scopes[k] = m.scopes[k]
        /\ n.scopes[L] = m.scopes[L] \o m.scopes[Len(m.scopes)]
    <3>. HIDE DEF b, c, g, h, d
    <3>. QED
      BY <2>1, CloseIs, ZenonT(60)
  <2>3. /\ IsMachine(d, inputs) /\ d.next = b.next
        /\ Len(d.scopes) = L
        /\ \A k \in 1..Len(m.scopes) - 2 : d.scopes[k] = b.scopes[k]
        /\ d.scopes[L] = b.scopes[L] \o b.scopes[Len(m.scopes)]
    <3>1. Len(b.scopes) > 1 /\ Len(b.scopes) = Len(m.scopes)
      BY <1>3, <2>1, SMTT(30)
    <3>2. /\ IsMachine(d, inputs) /\ d.next = b.next /\ Len(d.scopes) = Len(b.scopes) - 1
          /\ \A k \in 1..Len(b.scopes) - 2 : d.scopes[k] = b.scopes[k]
          /\ d.scopes[Len(b.scopes) - 1] = b.scopes[Len(b.scopes) - 1] \o b.scopes[Len(b.scopes)]
      <4>1. IsMachine(b, inputs) /\ Len(b.scopes) > 1
        BY <1>3, <3>1
      <4>. HIDE DEF b, c, g, h
      <4>. QED
        BY <4>1, CloseIs, ZenonT(60)
    <3>. HIDE DEF d
    <3>. QED
      BY <3>1, <3>2
  <2>. HIDE DEF d
  <2>4. /\ b.scopes[i] = Under(m.scopes[i], x)
        /\ \A k \in 1..Len(m.scopes) : k # i => b.scopes[k] = m.scopes[k]
    BY ShiftedIs DEF b
  <2>5. L \in 1..Len(m.scopes) /\ Len(m.scopes) # i /\ Len(m.scopes) \in 1..Len(m.scopes)
    BY <1>1, <2>1, <2>2, SMTT(30)
  <2>6. b.scopes[Len(m.scopes)] = m.scopes[Len(m.scopes)] /\ IsSeq(m.scopes[L]) /\ IsSeq(m.scopes[Len(m.scopes)])
    BY <2>4, <2>5 DEF IsMachine, Pictured
  <2>7. ASSUME NEW k \in 1..Len(n.scopes), k # i PROVE d.scopes[k] = n.scopes[k]
    <3>1. CASE k = L
      BY <2>2, <2>3, <2>4, <2>5, <2>6, <2>7, <3>1
    <3>2. CASE k # L
      <4>1. k \in 1..Len(m.scopes) - 2 /\ k \in 1..Len(m.scopes)
        BY <1>1, <2>1, <2>2, <3>2, SMTT(30)
      <4>. QED
        BY <2>2, <2>3, <2>4, <2>7, <4>1
    <3>. QED
      BY <3>1, <3>2, SMTT(30)
  <2>8. d.scopes[i] = Under(n.scopes[i], x)
    <3>1. CASE i = L
      <4>1. d.scopes[i] = Under(m.scopes[i], x) \o m.scopes[Len(m.scopes)]
        BY <2>3, <2>4, <2>6, <3>1
      <4>2. n.scopes[i] = m.scopes[i] \o m.scopes[Len(m.scopes)] /\ IsSeq(m.scopes[i])
        BY <2>2, <2>6, <3>1
      <4>3. Under(m.scopes[i], x) \o m.scopes[Len(m.scopes)] = Under(m.scopes[i] \o m.scopes[Len(m.scopes)], x)
        <5>1. IsSeq(m.scopes[Len(m.scopes)])
          BY <2>6
        <5>2. IsSeq(m.scopes[i])
          BY <4>2
        <5>3. \A s, r : IsSeq(s) /\ IsSeq(r) => Under(s, x) \o r = Under(s \o r, x)
          BY UnderConcat, SMTT(30)
        <5>. QED
          BY <5>1, <5>2, <5>3
      <4>. QED
        BY <4>1, <4>2, <4>3
    <3>2. CASE i # L
      <4>1. i \in 1..Len(m.scopes) - 2
        BY <1>1, <2>1, <2>2, <3>2, SMTT(30)
      <4>. QED
        BY <2>2, <2>3, <2>4, <4>1, SMTT(30)
    <3>. QED
      BY <3>1, <3>2
  <2>9. c = d
    BY <1>3, <1>12, <2>2, <2>3, <2>7, <2>8
  <2>10. Closes(b, step, c)
    BY <1>3, <2>1, <2>9 DEF Closes, d
  <2>. QED
    BY <2>10 DEF Legal, b, c
<1>. QED
  BY <1>6, <1>8, <1>9, <1>10, <1>11, <1>13, <1>14 DEF Legal
-----------------------------------------------------------------------------
(* The machines some steps go through, one before each and one at the end. *)
Trace(t, steps, m, inputs) ==
  /\ IsSeq(t) /\ IsSeq(steps) /\ IsSeq(inputs) /\ Len(t) = Len(steps) + 1 /\ t[1] = m
  /\ \A k \in 1..Len(steps) + 1 : IsMachine(t[k], inputs)
  /\ \A k \in 1..Len(steps) : Legal(t[k], steps[k], t[k + 1], inputs)

(* A trace of no steps.                                                    *)
LEMMA TraceStart ==
  ASSUME NEW m, NEW inputs, IsSeq(inputs), IsMachine(m, inputs)
  PROVE  Trace(<<m>>, None, m, inputs)
<1>1. Len(None) = 0 /\ IsSeq(None) /\ IsSeq(<<m>>) /\ Len(<<m>>) = 1 /\ <<m>>[1] = m
  BY SeqEmpty, SeqOne
<1>. QED
  BY <1>1 DEF Trace

(* One step more.                                                          *)
OneMore(u, r, t, steps, s, n) ==
  /\ Len(steps) \in Nat /\ IsSeq(u) /\ IsSeq(r)
  /\ Len(r) = Len(steps) + 1 /\ Len(u) = Len(steps) + 2
  /\ \A k \in 1..Len(steps) : r[k] = steps[k]
  /\ r[Len(steps) + 1] = s
  /\ \A k \in 1..Len(steps) + 1 : u[k] = t[k]
  /\ u[Len(steps) + 2] = n

(* What a trace of one step more is.                                       *)
LEMMA Longer ==
  ASSUME NEW t, NEW steps, NEW m, NEW inputs, NEW s, NEW n, Trace(t, steps, m, inputs)
  PROVE  OneMore(Append(t, n), Append(steps, s), t, steps, s, n)
<1>1. IsSeq(t) /\ IsSeq(steps) /\ Len(t) = Len(steps) + 1
  BY DEF Trace
<1>2. Len(steps) \in Nat
  BY <1>1, SeqShape
<1>3. /\ IsSeq(Append(steps, s)) /\ Len(Append(steps, s)) = Len(steps) + 1
      /\ \A k \in 1..Len(steps) : Append(steps, s)[k] = steps[k]
      /\ Append(steps, s)[Len(steps) + 1] = s
  BY <1>1, SeqAppend
<1>4. /\ IsSeq(Append(t, n)) /\ Len(Append(t, n)) = Len(t) + 1
      /\ \A k \in 1..Len(t) : Append(t, n)[k] = t[k]
      /\ Append(t, n)[Len(t) + 1] = n
  BY <1>1, SeqAppend
<1>5. Len(t) + 1 = Len(steps) + 2
  BY <1>1, <1>2
<1>. QED
  BY <1>1, <1>2, <1>3, <1>4, <1>5 DEF OneMore

(* A step that can be taken makes the trace one longer.                    *)
LEMMA TraceOn ==
  ASSUME NEW t, NEW steps, NEW m, NEW inputs, NEW s, NEW n, Trace(t, steps, m, inputs),
         Legal(t[Len(steps) + 1], s, n, inputs)
  PROVE  Trace(Append(t, n), Append(steps, s), m, inputs)
<1>. DEFINE N == Len(steps)
            u == Append(t, n)
            r == Append(steps, s)
<1>1. /\ N \in Nat /\ IsSeq(u) /\ IsSeq(r) /\ Len(r) = N + 1 /\ Len(u) = N + 2
      /\ \A k \in 1..N : r[k] = steps[k]
      /\ r[N + 1] = s
      /\ \A k \in 1..N + 1 : u[k] = t[k]
      /\ u[N + 2] = n
  <2>1. OneMore(u, r, t, steps, s, n)
    BY Longer
  <2>. HIDE DEF u, r
  <2>. QED
    BY <2>1 DEF OneMore
<1>2. /\ IsSeq(inputs) /\ t[1] = m
      /\ \A k \in 1..N + 1 : IsMachine(t[k], inputs)
      /\ \A k \in 1..N : Legal(t[k], steps[k], t[k + 1], inputs)
  BY DEF Trace
<1>3. IsMachine(n, inputs)
  <2>1. IsMachine(t[N + 1], inputs)
    BY <1>1, <1>2
  <2>. QED
    BY <1>2, <2>1, LegalIs
<1>4. Legal(t[N + 1], s, n, inputs)
  OBVIOUS
<1>. HIDE DEF u, r, N
<1>5. ASSUME NEW k \in 1..N + 2 PROVE IsMachine(u[k], inputs)
  <2>1. CASE k = N + 2
    BY <1>1, <1>3, <2>1
  <2>2. CASE k # N + 2
    <3>1. k \in 1..N + 1
      BY <1>1, <2>2
    <3>. QED
      BY <1>1, <1>2, <3>1
  <2>. QED
    BY <2>1, <2>2
<1>6. ASSUME NEW k \in 1..N + 1 PROVE Legal(u[k], r[k], u[k + 1], inputs)
  <2>1. CASE k = N + 1
    <3>1. u[k] = t[N + 1] /\ r[k] = s /\ u[k + 1] = n
      BY <1>1, <2>1
    <3>. QED
      BY <1>4, <3>1
  <2>2. CASE k # N + 1
    <3>1. k \in 1..N /\ k \in 1..N + 1 /\ k + 1 \in 1..N + 1
      BY <1>1, <2>2, SMTT(30)
    <3>2. u[k] = t[k] /\ r[k] = steps[k] /\ u[k + 1] = t[k + 1]
      BY <1>1, <3>1
    <3>. QED
      BY <1>2, <3>1, <3>2
  <2>. QED
    BY <2>1, <2>2
<1>7. u[1] = m
  BY <1>1, <1>2
<1>8. Trace(u, r, m, inputs)
  <2>1. Len(r) + 1 = N + 2 /\ Len(u) = Len(r) + 1
    BY <1>1
  <2>. QED
    BY <1>1, <1>2, <1>5, <1>6, <1>7, <2>1 DEF Trace
<1>. QED
  BY <1>8 DEF u, r

(* One more input than the steps use.                                      *)
LEMMA TraceMore ==
  ASSUME NEW t, NEW steps, NEW m, NEW inputs, NEW file, Trace(t, steps, m, inputs)
  PROVE  Trace(t, steps, m, Append(inputs, file))
<1>. DEFINE more == Append(inputs, file)
<1>1. IsSeq(inputs) /\ Len(inputs) \in Nat
  BY SeqShape DEF Trace
<1>2. IsSeq(more) /\ Len(more) = Len(inputs) + 1 /\ \A k \in 1..Len(inputs) : more[k] = inputs[k]
  BY <1>1, SeqAppend
<1>. HIDE DEF more
<1>3. ASSUME NEW k \in 1..Len(steps) + 1 PROVE IsMachine(t[k], more)
  <2>1. IsMachine(t[k], inputs)
    BY DEF Trace
  <2>2. t[k].next \in 1..Len(more) + 1
    BY <1>1, <1>2, <2>1 DEF IsMachine
  <2>. QED
    BY <2>1, <2>2 DEF IsMachine
<1>4. ASSUME NEW k \in 1..Len(steps) PROVE Legal(t[k], steps[k], t[k + 1], more)
  <2>1. Legal(t[k], steps[k], t[k + 1], inputs)
    BY DEF Trace
  <2>2. CASE Decodes(t[k], steps[k], t[k + 1], inputs)
    <3>1. k \in 1..Len(steps) + 1
      BY SeqShape DEF Trace
    <3>2. t[k].next \in 1..Len(inputs) + 1
      BY <3>1 DEF Trace, IsMachine
    <3>3. t[k].next <= Len(inputs)
      BY <2>2 DEF Decodes
    <3>4. t[k].next \in 1..Len(inputs) /\ t[k].next <= Len(more)
      BY <1>1, <1>2, <3>2, <3>3
    <3>5. more[t[k].next] = inputs[t[k].next]
      BY <1>2, <3>4
    <3>6. Decodes(t[k], steps[k], t[k + 1], more)
      BY <2>2, <3>4, <3>5 DEF Decodes
    <3>. QED
      BY <3>6 DEF Legal
  <2>3. CASE ~Decodes(t[k], steps[k], t[k + 1], inputs)
    BY <2>1, <2>3 DEF Legal
  <2>. QED
    BY <2>2, <2>3
<1>. QED
  BY <1>2, <1>3, <1>4 DEF Trace, more
-----------------------------------------------------------------------------
(* The steps that made the first picture of parenthesis i, a shape: one    *)
(* that paints it where there is nothing and some that change it, after    *)
(* which the parenthesis is never left nor empty, nor merged.              *)
Leads == [begin : Nat, end : Nat, shape : BOOLEAN]
EndOf(lead, N) == IF lead.end = 0 THEN N ELSE lead.end
Stays(t, steps, i, k) ==
  /\ Len(t[k].scopes) >= i /\ Len(t[k + 1].scopes) >= i /\ t[k + 1].scopes[i] # None
  /\ steps[k].kind = "composite" => Len(t[k].scopes) > i
Paints(step) == step.kind = "generate" /\ step.brush \in Shapes
ShapeFits(t, steps, lead, i) ==
  /\ lead.begin \in 1..EndOf(lead, Len(steps)) /\ EndOf(lead, Len(steps)) <= Len(steps)
  /\ Paints(steps[lead.begin])
  /\ Len(t[lead.begin].scopes) = i /\ t[lead.begin].scopes[i] = None
  /\ t[EndOf(lead, Len(steps)) + 1]
       = Puts(t[lead.begin], <<t[Len(steps) + 1].scopes[i][1]>>, t[lead.begin].next)
  /\ \A k \in lead.begin..Len(steps) : Stays(t, steps, i, k)

(* A lead that has ended still fits after any step that leaves its picture *)
(* where it is.                                                            *)
LEMMA ShapeStays ==
  ASSUME NEW t, NEW steps, NEW m, NEW inputs, NEW s, NEW n, Trace(t, steps, m, inputs),
         Legal(t[Len(steps) + 1], s, n, inputs), NEW lead \in Leads, NEW i \in Nat \ {0},
         ShapeFits(t, steps, lead, i), lead.end # 0, i <= Len(n.scopes),
         i = Len(t[Len(steps) + 1].scopes) => s.kind # "composite" /\ (s.kind \in PlainKinds => Len(t[Len(steps) + 1].scopes[i]) >= 2)
  PROVE  ShapeFits(Append(t, n), Append(steps, s), lead, i)
<1>. DEFINE N == Len(steps)
            u == Append(t, n)
            r == Append(steps, s)
            last == t[N + 1]
            b == lead.begin
            e == lead.end
<1>1. /\ N \in Nat /\ IsSeq(u) /\ IsSeq(r) /\ Len(r) = N + 1 /\ Len(u) = N + 2
      /\ \A k \in 1..N : r[k] = steps[k]
      /\ r[N + 1] = s
      /\ \A k \in 1..N + 1 : u[k] = t[k]
      /\ u[N + 2] = n
  <2>1. OneMore(u, r, t, steps, s, n)
    BY Longer
  <2>. HIDE DEF u, r
  <2>. QED
    BY <2>1 DEF OneMore
<1>2. e \in Nat /\ b \in Nat /\ EndOf(lead, N) = e /\ EndOf(lead, N + 1) = e
  BY DEF Leads, EndOf
<1>3. /\ b \in 1..e /\ e <= N /\ Paints(steps[b])
      /\ Len(t[b].scopes) = i /\ t[b].scopes[i] = None
      /\ t[e + 1] = Puts(t[b], <<last.scopes[i][1]>>, t[b].next)
      /\ \A k \in b..N : Stays(t, steps, i, k)
  BY <1>2 DEF ShapeFits
<1>4. IsMachine(last, inputs) /\ IsSeq(inputs) /\ Legal(last, s, n, inputs)
  BY <1>1 DEF Trace
<1>5. Stays(t, steps, i, N)
  BY <1>1, <1>2, <1>3, SMTT(30)
<1>6. Len(last.scopes) \in Nat /\ i \in 1..Len(last.scopes) /\ last.scopes[i] # None
  <2>1. Len(last.scopes) \in Nat
    BY <1>4, IsHere
  <2>. QED
    BY <1>5, <2>1 DEF Stays
<1>7. i = Len(last.scopes) => s.kind # "composite" /\ (s.kind \in PlainKinds => Len(last.scopes[i]) >= 2)
  OBVIOUS
<1>. HIDE DEF u, r, last, N
<1>8. n.scopes[i] # None /\ n.scopes[i][1] = last.scopes[i][1]
  BY <1>4, <1>6, <1>7, FirstStays, SMTT(30)
<1>9. u[N + 1] = last /\ u[N + 2] = n /\ (N + 1) + 1 = N + 2
  BY <1>1 DEF last
<1>10. ASSUME NEW k \in b..N + 1 PROVE Stays(u, r, i, k)
  <2>1. CASE k = N + 1
    <3>1. s.kind = "composite" => Len(last.scopes) > i
      BY <1>6, <1>7
    <3>2. Len(last.scopes) >= i
      BY <1>6
    <3>3. u[k] = last /\ u[k + 1] = n /\ r[k] = s
      BY <1>1, <1>9, <2>1
    <3>. QED
      BY <1>8, <3>1, <3>2, <3>3 DEF Stays
  <2>2. CASE k # N + 1
    <3>1. k \in b..N /\ k \in 1..N /\ k \in 1..N + 1 /\ k + 1 \in 1..N + 1
      BY <1>1, <1>2, <1>3, <2>2
    <3>2. u[k] = t[k] /\ u[k + 1] = t[k + 1] /\ r[k] = steps[k]
      BY <1>1, <3>1
    <3>3. Stays(t, steps, i, k)
      BY <1>3, <3>1
    <3>. QED
      BY <3>2, <3>3 DEF Stays
  <2>. QED
    BY <2>1, <2>2
<1>11. b \in 1..N + 1 /\ e + 1 \in 1..N + 1 /\ b \in 1..N
  BY <1>1, <1>2, <1>3, SMTT(30)
<1>12. u[b] = t[b] /\ u[e + 1] = t[e + 1] /\ r[b] = steps[b]
  BY <1>1, <1>11
<1>13. /\ Len(r) = N + 1 /\ (N + 1) + 1 = N + 2 /\ u[N + 2].scopes[i][1] = last.scopes[i][1]
       /\ e <= N + 1
  BY <1>1, <1>2, <1>3, <1>8
<1>14. ShapeFits(u, r, lead, i)
  BY <1>2, <1>3, <1>10, <1>12, <1>13 DEF ShapeFits
<1>. QED
  BY <1>14 DEF u, r

(* They end where another picture starts.                                  *)
LEMMA ShapeEnds ==
  ASSUME NEW t, NEW steps, NEW i, Len(steps) \in Nat, NEW lead \in Leads, NEW done \in Leads,
         ShapeFits(t, steps, lead, i), lead.end = 0, done.begin = lead.begin, done.end = Len(steps)
  PROVE  ShapeFits(t, steps, done, i) /\ done.end # 0
<1>1. EndOf(lead, Len(steps)) = Len(steps)
  BY DEF EndOf
<1>2. done.end # 0 /\ EndOf(done, Len(steps)) = Len(steps)
  BY <1>1 DEF ShapeFits, EndOf, Leads
<1>. QED
  BY <1>1, <1>2 DEF ShapeFits

(* A shape painted first.                                                  *)
LEMMA ShapeStarts ==
  ASSUME NEW t, NEW steps, NEW m, NEW inputs, NEW s, NEW n, NEW lead,
         Trace(t, steps, m, inputs), Paints(s), Generates(t[Len(steps) + 1], s, n),
         Here(t[Len(steps) + 1]) = None,
         lead \in Leads, lead.begin = Len(steps) + 1, lead.end = 0
  PROVE  ShapeFits(Append(t, n), Append(steps, s), lead, Len(t[Len(steps) + 1].scopes))
<1>. DEFINE N == Len(steps)
            u == Append(t, n)
            r == Append(steps, s)
            last == t[N + 1]
            i == Len(last.scopes)
            y == Paint(s.brush, s.options, MeantSize(s.brush, s.options, Here(last)))
<1>1. /\ N \in Nat /\ IsSeq(u) /\ IsSeq(r) /\ Len(r) = N + 1 /\ Len(u) = N + 2
      /\ \A k \in 1..N : r[k] = steps[k]
      /\ r[N + 1] = s
      /\ \A k \in 1..N + 1 : u[k] = t[k]
      /\ u[N + 2] = n
  <2>1. OneMore(u, r, t, steps, s, n)
    BY Longer
  <2>. HIDE DEF u, r
  <2>. QED
    BY <2>1 DEF OneMore
<1>2. IsMachine(last, inputs)
  BY <1>1 DEF Trace
<1>3. i \in Nat \ {0} /\ Here(last) = last.scopes[i] /\ Here(last) = None
  BY <1>2, IsHere
<1>4. n = Puts(last, Append(None, y), last.next)
  BY <1>3 DEF Generates
<1>5. y # None
  BY PicturesAre
<1>. HIDE DEF y
<1>6. Append(None, y) = <<y>> /\ Pictured(<<y>>) /\ <<y>>[1] = y /\ <<y>> # None
  <2>1. Len(<<y>>) = 1 /\ IsSeq(<<y>>) /\ <<y>>[1] = y
    BY SeqOne
  <2>. QED
    BY <1>5, <2>1, PicturedOne, SeqShape DEF None
<1>7. n = Puts(last, <<y>>, last.next)
  BY <1>4, <1>6
<1>8. last.next \in 1..Len(inputs) + 1
  BY <1>2, SMTT(30) DEF IsMachine
<1>9. Len(n.scopes) = i /\ n.scopes[i] = <<y>>
  BY <1>2, <1>6, <1>7, <1>8, PutsIs, SMTT(30)
<1>. HIDE DEF u, r, last, N, i
<1>10. lead.begin = N + 1 /\ EndOf(lead, N + 1) = N + 1 /\ Generates(last, s, n)
  BY DEF EndOf, N, last
<1>11. u[N + 1] = last /\ u[N + 2] = n /\ r[N + 1] = s /\ N + 1 \in 1..N + 1 /\ (N + 1) + 1 = N + 2
  BY <1>1 DEF last
<1>12. s.kind # "composite"
  BY <1>10 DEF Generates
<1>13. Stays(u, r, i, N + 1)
  BY <1>3, <1>6, <1>9, <1>11, <1>12, SMTT(30) DEF Stays, i
<1>14. \A k \in N + 1..N + 1 : k = N + 1
  BY <1>1
<1>15. u[EndOf(lead, Len(r)) + 1] = Puts(u[N + 1], <<u[Len(r) + 1].scopes[i][1]>>, u[N + 1].next)
  BY <1>1, <1>6, <1>7, <1>9, <1>10, <1>11
<1>16. Len(last.scopes) = i /\ last.scopes[i] = None
  BY <1>3 DEF i
<1>17. lead.begin \in 1..EndOf(lead, Len(r)) /\ EndOf(lead, Len(r)) <= Len(r)
  BY <1>1, <1>10
<1>18. \A k \in lead.begin..Len(r) : Stays(u, r, i, k)
  BY <1>1, <1>10, <1>13, <1>14
<1>19. ShapeFits(u, r, lead, i)
  BY <1>10, <1>11, <1>15, <1>16, <1>17, <1>18 DEF ShapeFits
<1>. QED
  BY <1>19 DEF u, r, last, N, i

(* And changed while it is the only one.                                   *)
LEMMA ShapeGrows ==
  ASSUME NEW t, NEW steps, NEW m, NEW inputs, NEW s, NEW n, NEW lead,
         Trace(t, steps, m, inputs), Changes(t[Len(steps) + 1], s, n),
         Len(Here(t[Len(steps) + 1])) = 1, lead \in Leads, lead.end = 0,
         ShapeFits(t, steps, lead, Len(t[Len(steps) + 1].scopes))
  PROVE  ShapeFits(Append(t, n), Append(steps, s), lead, Len(t[Len(steps) + 1].scopes))
<1>. DEFINE N == Len(steps)
            u == Append(t, n)
            r == Append(steps, s)
            last == t[N + 1]
            i == Len(last.scopes)
            b == lead.begin
            y == Made(s, Last(Here(last)))
<1>1. /\ N \in Nat /\ IsSeq(u) /\ IsSeq(r) /\ Len(r) = N + 1 /\ Len(u) = N + 2
      /\ \A k \in 1..N : r[k] = steps[k]
      /\ r[N + 1] = s
      /\ \A k \in 1..N + 1 : u[k] = t[k]
      /\ u[N + 2] = n
  <2>1. OneMore(u, r, t, steps, s, n)
    BY Longer
  <2>. HIDE DEF u, r
  <2>. QED
    BY <2>1 DEF OneMore
<1>2. IsMachine(last, inputs)
  BY <1>1 DEF Trace
<1>3. /\ i \in Nat \ {0} /\ Here(last) = last.scopes[i] /\ Len(Here(last)) = 1 /\ Here(last) # None
      /\ IsSeq(Here(last)) /\ Last(Here(last)) # None
  <2>1. Here(last) # None
    BY DEF Changes
  <2>. QED
    BY <1>2, <2>1, IsHere
<1>4. n = Puts(last, SetTop(Here(last), y), last.next) /\ s.kind \in PlainKinds
  BY DEF Changes
<1>5. y # None
  BY <1>3, MadeIs
<1>. HIDE DEF y
<1>6. SetTop(Here(last), y) = <<y>> /\ Pictured(<<y>>) /\ <<y>>[1] = y /\ <<y>> # None
  <2>1. Len(<<y>>) = 1 /\ IsSeq(<<y>>) /\ <<y>>[1] = y
    BY SeqOne
  <2>2. /\ IsSeq(SetTop(Here(last), y)) /\ Len(SetTop(Here(last), y)) = 1
        /\ SetTop(Here(last), y)[1] = y
    <3>. DEFINE h == Here(last)
    <3>1. IsSeq(h) /\ Len(h) = 1 /\ Len(h) >= 1
      BY <1>3
    <3>. HIDE DEF h
    <3>2. IsSeq(SetTop(h, y)) /\ Len(SetTop(h, y)) = Len(h) /\ SetTop(h, y)[Len(h)] = y
      BY <3>1, SeqTop, ZenonT(60)
    <3>3. IsSeq(SetTop(h, y)) /\ Len(SetTop(h, y)) = 1 /\ SetTop(h, y)[1] = y
      BY <3>1, <3>2
    <3>. QED
      BY <3>3 DEF h
  <2>3. \A k \in 1..1 : SetTop(Here(last), y)[k] = <<y>>[k]
    BY <2>1, <2>2
  <2>4. SetTop(Here(last), y) = <<y>>
    BY <2>1, <2>2, <2>3, SeqSame
  <2>5. <<y>> # None
    BY SeqOne
  <2>. QED
    BY <1>5, <2>1, <2>4, <2>5, PicturedOne
<1>7. n = Puts(last, <<y>>, last.next)
  BY <1>4, <1>6
<1>8. last.next \in 1..Len(inputs) + 1
  BY <1>2 DEF IsMachine
<1>9. Len(n.scopes) = i /\ n.scopes[i] = <<y>> /\ n.next = last.next /\ IsMachine(n, inputs)
      /\ \A k \in 1..i - 1 : n.scopes[k] = last.scopes[k]
  BY <1>2, <1>6, <1>7, <1>8, PutsIs, SMTT(30)
<1>. HIDE DEF u, r
<1>10. /\ b \in 1..N /\ Paints(steps[b])
       /\ Len(t[b].scopes) = i /\ t[b].scopes[i] = None
       /\ last = Puts(t[b], <<last.scopes[i][1]>>, t[b].next)
       /\ \A k \in b..N : Stays(t, steps, i, k)
  <2>1. EndOf(lead, N) = N
    BY DEF EndOf
  <2>. QED
    BY <2>1 DEF ShapeFits
<1>. HIDE DEF N, last, i
<1>11. b \in Nat /\ b \in 1..N + 1 /\ IsMachine(t[b], inputs) /\ EndOf(lead, N + 1) = N + 1
  BY <1>1, <1>10 DEF EndOf, Trace, N, Leads
<1>12. n = Puts(t[b], <<y>>, t[b].next)
  <2>1. last.scopes[i][1] # None
    <3>1. 1 \in 1..Len(last.scopes[i])
      BY <1>3
    <3>2. Pictured(last.scopes[i])
      BY <1>2, <1>3 DEF IsMachine, i
    <3>. QED
      BY <3>1, <3>2 DEF Pictured
  <2>2. Pictured(<<last.scopes[i][1]>>) /\ t[b].next \in 1..Len(inputs) + 1
    BY <1>11, <2>1, PicturedOne DEF IsMachine
  <2>3. last.next = t[b].next
    BY <1>10 DEF Puts, Machine
  <2>. DEFINE q == <<last.scopes[i][1]>>
              m0 == t[b]
  <2>4. last = Puts(m0, q, m0.next) /\ Pictured(q) /\ IsMachine(m0, inputs) /\ m0.next \in 1..Len(inputs) + 1
        /\ n = Puts(last, <<y>>, m0.next)
    BY <1>7, <1>10, <1>11, <2>2, <2>3
  <2>. HIDE DEF q, m0
  <2>5. n = Puts(m0, <<y>>, m0.next)
    BY <1>6, <2>4, PutsPuts
  <2>. QED
    BY <2>5 DEF m0
<1>13. u[N + 1] = last /\ u[N + 2] = n /\ r[N + 1] = s /\ u[b] = t[b] /\ r[b] = steps[b]
       /\ N + 1 \in 1..N + 1 /\ (N + 1) + 1 = N + 2
  BY <1>1, <1>10, <1>11 DEF last
<1>14. s.kind # "composite"
  BY <1>4 DEF PlainKinds
<1>15. Stays(u, r, i, N + 1)
  <2>1. Len(last.scopes) = i
    BY DEF i
  <2>2. Len(last.scopes) >= i /\ Len(n.scopes) >= i
    BY <1>3, <1>9, <2>1
  <2>3. n.scopes[i] # None
    BY <1>6, <1>9
  <2>. QED
    BY <1>13, <1>14, <2>2, <2>3 DEF Stays
<1>16. ASSUME NEW k \in b..N + 1 PROVE Stays(u, r, i, k)
  <2>1. CASE k = N + 1
    BY <1>15, <2>1
  <2>2. CASE k # N + 1
    <3>1. k \in b..N /\ k \in 1..N /\ k \in 1..N + 1 /\ k + 1 \in 1..N + 1
      BY <1>1, <1>10, <1>11, <2>2
    <3>2. u[k] = t[k] /\ u[k + 1] = t[k + 1] /\ r[k] = steps[k]
      BY <1>1, <3>1
    <3>3. Stays(t, steps, i, k)
      BY <1>10, <3>1, SMTT(30)
    <3>. QED
      BY <3>2, <3>3 DEF Stays
  <2>. QED
    BY <2>1, <2>2
<1>17. ShapeFits(u, r, lead, i)
  <2>1. N + 1 <= N + 1 /\ Len(r) = N + 1
    BY <1>1
  <2>2. n.scopes[i][1] = y
    BY <1>6, <1>9
  <2>3. u[EndOf(lead, Len(r)) + 1] = Puts(u[b], <<u[Len(r) + 1].scopes[i][1]>>, u[b].next)
    BY <1>11, <1>12, <1>13, <2>1, <2>2
  <2>. QED
    BY <1>10, <1>11, <1>13, <1>16, <2>1, <2>3 DEF ShapeFits
<1>. QED
  BY <1>17 DEF u, r, last, N, i
-----------------------------------------------------------------------------
(* The steps read so far, with what they have made of nothing: the         *)
(* pictures held, and the leads that are shapes where the parser has them. *)
Start == Machine(<<None>>, 1)
Shaped(leads, t, steps) ==
  \A i \in 1..Len(leads) :
    /\ leads[i] \in Leads /\ leads[i].end <= Len(steps)
    /\ leads[i].shape => ShapeFits(t, steps, leads[i], i)
Nested(leads) ==
  \A i, j \in 1..Len(leads) :
    i < j /\ leads[i].shape /\ leads[j].shape => leads[i].end < leads[j].begin
Follows(t, steps, inputs, held, leads) ==
  /\ Trace(t, steps, Start, inputs)
  /\ t[Len(steps) + 1].scopes = held
  /\ IsSeq(leads) /\ Len(leads) = Len(held)
  /\ Shaped(leads, t, steps) /\ Nested(leads)

(* What a lead may be after a step: none, the one there was, of a picture  *)
(* the step is not about, or a new one.                                    *)
SameLead(lead, i, s, held, leads) ==
  /\ i <= Len(held) /\ lead = leads[i] /\ lead.end # 0
  /\ i = Len(held) => s.kind # "composite" /\ (s.kind \in PlainKinds => Len(held[i]) >= 2)
NewLead(lead, i, u, r, held, leads, held2) ==
  /\ i = Len(held2) /\ lead \in Leads /\ lead.end <= Len(r)
  /\ lead.shape => /\ ShapeFits(u, r, lead, i)
                   /\ \/ lead.begin = Len(r)
                      \/ i <= Len(held) /\ leads[i].shape /\ lead.begin = leads[i].begin

(* What a way to the pictures held says of the machine at its end.         *)
LEMMA FollowsIs ==
  ASSUME NEW t, NEW steps, NEW inputs, NEW held, NEW leads, Follows(t, steps, inputs, held, leads)
  PROVE  /\ IsMachine(t[Len(steps) + 1], inputs) /\ Len(steps) \in Nat /\ IsSeq(steps) /\ IsSeq(inputs)
         /\ t[Len(steps) + 1] = Machine(held, t[Len(steps) + 1].next)
         /\ IsSeq(held) /\ Len(held) \in Nat \ {0} /\ Here(t[Len(steps) + 1]) = held[Len(held)]
         /\ \A i \in 1..Len(held) : Pictured(held[i]) /\ IsSeq(held[i])
<1>1. IsSeq(steps) /\ IsSeq(inputs) /\ \A k \in 1..Len(steps) + 1 : IsMachine(t[k], inputs)
  BY DEF Follows, Trace
<1>2. Len(steps) \in Nat
  BY <1>1, SeqShape
<1>3. Len(steps) + 1 \in 1..Len(steps) + 1
  BY <1>2
<1>4. IsMachine(t[Len(steps) + 1], inputs) /\ t[Len(steps) + 1].scopes = held
  BY <1>1, <1>3 DEF Follows
<1>5. /\ t[Len(steps) + 1] = Machine(held, t[Len(steps) + 1].next) /\ IsSeq(held)
      /\ \A i \in 1..Len(held) : Pictured(held[i])
  BY <1>4 DEF IsMachine
<1>6. Len(held) \in Nat \ {0} /\ Here(t[Len(steps) + 1]) = held[Len(held)]
  BY <1>4, IsHere
<1>. QED
  BY <1>1, <1>2, <1>4, <1>5, <1>6 DEF Pictured

(* A step more is a way to what it holds, with leads that are gone, the    *)
(* same, or new and fitting.                                               *)
LEMMA FollowsOn ==
  ASSUME NEW t, NEW steps, NEW inputs, NEW held, NEW leads, Follows(t, steps, inputs, held, leads),
         NEW s, NEW n, Legal(t[Len(steps) + 1], s, n, inputs),
         NEW held2, n.scopes = held2, NEW leads2, IsSeq(leads2), Len(leads2) = Len(held2),
         \A i \in 1..Len(held2) :
           \/ leads2[i] = NoLead
           \/ SameLead(leads2[i], i, s, held, leads)
           \/ NewLead(leads2[i], i, Append(t, n), Append(steps, s), held, leads, held2)
  PROVE  Follows(Append(t, n), Append(steps, s), inputs, held2, leads2)
<1>. DEFINE N == Len(steps)
            u == Append(t, n)
            r == Append(steps, s)
            last == t[N + 1]
<1>1. /\ N \in Nat /\ IsSeq(u) /\ IsSeq(r) /\ Len(r) = N + 1 /\ Len(u) = N + 2
      /\ u[N + 2] = n
  <2>1. OneMore(u, r, t, steps, s, n)
    BY Longer DEF Follows
  <2>. HIDE DEF u, r
  <2>. QED
    BY <2>1 DEF OneMore
<1>2. Trace(t, steps, Start, inputs) /\ Trace(u, r, Start, inputs)
  <2>1. Trace(t, steps, Start, inputs) /\ Legal(t[Len(steps) + 1], s, n, inputs)
    BY DEF Follows
  <2>. QED
    BY <2>1, TraceOn
<1>3. last.scopes = held /\ Len(leads) = Len(held) /\ Len(held) \in Nat \ {0}
  BY FollowsIs DEF Follows
<1>4. Len(held2) \in Nat \ {0}
  <2>1. IsMachine(u[N + 2], inputs)
    <3>. HIDE DEF u, r
    <3>. QED
      BY <1>1, <1>2 DEF Trace
  <2>. QED
    BY <1>1, <2>1, IsHere
<1>5. NoLead \in Leads /\ ~NoLead.shape /\ NoLead.end = 0
  BY DEF NoLead, Leads
<1>. DEFINE Old(i) == SameLead(leads2[i], i, s, held, leads)
            New(i) == NewLead(leads2[i], i, u, r, held, leads, held2)
<1>6. \A i \in 1..Len(held2) : leads2[i] = NoLead \/ Old(i) \/ New(i)
  OBVIOUS
<1>7. Legal(last, s, n, inputs)
  OBVIOUS
<1>8. \A i \in 1..Len(held) : leads[i] \in Leads /\ leads[i].end <= N /\ (leads[i].shape => ShapeFits(t, steps, leads[i], i))
  BY <1>3 DEF Follows, Shaped
<1>. HIDE DEF Old, New, N, last
<1>9. ASSUME NEW i \in 1..Len(held2), Old(i)
      PROVE  /\ i \in 1..Len(held) /\ leads2[i] = leads[i] /\ leads2[i] \in Leads /\ leads2[i].end <= N
             /\ leads2[i].shape => ShapeFits(u, r, leads2[i], i)
  <2>1. /\ i \in 1..Len(held) /\ leads2[i] = leads[i] /\ leads[i].end # 0 /\ i \in Nat \ {0}
        /\ i = Len(held) => s.kind # "composite" /\ (s.kind \in PlainKinds => Len(held[i]) >= 2)
    BY <1>3, <1>4, <1>9 DEF Old, SameLead
  <2>2. leads[i] \in Leads /\ leads[i].end <= N /\ (leads[i].shape => ShapeFits(t, steps, leads[i], i))
    BY <1>8, <2>1
  <2>3. ASSUME leads[i].shape PROVE ShapeFits(u, r, leads[i], i)
    <3>1. ShapeFits(t, steps, leads[i], i) /\ i <= Len(n.scopes)
      BY <1>4, <2>2, <2>3
    <3>2. i = Len(t[Len(steps) + 1].scopes) =>
            s.kind # "composite" /\ (s.kind \in PlainKinds => Len(t[Len(steps) + 1].scopes[i]) >= 2)
      BY <1>3, <2>1 DEF last, N
    <3>3. Legal(t[Len(steps) + 1], s, n, inputs)
      OBVIOUS
    <3>. QED
      BY <1>2, <2>1, <2>2, <3>1, <3>2, <3>3, ShapeStays
  <2>. QED
    BY <2>1, <2>2, <2>3
<1>10. ASSUME NEW i \in 1..Len(held2), New(i)
       PROVE  /\ i = Len(held2) /\ leads2[i] \in Leads /\ leads2[i].end <= N + 1
              /\ leads2[i].shape => ShapeFits(u, r, leads2[i], i)
              /\ leads2[i].shape => \/ leads2[i].begin = N + 1
                                    \/ i <= Len(held) /\ leads[i].shape /\ leads2[i].begin = leads[i].begin
  BY <1>1, <1>10 DEF New, NewLead
<1>11. Shaped(leads2, u, r)
  <2>. SUFFICES ASSUME NEW i \in 1..Len(held2)
                PROVE  /\ leads2[i] \in Leads /\ leads2[i].end <= N + 1
                       /\ leads2[i].shape => ShapeFits(u, r, leads2[i], i)
    BY <1>1 DEF Shaped
  <2>1. CASE leads2[i] = NoLead
    BY <1>1, <1>5, <2>1
  <2>2. CASE Old(i)
    <3>1. /\ leads2[i] \in Leads /\ leads2[i].end <= N
          /\ leads2[i].shape => ShapeFits(u, r, leads2[i], i)
      BY <1>9, <2>2
    <3>2. leads2[i].end \in Nat
      BY <3>1 DEF Leads
    <3>3. leads2[i].end <= N + 1
      BY <1>1, <3>1, <3>2
    <3>. QED
      BY <3>1, <3>3
  <2>3. CASE New(i)
    BY <1>10, <2>3
  <2>. QED
    BY <1>6, <2>1, <2>2, <2>3
<1>12. Nested(leads2)
  <2>. SUFFICES ASSUME NEW i \in 1..Len(held2), NEW j \in 1..Len(held2), i < j, leads2[i].shape, leads2[j].shape
                PROVE  leads2[i].end < leads2[j].begin
    BY DEF Nested
  <2>1. Old(i)
    <3>1. i # Len(held2)
      BY <1>4
    <3>. QED
      BY <1>5, <1>6, <1>10, <3>1
  <2>2. i \in 1..Len(held) /\ leads2[i] = leads[i] /\ leads[i] \in Leads /\ leads[i].end <= N
    BY <1>9, <2>1
  <2>3. leads[i].end \in Nat /\ leads[i].shape
    BY <2>2 DEF Leads
  <2>4. ASSUME j <= Len(held), leads[j].shape PROVE leads[i].end < leads[j].begin
    <3>1. j \in 1..Len(leads) /\ i \in 1..Len(leads)
      BY <1>3, <1>4, <2>2, <2>4
    <3>. QED
      BY <2>3, <2>4, <3>1 DEF Follows, Nested
  <2>5. CASE Old(j)
    <3>1. j \in 1..Len(held) /\ leads2[j] = leads[j]
      BY <1>9, <2>5
    <3>. QED
      BY <1>3, <2>2, <2>4, <3>1
  <2>6. CASE New(j)
    <3>1. leads2[j].begin = N + 1 \/ (j <= Len(held) /\ leads[j].shape /\ leads2[j].begin = leads[j].begin)
      BY <1>10, <2>6
    <3>2. CASE leads2[j].begin = N + 1
      BY <1>1, <2>2, <2>3, <3>2, SMTT(30)
    <3>3. CASE j <= Len(held) /\ leads[j].shape /\ leads2[j].begin = leads[j].begin
      BY <2>2, <2>4, <3>3
    <3>. QED
      BY <3>1, <3>2, <3>3
  <2>. QED
    BY <1>5, <1>6, <2>5, <2>6
<1>13. u[Len(r) + 1].scopes = held2
  <2>1. Len(r) + 1 = N + 2
    BY <1>1
  <2>. QED
    BY <1>1, <2>1
<1>. HIDE DEF u, r
<1>14. Follows(u, r, inputs, held2, leads2)
  BY <1>2, <1>11, <1>12, <1>13 DEF Follows
<1>. QED
  BY <1>14 DEF u, r

(* The parser closes the lead of a picture when another one starts.        *)
LEMMA FollowsEnds ==
  ASSUME NEW t, NEW steps, NEW inputs, NEW held, NEW leads, Follows(t, steps, inputs, held, leads),
         NEW done \in Leads, leads[Len(held)].end = 0,
         done.begin = leads[Len(held)].begin, done.end = Len(steps), done.shape = leads[Len(held)].shape
  PROVE  Follows(t, steps, inputs, held, SetTop(leads, done))
<1>. DEFINE L == Len(held)
            after == SetTop(leads, done)
<1>1. Len(steps) \in Nat /\ L \in Nat \ {0}
  BY FollowsIs
<1>2. IsSeq(leads) /\ Len(leads) = L /\ Len(leads) >= 1
  BY <1>1 DEF Follows
<1>3. /\ IsSeq(after) /\ Len(after) = L /\ after[L] = done
      /\ \A i \in 1..L - 1 : after[i] = leads[i]
  BY <1>2, SeqTop
<1>. HIDE DEF after
<1>4. ASSUME NEW i \in 1..L PROVE i = L \/ i \in 1..L - 1
  BY <1>1
<1>5. leads[L] \in Leads /\ (leads[L].shape => ShapeFits(t, steps, leads[L], L))
  BY <1>1, <1>2 DEF Follows, Shaped
<1>6. done.shape => ShapeFits(t, steps, done, L)
  BY <1>1, <1>5, ShapeEnds
<1>7. Shaped(after, t, steps)
  <2>. SUFFICES ASSUME NEW i \in 1..L
                PROVE  /\ after[i] \in Leads /\ after[i].end <= Len(steps)
                       /\ after[i].shape => ShapeFits(t, steps, after[i], i)
    BY <1>3 DEF Shaped
  <2>1. CASE i = L
    BY <1>1, <1>3, <1>6, <2>1
  <2>2. CASE i \in 1..L - 1
    BY <1>2, <1>3, <2>2 DEF Follows, Shaped
  <2>. QED
    BY <1>4, <2>1, <2>2
<1>8. Nested(after)
  <2>. SUFFICES ASSUME NEW i \in 1..L, NEW j \in 1..L, i < j, after[i].shape, after[j].shape
                PROVE  after[i].end < after[j].begin
    BY <1>3 DEF Nested
  <2>1. i \in 1..L - 1
    BY <1>1
  <2>2. after[i] = leads[i] /\ after[j].shape = leads[j].shape /\ after[j].begin = leads[j].begin
    BY <1>3, <1>4, <2>1
  <2>. QED
    BY <1>2, <2>2 DEF Follows, Nested
<1>. QED
  BY <1>3, <1>7, <1>8 DEF Follows, after, L
-----------------------------------------------------------------------------
(* The steps of a shape run once more after themselves, and the copy loses *)
(* its pixels.                                                             *)
Nil == [kind |-> "nil", options |-> None]
Twice(steps, b, e) ==
  SubSeq(steps, 1, b - 1) \o Append(SubSeq(steps, b, e), Nil) \o SubSeq(steps, b, Len(steps))

(* The elements of the steps that paint a shape twice.                     *)
LEMMA TwiceIs ==
  ASSUME NEW steps, IsSeq(steps), NEW b \in 1..Len(steps), NEW e \in b..Len(steps),
         NEW w \in Nat, w = e - b + 2
  PROVE  /\ IsSeq(Twice(steps, b, e)) /\ Len(Twice(steps, b, e)) = Len(steps) + w
         /\ w \in Nat /\ Len(steps) \in Nat
         /\ \A k \in 1..e : Twice(steps, b, e)[k] = steps[k]
         /\ Twice(steps, b, e)[e + 1] = Nil
         /\ \A k \in e + 2..Len(steps) + w : Twice(steps, b, e)[k] = steps[k - w]
<1>. DEFINE N == Len(steps)
            A == SubSeq(steps, 1, b - 1)
            B == SubSeq(steps, b, e)
            C == SubSeq(steps, b, N)
            D == Append(B, Nil)
            AD == A \o D
            r == AD \o C
<1>1. N \in Nat /\ b \in Nat \ {0} /\ e \in Nat /\ b <= e /\ e <= N /\ b - 1 \in Nat /\ b - 1 <= N /\ w \in Nat
  BY SeqShape
<1>2. IsSeq(A) /\ Len(A) = b - 1 /\ \A k \in 1..b - 1 : A[k] = steps[k]
  <2>1. /\ IsSeq(A) /\ Len(A) = (IF 1 <= b - 1 THEN b - 1 - 1 + 1 ELSE 0)
        /\ \A k \in 1..b - 1 - 1 + 1 : A[k] = steps[1 + k - 1]
    <3>1. 1 \in Nat \ {0}
      OBVIOUS
    <3>. QED
      BY <1>1, <3>1, SeqSub
  <2>. HIDE DEF A
  <2>2. b - 1 - 1 + 1 = b - 1 /\ \A k \in 1..b - 1 : 1 + k - 1 = k
    BY <1>1
  <2>. QED
    BY <1>1, <2>1, <2>2
<1>3. IsSeq(B) /\ Len(B) = e - b + 1 /\ \A k \in 1..e - b + 1 : B[k] = steps[b + k - 1]
  BY <1>1, SeqSub, ZenonT(60)
<1>4. IsSeq(C) /\ Len(C) = N - b + 1 /\ \A k \in 1..N - b + 1 : C[k] = steps[b + k - 1]
  <2>1. N <= Len(steps)
    BY <1>1
  <2>. QED
    BY <1>1, <2>1, SeqSub, SMTT(30)
<1>. HIDE DEF A, B, C
<1>5. /\ IsSeq(D) /\ Len(D) = w /\ D[w] = Nil
      /\ \A k \in 1..w - 1 : D[k] = steps[b + k - 1]
  <2>1. /\ IsSeq(D) /\ Len(D) = Len(B) + 1 /\ D[Len(B) + 1] = Nil
        /\ \A k \in 1..Len(B) : D[k] = B[k]
    BY <1>3, SeqAppend
  <2>2. Len(B) + 1 = w /\ Len(B) = w - 1
    BY <1>1, <1>3
  <2>. QED
    BY <1>3, <2>1, <2>2
<1>. HIDE DEF D
<1>6. /\ IsSeq(AD) /\ Len(AD) = e + 1
      /\ \A k \in 1..b - 1 : AD[k] = A[k]
      /\ \A k \in 1..w : AD[b - 1 + k] = D[k]
  <2>1. b - 1 + w = e + 1
    BY <1>1
  <2>2. /\ IsSeq(AD) /\ Len(AD) = Len(A) + Len(D)
        /\ \A k \in 1..Len(A) : AD[k] = A[k]
        /\ \A k \in 1..Len(D) : AD[Len(A) + k] = D[k]
    <3>1. Concats(AD, A, D)
      BY <1>2, <1>5, SeqConcats
    <3>. HIDE DEF AD
    <3>. QED
      BY <3>1 DEF Concats
  <2>. HIDE DEF AD
  <2>. QED
    BY <1>2, <1>5, <2>1, <2>2
<1>. HIDE DEF AD
<1>7. /\ IsSeq(r) /\ Len(r) = e + 1 + (N - b + 1)
      /\ \A k \in 1..e + 1 : r[k] = AD[k]
      /\ \A k \in 1..N - b + 1 : r[e + 1 + k] = C[k]
  <2>1. /\ IsSeq(r) /\ Len(r) = Len(AD) + Len(C)
        /\ \A k \in 1..Len(AD) : r[k] = AD[k]
        /\ \A k \in 1..Len(C) : r[Len(AD) + k] = C[k]
    <3>1. Concats(r, AD, C)
      BY <1>4, <1>6, SeqConcats
    <3>. HIDE DEF r
    <3>. QED
      BY <3>1 DEF Concats
  <2>. HIDE DEF r
  <2>. QED
    BY <1>4, <1>6, <2>1
<1>. HIDE DEF r
<1>8. Len(r) = N + w
  BY <1>1, <1>7
<1>9. ASSUME NEW k \in 1..e PROVE r[k] = steps[k]
  <2>1. r[k] = AD[k]
    BY <1>1, <1>7
  <2>2. CASE k <= b - 1
    <3>1. k \in 1..b - 1
      BY <1>1, <2>2
    <3>. QED
      BY <1>2, <1>6, <2>1, <3>1
  <2>3. CASE ~(k <= b - 1)
    <3>1. k - (b - 1) \in 1..w - 1 /\ k - (b - 1) \in 1..w /\ b - 1 + (k - (b - 1)) = k
          /\ b + (k - (b - 1)) - 1 = k
      BY <1>1, <2>3
    <3>2. AD[b - 1 + (k - (b - 1))] = D[k - (b - 1)] /\ D[k - (b - 1)] = steps[b + (k - (b - 1)) - 1]
      BY <1>5, <1>6, <3>1
    <3>. QED
      BY <2>1, <3>1, <3>2
  <2>. QED
    BY <2>2, <2>3
<1>10. r[e + 1] = Nil
  <2>1. e + 1 \in 1..e + 1 /\ w \in 1..w /\ b - 1 + w = e + 1
    BY <1>1
  <2>2. AD[b - 1 + w] = D[w]
    BY <1>6, <2>1
  <2>. QED
    BY <1>5, <1>7, <2>1, <2>2
<1>11. ASSUME NEW k \in e + 2..N + w PROVE r[k] = steps[k - w]
  <2>1. k - (e + 1) \in 1..N - b + 1 /\ e + 1 + (k - (e + 1)) = k /\ b + (k - (e + 1)) - 1 = k - w
    BY <1>1
  <2>2. r[e + 1 + (k - (e + 1))] = C[k - (e + 1)] /\ C[k - (e + 1)] = steps[b + (k - (e + 1)) - 1]
    BY <1>4, <1>7, <2>1
  <2>. QED
    BY <2>1, <2>2
<1>12. r = Twice(steps, b, e)
  BY DEF r, AD, A, B, C, D, N, Twice
<1>. QED
  BY <1>1, <1>7, <1>8, <1>9, <1>10, <1>11, <1>12

(* The lead of the innermost parenthesis is a shape, from b to e, with     *)
(* nothing after it but colours.                                           *)
Repeatable(t, steps, inputs, held, leads, N, L, b, e, w) ==
  /\ N = Len(steps) /\ L = Len(held) /\ b \in 1..N /\ e \in b..N /\ w = e - b + 2
  /\ Follows(t, steps, inputs, held, leads)
  /\ Paints(steps[b]) /\ Len(t[b].scopes) = L /\ t[b].scopes[L] = None
  /\ t[e + 1] = Puts(t[b], <<held[L][1]>>, t[b].next)
  /\ \A k \in b..N : Stays(t, steps, L, k)
  /\ \A i \in 1..L - 1 : leads[i].shape => leads[i].end # 0 /\ leads[i].end < b

(* A shape made twice: the same machines up to its end, and from there the *)
(* ones there were from its beginning, with the clear copy under what is   *)
(* made again.                                                             *)
LEMMA FollowsTwice ==
  ASSUME NEW t, NEW steps, NEW inputs, NEW held, NEW leads, NEW N, NEW L, NEW b, NEW e, NEW w,
         Repeatable(t, steps, inputs, held, leads, N, L, b, e, w)
  PROVE  \E u : /\ Follows(u, Twice(steps, b, e), inputs,
                           SetTop(held, Under(held[L], Clear(held[L][1]))), SetTop(leads, NoLead))
                /\ u[Len(Twice(steps, b, e)) + 1].next = t[N + 1].next
<1>0. Follows(t, steps, inputs, held, leads) /\ N = Len(steps) /\ L = Len(held)
  BY DEF Repeatable
<1>. DEFINE r == Twice(steps, b, e)
            q == held[L][1]
            x == Clear(q)
            u == [k \in 1..N + w + 1 |-> IF k <= e + 1 THEN t[k] ELSE Shifted(t[k - w], L, x)]
            held2 == SetTop(held, Under(held[L], x))
            leads2 == SetTop(leads, NoLead)
<1>1. /\ N \in Nat /\ IsSeq(steps) /\ IsSeq(inputs) /\ IsSeq(held) /\ L \in Nat \ {0} /\ L >= 1
      /\ Len(leads) = L /\ IsSeq(leads) /\ t[N + 1].scopes = held
  BY <1>0, FollowsIs DEF Follows
<1>2. /\ IsSeq(t) /\ Len(t) = N + 1 /\ t[1] = Start
      /\ \A k \in 1..N + 1 : IsMachine(t[k], inputs)
      /\ \A k \in 1..N : Legal(t[k], steps[k], t[k + 1], inputs)
  BY <1>0 DEF Follows, Trace
<1>4. /\ Paints(steps[b]) /\ Len(t[b].scopes) = L /\ t[b].scopes[L] = None
      /\ t[e + 1] = Puts(t[b], <<q>>, t[b].next)
      /\ \A k \in b..N : Stays(t, steps, L, k)
      /\ \A i \in 1..L - 1 : leads[i].shape => leads[i].end # 0 /\ leads[i].end < b
  BY DEF Repeatable
<1>5. b \in 1..N /\ e \in b..N /\ w = e - b + 2
  BY DEF Repeatable
<1>3. b \in Nat /\ e \in Nat /\ w \in Nat /\ 1 <= b /\ b <= e /\ e <= N /\ b \in 1..e /\ w = e - b + 2 /\ N \in Nat
  BY <1>1, <1>5
<1>6. /\ IsSeq(r) /\ Len(r) = N + w /\ w \in Nat
      /\ \A k \in 1..e : r[k] = steps[k]
      /\ r[e + 1] = Nil
      /\ \A k \in e + 2..N + w : r[k] = steps[k - w]
  <2>. DEFINE n == Len(steps)
  <2>1. n = N /\ b \in 1..Len(steps) /\ e \in b..Len(steps)
    BY <1>0, <1>5
  <2>2. /\ IsSeq(Twice(steps, b, e)) /\ Len(Twice(steps, b, e)) = n + w
        /\ \A k \in 1..e : Twice(steps, b, e)[k] = steps[k]
        /\ Twice(steps, b, e)[e + 1] = Nil
        /\ \A k \in e + 2..n + w : Twice(steps, b, e)[k] = steps[k - w]
    <3>1. IsSeq(steps) /\ b \in 1..Len(steps) /\ e \in b..Len(steps) /\ w = e - b + 2 /\ w \in Nat
      BY <1>1, <1>3, <1>5, <2>1
    <3>2. \A v \in Nat : v = e - b + 2 =>
             /\ IsSeq(Twice(steps, b, e)) /\ Len(Twice(steps, b, e)) = Len(steps) + v
             /\ \A k \in 1..e : Twice(steps, b, e)[k] = steps[k]
             /\ Twice(steps, b, e)[e + 1] = Nil
             /\ \A k \in e + 2..Len(steps) + v : Twice(steps, b, e)[k] = steps[k - v]
      <4>. SUFFICES ASSUME NEW v \in Nat, v = e - b + 2
                    PROVE  /\ IsSeq(Twice(steps, b, e)) /\ Len(Twice(steps, b, e)) = Len(steps) + v
                           /\ \A k \in 1..e : Twice(steps, b, e)[k] = steps[k]
                           /\ Twice(steps, b, e)[e + 1] = Nil
                           /\ \A k \in e + 2..Len(steps) + v : Twice(steps, b, e)[k] = steps[k - v]
        OBVIOUS
      <4>. HIDE DEF n
      <4>. QED
        BY <3>1, TwiceIs, ZenonT(60)
    <3>. QED
      BY <3>1, <3>2
  <2>. HIDE DEF n
  <2>. QED
    BY <1>3, <2>1, <2>2
<1>7. x # None /\ q # None
  <2>1. x # None
    BY PicturesAre DEF Clear
  <2>2. Stays(t, steps, L, N) /\ N \in b..N
    <3>1. N \in b..N
      BY <1>3
    <3>. QED
      BY <1>4, <3>1
  <2>3. t[N + 1].scopes[L] # None
    BY <2>2 DEF Stays
  <2>4. Pictured(held[L]) /\ held[L] # None
    <3>1. Pictured(held[L])
      <4>1. \A i \in 1..Len(held) : Pictured(held[i])
        BY <1>0, FollowsIs
      <4>. QED
        BY <1>0, <1>1, <4>1
    <3>. QED
      BY <1>1, <2>3, <3>1
  <2>5. Len(held[L]) \in Nat \ {0} /\ 1 \in 1..Len(held[L])
    BY <2>4, SeqShape DEF Pictured
  <2>. QED
    BY <2>1, <2>4, <2>5 DEF Pictured
<1>. HIDE DEF r, x, q
<1>8. ASSUME NEW k \in 1..e + 1 PROVE u[k] = t[k] /\ k \in 1..N + 1
  BY <1>3
<1>9. ASSUME NEW j \in b..N + 1 PROVE u[j + w] = Shifted(t[j], L, x) /\ j + w \in e + 2..N + w + 1 /\ j \in 1..N + 1
  <2>1. j + w \in 1..N + w + 1 /\ ~(j + w <= e + 1) /\ (j + w) - w = j /\ j + w \in e + 2..N + w + 1 /\ j \in 1..N + 1
    BY <1>3
  <2>. QED
    BY <2>1
<1>10. ASSUME NEW k \in e + 2..N + w + 1 PROVE k - w \in b..N + 1 /\ (k - w) + w = k
  BY <1>3
<1>11. Len(u) = N + w + 1 /\ IsSeq(u)
  <2>. DEFINE S == {u[k] : k \in 1..N + w + 1}
  <2>1. u \in [1..N + w + 1 -> S] /\ N + w + 1 \in Nat
    <3>1. N + w + 1 \in Nat
      BY <1>3
    <3>. QED
      BY <3>1
  <2>2. u \in Seq(S) /\ Len(u) = N + w + 1
    BY <2>1
  <2>. HIDE DEF S, u
  <2>. QED
    BY <2>2, SeqIs
<1>. HIDE DEF u
(* What was so of the machines from the shape's beginning on. *)
<1>12. ASSUME NEW j \in b..N + 1
       PROVE  /\ IsMachine(t[j], inputs) /\ L \in 1..Len(t[j].scopes) /\ Len(t[j].scopes) \in Nat
              /\ j # b => t[j].scopes[L] # None
  <2>1. IsMachine(t[j], inputs) /\ Len(t[j].scopes) \in Nat \ {0}
    BY <1>2, <1>9, IsHere
  <2>2. Len(t[j].scopes) >= L /\ (j # b => t[j].scopes[L] # None)
    <3>1. CASE j = b
      BY <1>4, <1>1, <3>1
    <3>2. CASE j # b
      <4>1. j - 1 \in b..N /\ (j - 1) + 1 = j
        BY <1>1, <1>3, <3>2
      <4>2. Stays(t, steps, L, j - 1)
        BY <1>4, <4>1
      <4>. QED
        BY <4>1, <4>2 DEF Stays
    <3>. QED
      BY <3>1, <3>2
  <2>. QED
    BY <1>1, <2>1, <2>2
<1>13. ASSUME NEW j \in b..N + 1
       PROVE  /\ IsMachine(u[j + w], inputs) /\ u[j + w].next = t[j].next
              /\ Len(u[j + w].scopes) = Len(t[j].scopes)
              /\ u[j + w].scopes[L] = Under(t[j].scopes[L], x)
              /\ \A i \in 1..Len(t[j].scopes) : i # L => u[j + w].scopes[i] = t[j].scopes[i]
  <2>1. IsMachine(t[j], inputs) /\ L \in 1..Len(t[j].scopes) /\ u[j + w] = Shifted(t[j], L, x)
    BY <1>9, <1>12
  <2>. QED
    BY <1>7, <2>1, ShiftedIs
<1>14. ASSUME NEW k \in 1..N + w + 1 PROVE IsMachine(u[k], inputs)
  <2>1. CASE k <= e + 1
    <3>1. k \in 1..e + 1
      BY <1>3, <2>1
    <3>. QED
      BY <1>2, <1>8, <3>1
  <2>2. CASE ~(k <= e + 1)
    <3>1. k \in e + 2..N + w + 1
      BY <1>1, <1>3, <1>6, <2>2
    <3>. QED
      BY <1>10, <1>13, <3>1
  <2>. QED
    BY <2>1, <2>2
(* The step that clears the first of the two. *)
<1>15. b \in b..N + 1 /\ b + w = e + 2 /\ IsMachine(t[b], inputs) /\ t[b].next \in 1..Len(inputs) + 1
  <2>1. b \in b..N + 1 /\ b + w = e + 2
    BY <1>1, <1>3, <1>5
  <2>. QED
    BY <1>12, <2>1 DEF IsMachine
<1>16. u[e + 2] = Puts(t[b], <<x>>, t[b].next)
  <2>. DEFINE c == Puts(t[b], <<x>>, t[b].next)
  <2>1. Pictured(<<x>>)
    BY <1>7, PicturedOne
  <2>2. /\ IsMachine(c, inputs) /\ c.next = t[b].next /\ Len(c.scopes) = L /\ c.scopes[L] = <<x>>
        /\ \A i \in 1..L - 1 : c.scopes[i] = t[b].scopes[i]
    <3>. DEFINE m0 == t[b]
                qs == <<x>>
    <3>1. IsMachine(m0, inputs) /\ Pictured(qs) /\ m0.next \in 1..Len(inputs) + 1 /\ Len(m0.scopes) = L
      BY <1>4, <1>15, <2>1
    <3>. HIDE DEF m0, qs
    <3>2. /\ IsMachine(Puts(m0, qs, m0.next), inputs) /\ Puts(m0, qs, m0.next).next = m0.next
          /\ Len(Puts(m0, qs, m0.next).scopes) = L /\ Puts(m0, qs, m0.next).scopes[L] = qs
          /\ \A i \in 1..L - 1 : Puts(m0, qs, m0.next).scopes[i] = m0.scopes[i]
      BY <3>1, PutsIs, SMTT(30)
    <3>. QED
      BY <3>2 DEF m0, qs
  <2>. HIDE DEF c
  <2>3. Under(None, x) = <<x>>
    <3>1. <<x>> \in Seq({x})
      OBVIOUS
    <3>. QED
      BY <3>1, ConcatEmptySeq DEF Under, None
  <2>4. /\ IsMachine(u[e + 2], inputs) /\ u[e + 2].next = t[b].next /\ Len(u[e + 2].scopes) = L
        /\ u[e + 2].scopes[L] = <<x>>
        /\ \A i \in 1..L : i # L => u[e + 2].scopes[i] = t[b].scopes[i]
    BY <1>4, <1>13, <1>15, <2>3, ZenonT(60)
  <2>5. ASSUME NEW i \in 1..L PROVE u[e + 2].scopes[i] = c.scopes[i]
    <3>1. i = L \/ (i \in 1..L - 1 /\ i # L)
      BY <1>1
    <3>. QED
      BY <2>2, <2>4, <3>1
  <2>6. u[e + 2] = c
    BY <2>2, <2>4, <2>5, SameMachine
  <2>. QED
    BY <2>6 DEF c
<1>17. Legal(u[e + 1], r[e + 1], u[e + 2], inputs)
  <2>1. u[e + 1] = t[e + 1] /\ e + 1 \in 1..e + 1
    <3>1. e + 1 \in 1..e + 1
      BY <1>3
    <3>. QED
      BY <1>8, <3>1
  <2>2. Pictured(<<q>>) /\ Pictured(<<x>>)
    BY <1>7, PicturedOne
  <2>3. Here(t[e + 1]) = <<q>> /\ t[e + 1].next = t[b].next
    BY <1>4, <1>15, <2>2, PutsIs
  <2>4. Puts(t[e + 1], <<x>>, t[b].next) = Puts(t[b], <<x>>, t[b].next)
    <3>. DEFINE m0 == t[b]
                ps == <<q>>
                qs == <<x>>
    <3>1. IsMachine(m0, inputs) /\ Pictured(ps) /\ Pictured(qs) /\ m0.next \in 1..Len(inputs) + 1
          /\ t[e + 1] = Puts(m0, ps, m0.next)
      BY <1>4, <1>15, <2>2
    <3>. HIDE DEF m0, ps, qs
    <3>2. Puts(t[e + 1], qs, m0.next) = Puts(m0, qs, m0.next)
      BY <3>1, PutsPuts
    <3>. QED
      BY <3>2 DEF m0, qs
  <2>5. Nil.kind = "nil" /\ Nil.kind \in PlainKinds /\ Made(Nil, q) = x
    BY DEF Nil, PlainKinds, Made, Clear, x
  <2>6. SetTop(<<q>>, x) = <<x>> /\ Last(<<q>>) = q /\ <<q>> # None
    <3>1. IsSeq(<<q>>) /\ Len(<<q>>) = 1 /\ <<q>>[1] = q /\ <<q>> # None
      BY SeqOne
    <3>2. IsSeq(<<x>>) /\ Len(<<x>>) = 1 /\ <<x>>[1] = x
      BY SeqOne
    <3>. DEFINE h == <<q>>
    <3>3. IsSeq(h) /\ Len(h) >= 1 /\ Len(h) = 1
      BY <3>1
    <3>. HIDE DEF h
    <3>4. IsSeq(SetTop(h, x)) /\ Len(SetTop(h, x)) = Len(h) /\ SetTop(h, x)[Len(h)] = x
      BY <3>3, SeqTop
    <3>5. Len(SetTop(h, x)) = 1 /\ SetTop(h, x)[1] = x
      BY <3>3, <3>4
    <3>6. \A i \in 1..1 : SetTop(h, x)[i] = <<x>>[i]
      BY <3>2, <3>5
    <3>7. SetTop(h, x) = <<x>>
      BY <3>2, <3>4, <3>5, <3>6, SeqSame
    <3>. QED
      BY <3>1, <3>7 DEF h, Last
  <2>7. Changes(u[e + 1], Nil, u[e + 2])
    BY <1>16, <2>1, <2>3, <2>4, <2>5, <2>6 DEF Changes
  <2>. QED
    BY <1>6, <2>7 DEF Legal
<1>18. ASSUME NEW j \in b..N
       PROVE  Legal(u[j + w], steps[j], u[(j + 1) + w], inputs)
  <2>1. j \in b..N + 1 /\ j + 1 \in b..N + 1 /\ j \in 1..N
    BY <1>1, <1>3, <1>5
  <2>2. Legal(t[j], steps[j], t[j + 1], inputs) /\ IsMachine(t[j], inputs)
    BY <1>2, <1>12, <2>1
  <2>3. L \in 1..Len(t[j].scopes) /\ L <= Len(t[j + 1].scopes)
    BY <1>12, <2>1
  <2>4. Stays(t, steps, L, j)
    BY <1>4
  <2>5. steps[j].kind = "composite" => L # Len(t[j].scopes)
    BY <1>12, <2>1, <2>4 DEF Stays
  <2>6. t[j].scopes[L] # None \/ (steps[j].kind = "generate" /\ steps[j].brush \in Shapes)
    BY <1>4, <1>12, <2>1 DEF Paints
  <2>7. Legal(Shifted(t[j], L, x), steps[j], Shifted(t[j + 1], L, x), inputs)
    BY <1>1, <1>7, <2>2, <2>3, <2>5, <2>6, ShiftedLegal
  <2>. QED
    BY <1>9, <2>1, <2>7
<1>19. ASSUME NEW k \in 1..N + w PROVE Legal(u[k], r[k], u[k + 1], inputs)
  <2>1. CASE k <= e
    <3>1. k \in 1..e /\ k \in 1..e + 1 /\ k + 1 \in 1..e + 1 /\ k \in 1..N
      BY <1>1, <1>3, <1>5, <2>1
    <3>. QED
      BY <1>2, <1>6, <1>8, <3>1
  <2>2. CASE k = e + 1
    <3>1. k + 1 = e + 2
      BY <1>3, <2>2
    <3>. QED
      BY <1>17, <2>2, <3>1
  <2>3. CASE ~(k <= e) /\ k # e + 1
    <3>1. k \in e + 2..N + w /\ k - w \in b..N /\ (k - w) + w = k /\ ((k - w) + 1) + w = k + 1
      <4>1. k \in e + 2..N + w
        BY <1>1, <1>3, <1>6, <2>3, SMTT(30)
      <4>. QED
        BY <1>1, <1>3, <1>5, <1>6, <4>1
    <3>2. Legal(u[(k - w) + w], steps[k - w], u[((k - w) + 1) + w], inputs)
      BY <1>18, <3>1
    <3>3. r[k] = steps[k - w]
      BY <1>6, <3>1
    <3>. QED
      BY <3>1, <3>2, <3>3
  <2>. QED
    BY <2>1, <2>2, <2>3
<1>20. Trace(u, r, Start, inputs)
  <2>1. u[1] = Start /\ Len(r) + 1 = N + w + 1
    <3>1. 1 \in 1..e + 1
      BY <1>3
    <3>. QED
      BY <1>1, <1>2, <1>6, <1>8, <3>1
  <2>. QED
    BY <1>1, <1>6, <1>11, <1>14, <1>19, <2>1 DEF Trace
<1>21. N + 1 \in b..N + 1 /\ (N + 1) + w = N + w + 1 /\ Len(r) + 1 = N + w + 1
  <2>1. N + 1 \in b..N + 1 /\ (N + 1) + w = N + w + 1
    BY <1>3
  <2>. QED
    BY <1>6, <2>1
<1>22. u[N + w + 1].next = t[N + 1].next
  BY <1>13, <1>21
<1>23. /\ IsSeq(held2) /\ Len(held2) = L /\ held2[L] = Under(held[L], x)
       /\ \A i \in 1..L - 1 : held2[i] = held[i]
  <2>. DEFINE y == Under(held[L], x)
  <2>. HIDE DEF y
  <2>1. held2 = SetTop(held, y)
    BY DEF y
  <2>2. /\ IsSeq(SetTop(held, y)) /\ Len(SetTop(held, y)) = Len(held) /\ SetTop(held, y)[Len(held)] = y
        /\ \A i \in 1..Len(held) - 1 : SetTop(held, y)[i] = held[i]
    <3>1. IsSeq(held) /\ Len(held) >= 1
      BY <1>0, <1>1
    <3>. QED
      BY <3>1, SeqTop
  <2>3. Len(held) = L
    BY <1>0
  <2>. HIDE DEF held2
  <2>. QED
    BY <2>1, <2>2, <2>3 DEF y
<1>24. u[N + w + 1].scopes = held2
  <2>. DEFINE sc == u[N + w + 1].scopes
  <2>. HIDE DEF held2
  <2>1. Len(sc) = L /\ IsSeq(sc) /\ sc[L] = Under(held[L], x) /\ \A i \in 1..L : i # L => sc[i] = held[i]
    <3>. DEFINE m == u[N + w + 1]
                m0 == t[N + 1]
    <3>1. /\ IsMachine(m, inputs) /\ Len(m.scopes) = Len(m0.scopes)
          /\ m.scopes[L] = Under(m0.scopes[L], x)
          /\ \A i \in 1..Len(m0.scopes) : i # L => m.scopes[i] = m0.scopes[i]
      BY <1>13, <1>21, SMTT(30)
    <3>2. m0.scopes = held /\ Len(held) = L
      BY <1>0, <1>1
    <3>. HIDE DEF m, m0
    <3>3. IsSeq(m.scopes)
      BY <3>1 DEF IsMachine
    <3>4. Len(m.scopes) = L /\ IsSeq(m.scopes) /\ m.scopes[L] = Under(held[L], x)
          /\ \A i \in 1..L : i # L => m.scopes[i] = held[i]
      BY <3>1, <3>2, <3>3
    <3>. QED
      BY <3>4 DEF m
  <2>. HIDE DEF sc
  <2>2. ASSUME NEW i \in 1..L PROVE sc[i] = held2[i]
    <3>1. i = L \/ (i \in 1..L - 1 /\ i # L)
      BY <1>1
    <3>. QED
      BY <1>23, <2>1, <3>1
  <2>3. sc = held2
    BY <1>23, <2>1, <2>2, SeqSame
  <2>. QED
    BY <2>3 DEF sc
<1>. HIDE DEF held2
<1>25. /\ IsSeq(leads2) /\ Len(leads2) = L /\ leads2[L] = NoLead
       /\ \A i \in 1..L - 1 : leads2[i] = leads[i]
  BY <1>1, SeqTop, SMTT(30)
<1>. HIDE DEF leads2
<1>26. \A i \in 1..L : i = L \/ i \in 1..L - 1
  BY <1>1
(* The parentheses around it. *)
<1>27. ASSUME NEW i \in 1..L - 1, leads[i].shape PROVE ShapeFits(u, r, leads[i], i)
  <2>. DEFINE a == leads[i].begin
              z == leads[i].end
  <2>1. leads[i] \in Leads /\ ShapeFits(t, steps, leads[i], i) /\ z # 0 /\ z < b
    <3>1. i \in 1..L /\ L \in 1..L /\ i < L
      BY <1>1
    <3>2. leads[i] \in Leads /\ ShapeFits(t, steps, leads[i], i)
      <4>1. \A k \in 1..Len(leads) : leads[k] \in Leads /\ (leads[k].shape => ShapeFits(t, steps, leads[k], k))
        BY <1>0 DEF Follows, Shaped
      <4>. QED
        BY <1>1, <1>27, <3>1, <4>1
    <3>. QED
      BY <1>4, <1>27, <3>2
  <2>2. EndOf(leads[i], N) = z /\ EndOf(leads[i], N + w) = z /\ a \in Nat /\ z \in Nat
    BY <2>1 DEF EndOf, Leads
  <2>. HIDE DEF a, z
  <2>3. /\ a \in 1..z /\ z <= N /\ Paints(steps[a])
        /\ Len(t[a].scopes) = i /\ t[a].scopes[i] = None
        /\ t[z + 1] = Puts(t[a], <<held[i][1]>>, t[a].next)
        /\ \A k \in a..N : Stays(t, steps, i, k)
    <3>. DEFINE last == t[N + 1]
                l == leads[i]
    <3>1. /\ l.begin \in 1..EndOf(l, Len(steps)) /\ EndOf(l, Len(steps)) <= Len(steps) /\ Paints(steps[l.begin])
          /\ Len(t[l.begin].scopes) = i /\ t[l.begin].scopes[i] = None
          /\ t[EndOf(l, Len(steps)) + 1]
               = Puts(t[l.begin], <<t[Len(steps) + 1].scopes[i][1]>>, t[l.begin].next)
          /\ \A k \in l.begin..Len(steps) : Stays(t, steps, i, k)
      BY <2>1 DEF ShapeFits
    <3>2. EndOf(l, Len(steps)) = z /\ Len(steps) = N /\ t[Len(steps) + 1].scopes = held /\ l.begin = a
      BY <1>0, <1>1, <2>2 DEF a
    <3>. HIDE DEF l
    <3>. QED
      BY <3>1, <3>2
  <2>4. a \in 1..e /\ a \in 1..e + 1 /\ z + 1 \in 1..e + 1 /\ z <= N + w /\ i \in Nat /\ i < L
    BY <1>1, <1>3, <1>4, <1>6, <2>1, <2>2, <2>3
  <2>5. u[a] = t[a] /\ u[z + 1] = t[z + 1] /\ r[a] = steps[a]
    BY <1>6, <1>8, <2>4
  <2>6. u[N + w + 1].scopes[i] = held[i]
    BY <1>23, <1>24
  <2>7. ASSUME NEW k \in a..N + w PROVE Stays(u, r, i, k)
    <3>1. CASE k <= e
      <4>1. k \in 1..e /\ k \in 1..e + 1 /\ k + 1 \in 1..e + 1 /\ k \in a..N
        BY <1>1, <1>3, <1>5, <2>2, <2>3, <3>1
      <4>2. u[k] = t[k] /\ u[k + 1] = t[k + 1] /\ r[k] = steps[k]
        BY <1>6, <1>8, <4>1
      <4>3. Stays(t, steps, i, k)
        BY <2>3, <4>1
      <4>. QED
        BY <4>2, <4>3 DEF Stays
    <3>2. CASE k = e + 1
      <4>1. e + 1 \in 1..e + 1 /\ e + 1 \in b..N + 1 /\ k + 1 = e + 2
        BY <1>1, <1>3, <1>4, <1>5, <3>2
      <4>2. u[k] = t[e + 1] /\ Len(t[e + 1].scopes) >= i
        BY <1>8, <1>12, <2>4, <3>2, <4>1, SMTT(30)
      <4>3. b - 1 \in a..N /\ (b - 1) + 1 = b
        BY <1>1, <1>3, <1>5, <2>1, <2>2, <2>3, SMTT(30)
      <4>4. Stays(t, steps, i, b - 1)
        BY <2>3, <4>3
      <4>5. t[b].scopes[i] # None
        BY <4>3, <4>4 DEF Stays
      <4>6. Len(u[k + 1].scopes) = L /\ u[k + 1].scopes[i] = t[b].scopes[i]
        <5>1. i \in 1..Len(t[b].scopes) /\ i # L
          BY <1>1, <1>4, <1>12, <1>15, <2>4
        <5>2. Len(u[b + w].scopes) = L /\ u[b + w].scopes[i] = t[b].scopes[i]
          BY <1>4, <1>13, <1>15, <5>1
        <5>. QED
          BY <1>15, <4>1, <5>2
      <4>7. r[k].kind # "composite"
        BY <1>6, <3>2 DEF Nil
      <4>8. Len(u[k + 1].scopes) >= i
        BY <1>1, <2>4, <4>6
      <4>. QED
        BY <4>2, <4>5, <4>6, <4>7, <4>8 DEF Stays
    <3>3. CASE ~(k <= e) /\ k # e + 1
      <4>1. k \in e + 2..N + w
        BY <1>1, <1>3, <1>6, <2>2, <3>3
      <4>. DEFINE j == k - w
      <4>2. j \in b..N /\ j + w = k /\ (j + 1) + w = k + 1
        BY <1>1, <1>3, <1>5, <1>6, <4>1
      <4>. HIDE DEF j
      <4>3. j \in b..N + 1 /\ j + 1 \in b..N + 1 /\ j \in a..N
        BY <1>1, <1>3, <1>5, <2>1, <2>2, <2>3, <4>2
      <4>4. Stays(t, steps, i, j)
        BY <2>3, <4>3
      <4>5. Len(u[k].scopes) = Len(t[j].scopes) /\ Len(u[k + 1].scopes) = Len(t[j + 1].scopes)
        BY <1>13, <4>2, <4>3
      <4>6. i \in 1..Len(t[j + 1].scopes) /\ i # L
        BY <1>12, <2>4, <4>3, SMTT(30)
      <4>7. u[k + 1].scopes[i] = t[j + 1].scopes[i]
        BY <1>13, <4>2, <4>3, <4>6
      <4>8. r[k] = steps[j]
        BY <1>6, <4>1 DEF j
      <4>. QED
        BY <4>4, <4>5, <4>7, <4>8 DEF Stays
    <3>. QED
      BY <3>1, <3>2, <3>3
  <2>8. Len(r) = N + w
    BY <1>6
  <2>9. /\ a \in 1..EndOf(leads[i], Len(r)) /\ EndOf(leads[i], Len(r)) <= Len(r)
        /\ u[EndOf(leads[i], Len(r)) + 1] = Puts(u[a], <<u[Len(r) + 1].scopes[i][1]>>, u[a].next)
        /\ \A k \in a..Len(r) : Stays(u, r, i, k)
        /\ Paints(r[a]) /\ Len(u[a].scopes) = i /\ u[a].scopes[i] = None
    BY <1>21, <2>2, <2>3, <2>4, <2>5, <2>6, <2>7, <2>8
  <2>. QED
    BY <2>9 DEF ShapeFits, a
<1>28. NoLead \in Leads /\ ~NoLead.shape /\ NoLead.end = 0
  BY DEF NoLead, Leads
<1>29. Shaped(leads2, u, r)
  <2>. SUFFICES ASSUME NEW i \in 1..L
                PROVE  /\ leads2[i] \in Leads /\ leads2[i].end <= Len(r)
                       /\ leads2[i].shape => ShapeFits(u, r, leads2[i], i)
    BY <1>25 DEF Shaped
  <2>1. CASE i = L
    BY <1>1, <1>6, <1>25, <1>28, <2>1
  <2>2. CASE i \in 1..L - 1
    <3>1. leads2[i] = leads[i] /\ leads[i] \in Leads /\ leads[i].end <= N
      <4>1. \A k \in 1..Len(leads) : leads[k] \in Leads /\ leads[k].end <= Len(steps)
        BY <1>0 DEF Follows, Shaped
      <4>. QED
        BY <1>0, <1>1, <1>25, <2>2, <4>1
    <3>2. leads[i].end \in Nat
      BY <3>1 DEF Leads
    <3>3. leads[i].end <= Len(r)
      BY <1>1, <1>6, <3>1, <3>2
    <3>. QED
      BY <1>27, <2>2, <3>1, <3>3
  <2>. QED
    BY <1>26, <2>1, <2>2
<1>30. Nested(leads2)
  <2>. SUFFICES ASSUME NEW i \in 1..L, NEW j \in 1..L, i < j, leads2[i].shape, leads2[j].shape
                PROVE  leads2[i].end < leads2[j].begin
    BY <1>25 DEF Nested
  <2>1. i \in 1..L - 1 /\ j \in 1..L - 1
    BY <1>25, <1>26, <1>28
  <2>2. \A k, l \in 1..Len(leads) : k < l /\ leads[k].shape /\ leads[l].shape => leads[k].end < leads[l].begin
    BY <1>0 DEF Follows, Nested
  <2>3. leads2[i] = leads[i] /\ leads2[j] = leads[j] /\ i \in 1..Len(leads) /\ j \in 1..Len(leads)
    BY <1>1, <1>25, <2>1
  <2>. QED
    BY <2>2, <2>3
<1>31. Follows(u, r, inputs, held2, leads2)
  BY <1>1, <1>20, <1>21, <1>23, <1>24, <1>25, <1>29, <1>30 DEF Follows
<1>32. u[Len(r) + 1].next = t[N + 1].next
  BY <1>21, <1>22
<1>. QED
  BY <1>31, <1>32 DEF held2, leads2, r, x, q
-----------------------------------------------------------------------------
(* What the parser knows and what the words mean, side by side.            *)
HeldOf(scopes) == [i \in DOMAIN scopes |-> scopes[i].pictures]
TopOnly(s, r) == IsSeq(r) /\ Len(r) = Len(s) /\ \A i \in 1..Len(s) - 1 : r[i] = s[i]

(* SetTop changes the top only.                                            *)
LEMMA TopOnlyIs ==
  ASSUME NEW s, IsSeq(s), Len(s) \in Nat \ {0}, NEW x
  PROVE  TopOnly(s, SetTop(s, x)) /\ SetTop(s, x)[Len(s)] = x /\ SetTop(s, x)[Len(SetTop(s, x))] = x
<1>1. Len(s) >= 1
  OBVIOUS
<1>2. /\ IsSeq(SetTop(s, x)) /\ Len(SetTop(s, x)) = Len(s)
      /\ \A i \in 1..Len(s) - 1 : SetTop(s, x)[i] = s[i]
      /\ SetTop(s, x)[Len(s)] = x
  BY <1>1, SeqTop
<1>. QED
  BY <1>2 DEF TopOnly

(* What changes the top only is a SetTop.                                  *)
LEMMA TopOnlySame ==
  ASSUME NEW s, IsSeq(s), Len(s) \in Nat \ {0}, NEW r, TopOnly(s, r)
  PROVE  r = SetTop(s, r[Len(s)])
<1>. DEFINE x == r[Len(s)]
            q == SetTop(s, x)
<1>1. TopOnly(s, q) /\ q[Len(s)] = x
  BY TopOnlyIs
<1>. HIDE DEF q
<1>2. ASSUME NEW i \in 1..Len(s) PROVE r[i] = q[i]
  <2>1. i = Len(s) \/ i \in 1..Len(s) - 1
    OBVIOUS
  <2>. QED
    BY <1>1, <2>1 DEF TopOnly
<1>3. r = q
  BY <1>1, <1>2, SeqSame DEF TopOnly
<1>. QED
  BY <1>3 DEF q

(* The pictures held, scope by scope.                                      *)
LEMMA HeldIs ==
  ASSUME NEW s, IsSeq(s)
  PROVE  /\ IsSeq(HeldOf(s)) /\ Len(HeldOf(s)) = Len(s)
         /\ \A i \in 1..Len(s) : HeldOf(s)[i] = s[i].pictures
<1>. DEFINE n == Len(s)
            S == {s[i].pictures : i \in 1..n}
            h == HeldOf(s)
<1>1. n \in Nat /\ DOMAIN s = 1..n
  BY SeqShape
<1>2. h \in [1..n -> S] /\ \A i \in 1..n : h[i] = s[i].pictures
  BY <1>1 DEF HeldOf
<1>. HIDE DEF n, S, h
<1>3. h \in Seq(S) /\ Len(h) = n
  BY <1>1, <1>2
<1>4. IsSeq(h)
  BY <1>3, SeqIs
<1>. QED
  BY <1>2, <1>3, <1>4 DEF h, n

(* The pictures held follow what is done to the parentheses.               *)
LEMMA HeldTop ==
  ASSUME NEW s, IsSeq(s), Len(s) \in Nat \ {0}, NEW r, TopOnly(s, r)
  PROVE  HeldOf(r) = SetTop(HeldOf(s), r[Len(s)].pictures)
<1>1. /\ IsSeq(HeldOf(s)) /\ Len(HeldOf(s)) = Len(s)
      /\ \A i \in 1..Len(s) : HeldOf(s)[i] = s[i].pictures
  BY HeldIs
<1>2. IsSeq(r) /\ Len(r) = Len(s) /\ \A i \in 1..Len(s) - 1 : r[i] = s[i]
  BY DEF TopOnly
<1>3. /\ IsSeq(HeldOf(r)) /\ Len(HeldOf(r)) = Len(r)
      /\ \A i \in 1..Len(r) : HeldOf(r)[i] = r[i].pictures
  BY <1>2, HeldIs
<1>. DEFINE h == HeldOf(s)
            k == HeldOf(r)
<1>. HIDE DEF h, k
<1>4. TopOnly(h, k)
  <2>1. ASSUME NEW i \in 1..Len(s) - 1 PROVE k[i] = h[i]
    <3>1. i \in 1..Len(s)
      OBVIOUS
    <3>. QED
      BY <1>1, <1>2, <1>3, <3>1 DEF h, k
  <2>. QED
    BY <1>1, <1>2, <1>3, <2>1 DEF TopOnly, h, k
<1>5. k[Len(s)] = r[Len(s)].pictures
  BY <1>2, <1>3 DEF k
<1>6. Len(h) = Len(s) /\ IsSeq(h)
  BY <1>1 DEF h
<1>7. k = SetTop(h, k[Len(h)])
  BY <1>4, <1>6, TopOnlySame
<1>. QED
  BY <1>5, <1>6, <1>7 DEF h, k

(* A scope more holds its pictures.                                        *)
LEMMA HeldAppend ==
  ASSUME NEW s, IsSeq(s), NEW x
  PROVE  HeldOf(Append(s, x)) = Append(HeldOf(s), x.pictures)
<1>. DEFINE a == Append(s, x)
            h == HeldOf(a)
            k == Append(HeldOf(s), x.pictures)
<1>1. /\ IsSeq(HeldOf(s)) /\ Len(HeldOf(s)) = Len(s) /\ Len(s) \in Nat
      /\ \A i \in 1..Len(s) : HeldOf(s)[i] = s[i].pictures
  BY HeldIs, SeqShape
<1>2. /\ IsSeq(a) /\ Len(a) = Len(s) + 1
      /\ \A i \in 1..Len(s) : a[i] = s[i]
      /\ a[Len(s) + 1] = x
  BY SeqAppend
<1>3. /\ IsSeq(k) /\ Len(k) = Len(HeldOf(s)) + 1
      /\ \A i \in 1..Len(HeldOf(s)) : k[i] = HeldOf(s)[i]
      /\ k[Len(HeldOf(s)) + 1] = x.pictures
  BY <1>1, SeqAppend
<1>. HIDE DEF a, k
<1>4. IsSeq(h) /\ Len(h) = Len(a) /\ \A i \in 1..Len(a) : h[i] = a[i].pictures
  BY <1>2, HeldIs
<1>. HIDE DEF h
<1>5. ASSUME NEW i \in 1..Len(s) + 1 PROVE h[i] = k[i]
  <2>1. CASE i = Len(s) + 1
    BY <1>1, <1>2, <1>3, <1>4, <2>1
  <2>2. CASE i # Len(s) + 1
    <3>1. i \in 1..Len(s)
      BY <1>1, <2>2
    <3>. QED
      BY <1>1, <1>2, <1>3, <1>4, <3>1
  <2>. QED
    BY <2>1, <2>2
<1>6. h = k
  BY <1>1, <1>2, <1>3, <1>4, <1>5, SeqSame
<1>. QED
  BY <1>6 DEF h, k, a

(* A scope less holds those of the others.                                 *)
LEMMA HeldFront ==
  ASSUME NEW s, IsSeq(s), Len(s) >= 1
  PROVE  HeldOf(Front(s)) = Front(HeldOf(s))
<1>. DEFINE f == Front(s)
            g == HeldOf(s)
            h == HeldOf(f)
            k == Front(g)
<1>1. /\ IsSeq(g) /\ Len(g) = Len(s) /\ Len(s) \in Nat
      /\ \A i \in 1..Len(s) : g[i] = s[i].pictures
  BY HeldIs, SeqShape
<1>. HIDE DEF g
<1>2. IsSeq(f) /\ Len(f) = Len(s) - 1 /\ \A i \in 1..Len(s) - 1 : f[i] = s[i]
  BY SeqFront
<1>3. IsSeq(k) /\ Len(k) = Len(g) - 1 /\ \A i \in 1..Len(g) - 1 : k[i] = g[i]
  BY <1>1, SeqFront
<1>. HIDE DEF f, k
<1>4. IsSeq(h) /\ Len(h) = Len(f) /\ \A i \in 1..Len(f) : h[i] = f[i].pictures
  BY <1>2, HeldIs
<1>. HIDE DEF h
<1>5. ASSUME NEW i \in 1..Len(s) - 1 PROVE h[i] = k[i]
  <2>1. i \in 1..Len(s)
    BY <1>1
  <2>. QED
    BY <1>1, <1>2, <1>3, <1>4, <2>1
<1>6. h = k
  BY <1>1, <1>2, <1>3, <1>4, <1>5, SeqSame
<1>. QED
  BY <1>6 DEF h, k, f, g

(* Where there are no pictures there is no lead, a lead goes on while its  *)
(* picture is the only one of the innermost parenthesis, and ends with it. *)
Counted(held, leads, N) ==
  \A i \in 1..Len(held) :
    /\ held[i] = None => leads[i] = NoLead
    /\ leads[i] # NoLead => leads[i] \in Leads /\ leads[i].begin \in 1..N
    /\ leads[i] # NoLead /\ leads[i].end = 0 => i = Len(held) /\ Len(held[i]) = 1
    /\ leads[i].end # 0 => i < Len(held) \/ Len(held[i]) >= 2

(* Every lead has ended, which is how it is when a picture starts.         *)
Ended(held, leads, N) ==
  \A i \in 1..Len(held) :
    /\ held[i] = None => leads[i] = NoLead
    /\ leads[i] # NoLead => leads[i] \in Leads /\ leads[i].begin \in 1..N /\ leads[i].end # 0

(* A step that puts other pictures in the innermost parenthesis.           *)
StepsOn(t, steps, inputs, held, leads, s, ps, next, leads2) ==
  LET last == t[Len(steps) + 1] IN
  /\ Follows(t, steps, inputs, held, leads)
  /\ Pictured(ps) /\ next \in 1..Len(inputs) + 1 /\ Legal(last, s, Puts(last, ps, next), inputs)
  /\ TopOnly(leads, leads2)
  /\ \A i \in 1..Len(held) - 1 : leads[i] = NoLead \/ leads[i].end # 0
  /\ \/ leads2[Len(held)] = NoLead
     \/ SameLead(leads2[Len(held)], Len(held), s, held, leads)
     \/ NewLead(leads2[Len(held)], Len(held), Append(t, Puts(last, ps, next)),
                Append(steps, s), held, leads, SetTop(held, ps))

(* StepsOn, word by word, is what a step on the top of the scopes needs of *)
(* FollowsOn.                                                              *)
LEMMA FollowsTop ==
  ASSUME NEW t, NEW steps, NEW inputs, NEW held, NEW leads, NEW s, NEW ps, NEW next, NEW leads2,
         StepsOn(t, steps, inputs, held, leads, s, ps, next, leads2)
  PROVE  \E u : /\ Follows(u, Append(steps, s), inputs, SetTop(held, ps), leads2)
                /\ u[Len(Append(steps, s)) + 1].next = next
<1>. DEFINE last == t[Len(steps) + 1]
            n == Puts(last, ps, next)
            u == Append(t, n)
            r == Append(steps, s)
            held2 == SetTop(held, ps)
            L == Len(held)
<1>0. /\ Follows(t, steps, inputs, held, leads) /\ TopOnly(leads, leads2)
      /\ \A i \in 1..L - 1 : leads[i] = NoLead \/ leads[i].end # 0
  BY DEF StepsOn
<1>1. /\ IsMachine(last, inputs) /\ Len(steps) \in Nat /\ IsSeq(held) /\ L \in Nat \ {0}
      /\ last.scopes = held
  BY <1>0, FollowsIs DEF Follows
<1>2. Len(held2) = L /\ n.scopes = held2 /\ n.next = next
  <2>1. Len(held) >= 1
    BY <1>1
  <2>2. Len(SetTop(held, ps)) = Len(held)
    BY <1>1, <2>1, SeqTop
  <2>. QED
    BY <1>1, <2>2 DEF Puts, Machine
<1>3. IsSeq(leads2) /\ Len(leads2) = L /\ \A i \in 1..L - 1 : leads2[i] = leads[i]
  BY <1>0 DEF TopOnly, Follows
<1>4. u[Len(r) + 1] = n
  <2>1. OneMore(u, r, t, steps, s, n)
    BY <1>0, Longer DEF Follows
  <2>. HIDE DEF u, r, n
  <2>2. Len(r) + 1 = Len(steps) + 2
    BY <1>1, <2>1 DEF OneMore
  <2>. QED
    BY <2>1, <2>2 DEF OneMore
<1>5. Legal(last, s, n, inputs)
  BY DEF StepsOn
<1>6. \/ leads2[L] = NoLead
      \/ SameLead(leads2[L], L, s, held, leads)
      \/ NewLead(leads2[L], L, u, r, held, leads, held2)
  BY DEF StepsOn
<1>. HIDE DEF n, held2, u, r
<1>7. ASSUME NEW i \in 1..L
      PROVE  \/ leads2[i] = NoLead
             \/ SameLead(leads2[i], i, s, held, leads)
             \/ NewLead(leads2[i], i, u, r, held, leads, held2)
  <2>1. CASE i = L
    BY <1>6, <2>1
  <2>2. CASE i # L
    <3>1. i \in 1..L - 1 /\ i <= L
      BY <1>1, <2>2
    <3>. QED
      BY <1>0, <1>3, <2>2, <3>1 DEF SameLead
  <2>. QED
    BY <2>1, <2>2
<1>8. Follows(u, r, inputs, held2, leads2)
  BY <1>0, <1>2, <1>3, <1>5, <1>7, FollowsOn DEF u, r
<1>. QED
  BY <1>2, <1>4, <1>8 DEF r, held2

(* The parser's records, field by field.                                   *)
IsParser(p) ==
  p \in [scopes : {p.scopes}, firsts : {p.firsts}, pending : {p.pending}, steps : {p.steps},
         inputs : {p.inputs}, outputColor : {p.outputColor}, query : {p.query}]
IsScope(x) == x \in [pictures : {x.pictures}, shape : {x.shape}]
IsMeant(m) == m \in [scopes : {m.scopes}, since : {m.since}]

Counts(p, m) ==
  /\ IsSeq(p.scopes) /\ IsSeq(m.scopes) /\ Len(p.scopes) = Len(m.scopes)
  /\ \A i \in 1..Len(m.scopes) :
       /\ IsScope(m.scopes[i]) /\ p.scopes[i] = Len(m.scopes[i].pictures)
       /\ m.scopes[i].shape = p.firsts[i].shape

(* What the parser has made of a line is what the words mean: some machine *)
(* takes its steps to the pictures meant, with every input read, and its   *)
(* counts, leads and options waiting are those of what is meant.           *)
Told(p, m) ==
  /\ IsParser(p) /\ IsMeant(m) /\ Counts(p, m)
  /\ IsSeq(p.pending) /\ p.pending = m.since
  /\ Counted(HeldOf(m.scopes), p.firsts, Len(p.steps))
  /\ \E t : /\ Follows(t, p.steps, p.inputs, HeldOf(m.scopes), p.firsts)
            /\ t[Len(p.steps) + 1].next = Len(p.inputs) + 1

(* What a reader that has told what is meant knows of its own counts.      *)
LEMMA ToldIs ==
  ASSUME NEW p, NEW m, Told(p, m)
  PROVE  /\ Len(m.scopes) \in Nat \ {0} /\ Len(p.scopes) = Len(m.scopes) /\ Len(p.firsts) = Len(m.scopes)
         /\ IsSeq(p.scopes) /\ IsSeq(m.scopes) /\ IsSeq(p.firsts) /\ IsSeq(p.steps) /\ IsSeq(p.inputs)
         /\ Len(p.steps) \in Nat /\ Len(HeldOf(m.scopes)) = Len(m.scopes)
         /\ Last(p.scopes) = Len(m.scopes[Len(m.scopes)].pictures)
         /\ Last(p.firsts) = p.firsts[Len(m.scopes)]
         /\ Last(m.scopes) = m.scopes[Len(m.scopes)]
         /\ \A i \in 1..Len(m.scopes) :
              /\ HeldOf(m.scopes)[i] = m.scopes[i].pictures /\ p.firsts[i] \in Leads
              /\ p.firsts[i].end <= Len(p.steps) /\ Pictured(m.scopes[i].pictures)
<1>. DEFINE held == HeldOf(m.scopes)
<1>1. PICK t : Follows(t, p.steps, p.inputs, held, p.firsts)
  BY DEF Told
<1>2. IsSeq(m.scopes) /\ IsSeq(p.scopes) /\ Len(p.scopes) = Len(m.scopes)
      /\ \A i \in 1..Len(m.scopes) : p.scopes[i] = Len(m.scopes[i].pictures)
  BY DEF Told, Counts
<1>3. IsSeq(held) /\ Len(held) = Len(m.scopes) /\ \A i \in 1..Len(m.scopes) : held[i] = m.scopes[i].pictures
  BY <1>2, HeldIs
<1>. HIDE DEF held
<1>4. /\ Len(p.steps) \in Nat /\ IsSeq(p.steps) /\ IsSeq(p.inputs) /\ Len(held) \in Nat \ {0}
      /\ \A i \in 1..Len(held) : Pictured(held[i])
  BY <1>1, FollowsIs
<1>5. IsSeq(p.firsts) /\ Len(p.firsts) = Len(held)
      /\ \A i \in 1..Len(p.firsts) : p.firsts[i] \in Leads /\ p.firsts[i].end <= Len(p.steps)
  BY <1>1 DEF Follows, Shaped
<1>6. Len(m.scopes) \in 1..Len(m.scopes)
  BY <1>3, <1>4
<1>7. Last(p.scopes) = p.scopes[Len(m.scopes)] /\ Last(p.firsts) = p.firsts[Len(m.scopes)]
      /\ Last(m.scopes) = m.scopes[Len(m.scopes)]
  BY <1>2, <1>3, <1>5 DEF Last
<1>. QED
  BY <1>2, <1>3, <1>4, <1>5, <1>6, <1>7, SMTT(30) DEF held

(* A word about the innermost parenthesis alone.                           *)
TopLead(lead, n, N) ==
  \/ lead = NoLead
  \/ lead \in Leads /\ lead.begin \in 1..N /\ (lead.end = 0 => n = 1) /\ (lead.end # 0 => n >= 2)
Tops(p, m, p2, m2, L) ==
  /\ Told(p, m) /\ L = Len(m.scopes) /\ IsParser(p2) /\ IsMeant(m2)
  /\ IsSeq(p2.pending) /\ p2.pending = m2.since
  /\ TopOnly(p.scopes, p2.scopes) /\ TopOnly(p.firsts, p2.firsts) /\ TopOnly(m.scopes, m2.scopes)
  /\ IsScope(m2.scopes[L]) /\ m2.scopes[L].pictures # None
  /\ p2.scopes[L] = Len(m2.scopes[L].pictures) /\ m2.scopes[L].shape = p2.firsts[L].shape
  /\ Len(p2.steps) \in Nat /\ Len(p.steps) <= Len(p2.steps)
  /\ TopLead(p2.firsts[L], Len(m2.scopes[L].pictures), Len(p2.steps))
  /\ \E t : /\ Follows(t, p2.steps, p2.inputs, SetTop(HeldOf(m.scopes), m2.scopes[L].pictures), p2.firsts)
            /\ t[Len(p2.steps) + 1].next = Len(p2.inputs) + 1

(* A step on the pictures of the top scope leaves a reader that has told   *)
(* what is meant.                                                          *)
LEMMA ToldTop ==
  ASSUME NEW p, NEW m, NEW p2, NEW m2, NEW L, Tops(p, m, p2, m2, L)
  PROVE  Told(p2, m2)
<1>. DEFINE held == HeldOf(m.scopes)
            held2 == HeldOf(m2.scopes)
            ps == m2.scopes[L].pictures
            lead == p2.firsts[L]
            N == Len(p.steps)
            N2 == Len(p2.steps)
<1>1. Told(p, m) /\ L = Len(m.scopes) /\ N2 \in Nat /\ N <= N2 /\ ps # None
  BY DEF Tops
<1>2. /\ L \in Nat \ {0} /\ Len(p.scopes) = L /\ Len(p.firsts) = L /\ IsSeq(m.scopes) /\ Len(held) = L
      /\ N \in Nat /\ Len(m.scopes) = L
  BY <1>1, ToldIs
<1>3. TopOnly(p.scopes, p2.scopes) /\ TopOnly(p.firsts, p2.firsts) /\ TopOnly(m.scopes, m2.scopes)
  BY DEF Tops
<1>4. IsScope(m2.scopes[L]) /\ p2.scopes[L] = Len(ps) /\ m2.scopes[L].shape = lead.shape
      /\ TopLead(lead, Len(ps), N2)
  BY DEF Tops
<1>5. ASSUME NEW i \in 1..L PROVE i = L \/ (i \in 1..L - 1 /\ i < L)
  BY <1>2
<1>6. Counts(p2, m2)
  <2>1. \A i \in 1..L :
          /\ IsScope(m.scopes[i]) /\ p.scopes[i] = Len(m.scopes[i].pictures)
          /\ m.scopes[i].shape = p.firsts[i].shape
    BY <1>1 DEF Told, Counts
  <2>2. /\ IsSeq(p2.scopes) /\ IsSeq(m2.scopes) /\ Len(p2.scopes) = L /\ Len(m2.scopes) = L
        /\ \A i \in 1..L - 1 : p2.scopes[i] = p.scopes[i] /\ p2.firsts[i] = p.firsts[i] /\ m2.scopes[i] = m.scopes[i]
    BY <1>2, <1>3 DEF TopOnly
  <2>3. ASSUME NEW i \in 1..L
        PROVE  /\ IsScope(m2.scopes[i]) /\ p2.scopes[i] = Len(m2.scopes[i].pictures)
               /\ m2.scopes[i].shape = p2.firsts[i].shape
    <3>1. CASE i = L
      BY <1>4, <3>1
    <3>2. CASE i \in 1..L - 1
      BY <2>1, <2>2, <3>2
    <3>. QED
      BY <1>5, <3>1, <3>2
  <2>. QED
    BY <2>2, <2>3 DEF Counts
<1>7. held2 = SetTop(held, ps)
  BY <1>2, <1>3, HeldTop
<1>8. Len(held2) = L /\ held2[L] = ps /\ \A i \in 1..L - 1 : held2[i] = held[i]
  <2>1. IsSeq(held) /\ Len(held) = L
    BY <1>2, HeldIs
  <2>. HIDE DEF held, ps, held2
  <2>2. TopOnly(held, SetTop(held, ps)) /\ SetTop(held, ps)[Len(held)] = ps
    BY <1>2, <2>1, TopOnlyIs
  <2>. QED
    BY <1>7, <2>1, <2>2 DEF TopOnly
<1>9. Counted(held2, p2.firsts, N2)
  <2>1. Counted(held, p.firsts, N)
    BY <1>1 DEF Told
  <2>2. \A i \in 1..L - 1 : p2.firsts[i] = p.firsts[i]
    BY <1>2, <1>3 DEF TopOnly
  <2>. HIDE DEF held, held2, ps, N, N2, lead
  <2>3. ASSUME NEW i \in 1..L - 1
        PROVE  /\ held[i] = None => p.firsts[i] = NoLead
               /\ p.firsts[i] # NoLead => p.firsts[i] \in Leads /\ p.firsts[i].begin \in 1..N2
               /\ p.firsts[i] # NoLead /\ p.firsts[i].end = 0 => i = L /\ Len(held[i]) = 1
               /\ i < L
    <3>1. i \in 1..L /\ i < L
      BY <1>2
    <3>2. 1..N \subseteq 1..N2
      BY <1>1, <1>2
    <3>. QED
      BY <1>2, <2>1, <3>1, <3>2 DEF Counted
  <2>4. /\ ps = None => lead = NoLead
        /\ lead # NoLead => lead \in Leads /\ lead.begin \in 1..N2
        /\ lead # NoLead /\ lead.end = 0 => Len(ps) = 1
        /\ lead.end # 0 => Len(ps) >= 2
    BY <1>1, <1>4 DEF TopLead, NoLead
  <2>. SUFFICES ASSUME NEW i \in 1..L
                PROVE  /\ held2[i] = None => p2.firsts[i] = NoLead
                       /\ p2.firsts[i] # NoLead => p2.firsts[i] \in Leads /\ p2.firsts[i].begin \in 1..N2
                       /\ p2.firsts[i] # NoLead /\ p2.firsts[i].end = 0 => i = L /\ Len(held2[i]) = 1
                       /\ p2.firsts[i].end # 0 => i < L \/ Len(held2[i]) >= 2
    BY <1>8 DEF Counted
  <2>5. CASE i = L
    BY <1>8, <2>4, <2>5 DEF lead
  <2>6. CASE i \in 1..L - 1
    BY <1>8, <2>2, <2>3, <2>6, SMTT(30)
  <2>. QED
    BY <1>5, <2>5, <2>6
<1>10. \E t : /\ Follows(t, p2.steps, p2.inputs, held2, p2.firsts)
              /\ t[Len(p2.steps) + 1].next = Len(p2.inputs) + 1
  BY <1>7 DEF Tops
<1>11. IsParser(p2) /\ IsMeant(m2) /\ IsSeq(p2.pending) /\ p2.pending = m2.since
  BY DEF Tops
<1>. QED
  BY <1>6, <1>9, <1>10, <1>11 DEF Told
-----------------------------------------------------------------------------
(* Each word leaves the parser and the meaning side by side.               *)
LEMMA StartingIs ==
  ASSUME Told(parser, meant), NEW held, held = HeldOf(meant.scopes)
  PROVE  /\ TopOnly(parser.firsts, Starting) /\ Ended(held, Starting, Len(parser.steps))
         /\ Starting[Len(meant.scopes)].shape = parser.firsts[Len(meant.scopes)].shape
         /\ \A t : Follows(t, parser.steps, parser.inputs, held, parser.firsts)
                     => Follows(t, parser.steps, parser.inputs, held, Starting)
<1>. DEFINE L == Len(meant.scopes)
            N == Len(parser.steps)
            firsts == parser.firsts
            lead == firsts[L]
            done == [lead EXCEPT !.end = N]
<1>1. /\ L \in Nat \ {0} /\ Len(firsts) = L /\ IsSeq(firsts) /\ N \in Nat /\ Len(held) = L
      /\ Last(firsts) = lead /\ Pictures = Len(meant.scopes[L].pictures)
      /\ \A i \in 1..L : held[i] = meant.scopes[i].pictures /\ firsts[i] \in Leads
  BY ToldIs DEF Pictures
<1>2. Counted(held, firsts, N)
  BY DEF Told
<1>3. L \in 1..L /\ \A i \in 1..L : i = L \/ (i \in 1..L - 1 /\ i < L)
  BY <1>1
<1>4. Pictures = Len(held[L]) /\ lead \in Leads
  BY <1>1, <1>3
<1>5. ASSUME NEW i \in 1..L
      PROVE  /\ held[i] = None => firsts[i] = NoLead
             /\ firsts[i] # NoLead => firsts[i] \in Leads /\ firsts[i].begin \in 1..N
             /\ firsts[i] # NoLead /\ firsts[i].end = 0 => i = L /\ Len(held[i]) = 1
  BY <1>1, <1>2 DEF Counted
<1>6. CASE Pictures = 1 /\ lead # NoLead /\ lead.end = 0
  <2>1. Starting = SetTop(firsts, done)
    BY <1>1, <1>6 DEF Starting
  <2>2. /\ done \in Leads /\ done.begin = lead.begin /\ done.end = N /\ done.shape = lead.shape
        /\ done # NoLead /\ done.end # 0 /\ done.begin \in 1..N
    <3>1. lead.begin \in 1..N
      BY <1>3, <1>5, <1>6
    <3>2. done \in Leads /\ done.begin = lead.begin /\ done.end = N /\ done.shape = lead.shape
      BY <1>1, <1>4 DEF Leads
    <3>. HIDE DEF done, lead, N
    <3>3. N # 0 /\ done.end # 0
      BY <1>1, <3>1, <3>2
    <3>. QED
      BY <3>1, <3>2, <3>3 DEF NoLead
  <2>. HIDE DEF done
  <2>3. TopOnly(firsts, SetTop(firsts, done)) /\ SetTop(firsts, done)[L] = done
    BY <1>1, TopOnlyIs
  <2>4. held[L] # None
    BY <1>3, <1>5, <1>6
  <2>5. Ended(held, Starting, N)
    <3>. SUFFICES ASSUME NEW i \in 1..L
                  PROVE  /\ held[i] = None => Starting[i] = NoLead
                         /\ Starting[i] # NoLead =>
                              Starting[i] \in Leads /\ Starting[i].begin \in 1..N /\ Starting[i].end # 0
      BY <1>1 DEF Ended
    <3>1. CASE i = L
      BY <2>1, <2>2, <2>3, <2>4, <3>1
    <3>2. CASE i \in 1..L - 1 /\ i < L
      <4>1. Starting[i] = firsts[i] /\ i # L
        BY <1>1, <2>1, <2>3, <3>2 DEF TopOnly
      <4>. QED
        BY <1>5, <4>1
    <3>. QED
      BY <1>3, <3>1, <3>2
  <2>6. ASSUME NEW t, Follows(t, parser.steps, parser.inputs, held, firsts)
        PROVE  Follows(t, parser.steps, parser.inputs, held, SetTop(firsts, done))
    <3>1. firsts[Len(held)].end = 0 /\ done.begin = firsts[Len(held)].begin
          /\ done.end = Len(parser.steps) /\ done.shape = firsts[Len(held)].shape /\ done \in Leads
      BY <1>1, <1>6, <2>2
    <3>. HIDE DEF firsts
    <3>. QED
      BY <2>6, <3>1, FollowsEnds
  <2>. QED
    BY <2>1, <2>2, <2>3, <2>5, <2>6
<1>7. CASE ~(Pictures = 1 /\ lead # NoLead /\ lead.end = 0)
  <2>1. Starting = firsts
    BY <1>1, <1>7 DEF Starting
  <2>2. TopOnly(firsts, firsts)
    BY <1>1 DEF TopOnly
  <2>3. Ended(held, firsts, N)
    <3>. SUFFICES ASSUME NEW i \in 1..L
                  PROVE  /\ held[i] = None => firsts[i] = NoLead
                         /\ firsts[i] # NoLead =>
                              firsts[i] \in Leads /\ firsts[i].begin \in 1..N /\ firsts[i].end # 0
      BY <1>1 DEF Ended
    <3>1. firsts[i] # NoLead => firsts[i].end # 0
      BY <1>4, <1>5, <1>7
    <3>. QED
      BY <1>5, <3>1
  <2>. QED
    BY <2>1, <2>2, <2>3
<1>. QED
  BY <1>6, <1>7

(* An option waits for the stage after it.                                 *)
LEMMA TellOption ==
  ASSUME Told(parser, meant), NEW option,
         NEW p, p = [parser EXCEPT !.pending = Append(@, option)],
         NEW m, m = [meant EXCEPT !.since = Append(@, option)]
  PROVE  Told(p, m)
<1>1. IsParser(parser) /\ IsMeant(meant) /\ IsSeq(parser.pending) /\ parser.pending = meant.since
  BY DEF Told
<1>2. /\ IsParser(p) /\ p.pending = Append(parser.pending, option) /\ p.scopes = parser.scopes
      /\ p.firsts = parser.firsts /\ p.steps = parser.steps /\ p.inputs = parser.inputs
  BY <1>1 DEF IsParser
<1>3. IsMeant(m) /\ m.since = Append(meant.since, option) /\ m.scopes = meant.scopes
  BY <1>1 DEF IsMeant
<1>4. IsSeq(Append(parser.pending, option))
  BY <1>1, SeqAppend
<1>5. Counts(p, m)
  BY <1>2, <1>3 DEF Told, Counts
<1>. QED
  BY <1>1, <1>2, <1>3, <1>4, <1>5 DEF Told

(* One more picture in the innermost parenthesis.                          *)
Another(p, m, picture, shape, p2, m2, L) ==
  /\ Told(p, m) /\ L = Len(m.scopes) /\ picture # None
  /\ IsParser(p2) /\ p2.pending = None /\ p2.scopes = SetTop(p.scopes, Last(p.scopes) + 1)
  /\ TopOnly(p.firsts, p2.firsts)
  /\ Len(p2.steps) \in Nat /\ Len(p.steps) <= Len(p2.steps)
  /\ TopLead(p2.firsts[L], Len(m.scopes[L].pictures) + 1, Len(p2.steps))
  /\ p2.firsts[L].shape = (IF m.scopes[L].pictures = None THEN shape ELSE m.scopes[L].shape)
  /\ m2 = [scopes |-> SetTop(m.scopes, [pictures |-> Append(Last(m.scopes).pictures, picture),
                                        shape |-> IF Last(m.scopes).pictures = None
                                                  THEN shape ELSE Last(m.scopes).shape]),
           since |-> None]
  /\ \E t : /\ Follows(t, p2.steps, p2.inputs, SetTop(HeldOf(m.scopes), Append(m.scopes[L].pictures, picture)), p2.firsts)
            /\ t[Len(p2.steps) + 1].next = Len(p2.inputs) + 1

(* A picture more, whatever it is.                                         *)
LEMMA TellAnother ==
  ASSUME NEW p, NEW m, NEW picture, NEW shape, NEW p2, NEW m2, NEW L, Another(p, m, picture, shape, p2, m2, L)
  PROVE  Told(p2, m2)
<1>. DEFINE here == m.scopes[L]
            ps == Append(here.pictures, picture)
            top == [pictures |-> ps, shape |-> IF here.pictures = None THEN shape ELSE here.shape]
<1>1. /\ Told(p, m) /\ L = Len(m.scopes) /\ picture # None
      /\ IsParser(p2) /\ p2.pending = None /\ p2.scopes = SetTop(p.scopes, Last(p.scopes) + 1)
      /\ TopOnly(p.firsts, p2.firsts)
      /\ Len(p2.steps) \in Nat /\ Len(p.steps) <= Len(p2.steps)
      /\ TopLead(p2.firsts[L], Len(here.pictures) + 1, Len(p2.steps))
      /\ p2.firsts[L].shape = (IF here.pictures = None THEN shape ELSE here.shape)
  BY DEF Another
<1>2. /\ L \in Nat \ {0} /\ IsSeq(p.scopes) /\ IsSeq(m.scopes) /\ Len(p.scopes) = L
      /\ Last(p.scopes) = Len(here.pictures) /\ Last(m.scopes) = here
      /\ \A i \in 1..L : Pictured(m.scopes[i].pictures)
  BY <1>1, ToldIs
<1>3. IsSeq(here.pictures) /\ L \in 1..L
  BY <1>2 DEF Pictured
<1>4. Len(ps) = Len(here.pictures) + 1 /\ Len(here.pictures) \in Nat
  BY <1>3, SeqAppend, SeqShape
<1>5. ps # None
  <2>1. IsSeq(ps)
    BY <1>3, SeqAppend
  <2>. HIDE DEF ps
  <2>. QED
    BY <1>4, <2>1, SeqShape, SMTT(30)
<1>6. m2 = [scopes |-> SetTop(m.scopes, top), since |-> None]
  BY <1>2 DEF Another
<1>7. \E t : /\ Follows(t, p2.steps, p2.inputs, SetTop(HeldOf(m.scopes), ps), p2.firsts)
             /\ t[Len(p2.steps) + 1].next = Len(p2.inputs) + 1
  BY DEF Another
<1>8. top.pictures = ps /\ top.shape = p2.firsts[L].shape /\ IsScope(top)
  BY <1>1 DEF IsScope
<1>. HIDE DEF top, ps
<1>9. IsMeant(m2) /\ m2.scopes = SetTop(m.scopes, top) /\ m2.since = None
  BY <1>6 DEF IsMeant
<1>10. TopOnly(m.scopes, SetTop(m.scopes, top)) /\ SetTop(m.scopes, top)[L] = top
  BY <1>1, <1>2, TopOnlyIs
<1>11. TopOnly(p.scopes, p2.scopes) /\ p2.scopes[L] = Len(here.pictures) + 1
  BY <1>1, <1>2, TopOnlyIs
<1>. HIDE DEF here
<1>12. Tops(p, m, p2, m2, L)
  BY <1>1, <1>4, <1>5, <1>7, <1>8, <1>9, <1>10, <1>11, SeqEmpty DEF Tops
<1>. QED
  BY <1>12, ToldTop

(* Two added at once are two added one after the other.                    *)
LEMMA SeqTwo ==
  ASSUME NEW s, IsSeq(s), NEW x, NEW y
  PROVE  s \o <<x, y>> = Append(Append(s, x), y)
<1>. DEFINE S == Held(s) \cup {x, y}
<1>1. s \in Seq(S)
  BY SeqMonotonic DEF IsSeq
<1>2. x \in S /\ y \in S
  OBVIOUS
<1>. HIDE DEF S
<1>. QED
  BY <1>1, <1>2

(* Leads that have all ended go on through a step that makes a picture.    *)
LEMMA EndedOn ==
  ASSUME NEW held, NEW leads, NEW N, Ended(held, leads, N), Len(held) \in Nat \ {0}, NEW s,
         s.kind \in {"source", "decode", "generate", "open"}
  PROVE  \A i \in 1..Len(held) : leads[i] = NoLead \/ SameLead(leads[i], i, s, held, leads)
<1>. SUFFICES ASSUME NEW i \in 1..Len(held), leads[i] # NoLead
              PROVE  SameLead(leads[i], i, s, held, leads)
  OBVIOUS
<1>1. leads[i].end # 0 /\ i <= Len(held)
  BY DEF Ended
<1>2. s.kind # "composite" /\ s.kind \notin PlainKinds
  BY DEF PlainKinds
<1>. QED
  BY <1>1, <1>2 DEF SameLead

(* Of a lead that has ended, the picture that is to come changes nothing.  *)
LEMMA EndedTop ==
  ASSUME NEW held, NEW leads, NEW N \in Nat, NEW M \in Nat, N <= M, Ended(held, leads, N), NEW L \in Nat \ {0},
         L = Len(held), IsSeq(held[L])
  PROVE  /\ TopLead(leads[L], Len(held[L]) + 1, M)
         /\ held[L] = None => ~leads[L].shape
<1>1. L \in 1..Len(held)
  OBVIOUS
<1>2. /\ held[L] = None => leads[L] = NoLead
      /\ leads[L] # NoLead => leads[L] \in Leads /\ leads[L].begin \in 1..N /\ leads[L].end # 0
  BY <1>1 DEF Ended
<1>3. held[L] # None => Len(held[L]) \in Nat \ {0}
  BY SeqShape
<1>4. ASSUME leads[L] # NoLead PROVE TopLead(leads[L], Len(held[L]) + 1, M)
  <2>1. Len(held[L]) + 1 >= 2
    BY <1>2, <1>3, <1>4
  <2>2. leads[L].begin \in 1..M
    BY <1>2, <1>4
  <2>. QED
    BY <1>2, <1>4, <2>1, <2>2 DEF TopLead
<1>. QED
  BY <1>2, <1>4 DEF TopLead, NoLead

(* An input more changes no step that was taken.                           *)
LEMMA FollowsMore ==
  ASSUME NEW t, NEW steps, NEW inputs, NEW held, NEW leads, Follows(t, steps, inputs, held, leads), NEW file
  PROVE  Follows(t, steps, Append(inputs, file), held, leads)
<1>1. Trace(t, steps, Start, Append(inputs, file))
  BY TraceMore DEF Follows
<1>. QED
  BY <1>1 DEF Follows

(* A file read: Reader::source.                                            *)
LEMMA TellFile ==
  ASSUME Told(parser, meant), NEW file,
         NEW p, p = [parser EXCEPT
                       !.pending = None,
                       !.firsts = Starting,
                       !.steps = @ \o << [kind |-> "source"], [kind |-> "decode", options |-> parser.pending] >>,
                       !.inputs = Append(@, file),
                       !.scopes = SetTop(@, Last(@) + 1)],
         NEW m, m = [scopes |-> SetTop(meant.scopes,
                                  [pictures |-> Append(Last(meant.scopes).pictures, Read(file, meant.since)),
                                   shape |-> IF Last(meant.scopes).pictures = None
                                             THEN FALSE ELSE Last(meant.scopes).shape]),
                     since |-> None]
  PROVE  Told(p, m)
<1>. DEFINE source == [kind |-> "source"]
            decode == [kind |-> "decode", options |-> parser.pending]
            steps == parser.steps
            N == Len(steps)
            step1 == Append(steps, source)
            step2 == Append(step1, decode)
            more == Append(parser.inputs, file)
            held == HeldOf(meant.scopes)
            L == Len(meant.scopes)
            picture == Read(file, meant.since)
            ps == Append(held[L], picture)
            leads == Starting
<1>1. /\ L \in Nat \ {0} /\ Len(parser.firsts) = L /\ IsSeq(parser.firsts) /\ N \in Nat /\ Len(held) = L
      /\ IsSeq(steps) /\ IsSeq(parser.inputs)
      /\ \A i \in 1..L : held[i] = meant.scopes[i].pictures /\ Pictured(meant.scopes[i].pictures)
  BY ToldIs
<1>2. L \in 1..L /\ held[L] = meant.scopes[L].pictures /\ Pictured(held[L]) /\ IsSeq(held[L])
  BY <1>1, SMTT(30) DEF Pictured
<1>3. /\ TopOnly(parser.firsts, leads) /\ Ended(held, leads, N)
      /\ leads[L].shape = parser.firsts[L].shape
      /\ \A t : Follows(t, steps, parser.inputs, held, parser.firsts)
                  => Follows(t, steps, parser.inputs, held, leads)
  BY StartingIs
<1>. HIDE DEF leads
<1>4. /\ IsParser(p) /\ p.pending = None /\ p.firsts = leads /\ p.inputs = more
      /\ p.steps = steps \o <<source, decode>> /\ p.scopes = SetTop(parser.scopes, Last(parser.scopes) + 1)
  BY DEF Told, IsParser, leads
<1>5. p.steps = step2
  BY <1>1, <1>4, SeqTwo, SMTT(30)
<1>6. IsSeq(step1) /\ Len(step1) = N + 1 /\ IsSeq(step2) /\ Len(step2) = N + 2
  <2>1. IsSeq(step1) /\ Len(step1) = N + 1
    BY <1>1, SeqAppend
  <2>. HIDE DEF step1
  <2>2. IsSeq(Append(step1, decode)) /\ Len(Append(step1, decode)) = Len(step1) + 1
    BY <2>1, SeqAppend
  <2>. QED
    BY <1>1, <2>1, <2>2
<1>7. PICK t : Follows(t, steps, parser.inputs, held, parser.firsts) /\ t[N + 1].next = Len(parser.inputs) + 1
  BY DEF Told
<1>8. Follows(t, steps, more, held, leads)
  <2>1. Follows(t, steps, parser.inputs, held, leads)
    BY <1>3, <1>7
  <2>. HIDE DEF held
  <2>. QED
    BY <2>1, FollowsMore
<1>9. Len(more) = Len(parser.inputs) + 1 /\ Len(parser.inputs) \in Nat /\ more[Len(parser.inputs) + 1] = file
  BY <1>1, SeqAppend, SeqShape
<1>. DEFINE last == t[N + 1]
            t1 == Append(t, last)
<1>10. /\ IsMachine(last, more) /\ last.scopes = held /\ Here(last) = held[L] /\ last = Machine(held, last.next)
  <2>. HIDE DEF held, more
  <2>1. /\ IsMachine(t[Len(steps) + 1], more) /\ Here(t[Len(steps) + 1]) = held[Len(held)]
        /\ t[Len(steps) + 1] = Machine(held, t[Len(steps) + 1].next)
    BY <1>8, FollowsIs
  <2>2. t[Len(steps) + 1].scopes = held
    BY <1>8 DEF Follows
  <2>. QED
    BY <1>1, <2>1, <2>2
<1>11. Follows(t1, step1, more, held, leads) /\ t1[N + 2] = last
  <2>1. Legal(last, source, last, more)
    BY DEF Legal, Rests
  <2>2. \A i \in 1..Len(held) : leads[i] = NoLead \/ SameLead(leads[i], i, source, held, leads)
    BY <1>1, <1>3, EndedOn
  <2>3. IsSeq(leads) /\ Len(leads) = Len(held)
    BY <1>1, <1>3 DEF TopOnly
  <2>4. Trace(t, steps, Start, more)
    BY <1>8 DEF Follows
  <2>5. OneMore(t1, step1, t, steps, source, last)
    BY <2>4, Longer
  <2>6. t1[N + 2] = last
    <3>. HIDE DEF t1, step1, last
    <3>. QED
      BY <2>5 DEF OneMore
  <2>. HIDE DEF held, source
  <2>7. Follows(t1, step1, more, held, leads)
    BY <1>8, <1>10, <2>1, <2>2, <2>3, FollowsOn
  <2>. QED
    BY <2>6, <2>7
<1>12. \E u : /\ Follows(u, step2, more, SetTop(held, ps), leads)
              /\ u[Len(step2) + 1].next = Len(more) + 1
  <2>. DEFINE next == Len(more) + 1
  <2>1. Pictured(ps)
    BY <1>2, PicturedAppend, PicturesAre
  <2>2. next \in 1..Len(more) + 1
    BY <1>9
  <2>3. last.next = Len(parser.inputs) + 1 /\ last.next <= Len(more) /\ more[last.next] = file /\ last.next + 1 = next
    BY <1>7, <1>9
  <2>4. parser.pending = meant.since
    BY DEF Told
  <2>5. Decodes(last, decode, Puts(last, ps, next), more)
    <3>1. ps = Append(Here(last), Read(more[last.next], decode.options))
      BY <1>10, <2>3, <2>4
    <3>. QED
      BY <2>3, <3>1 DEF Decodes
  <2>6. Legal(last, decode, Puts(last, ps, next), more)
    BY <2>5 DEF Legal
  <2>7. t1[Len(step1) + 1] = last
    <3>1. Len(step1) + 1 = N + 2
      BY <1>1, <1>6
    <3>. QED
      BY <1>11, <3>1
  <2>8. TopOnly(leads, leads)
    BY <1>1, <1>3 DEF TopOnly
  <2>9. \A i \in 1..Len(held) : leads[i] = NoLead \/ SameLead(leads[i], i, decode, held, leads)
    <3>1. decode.kind = "decode"
      OBVIOUS
    <3>. HIDE DEF held, N, decode
    <3>. QED
      BY <1>1, <1>3, <3>1, EndedOn
  <2>10. leads[Len(held)] = NoLead \/ SameLead(leads[Len(held)], Len(held), decode, held, leads)
    BY <1>1, <1>2, <2>9
  <2>11. \A i \in 1..Len(held) - 1 : leads[i] = NoLead \/ leads[i].end # 0
    <3>1. \A i \in 1..Len(held) : leads[i] = NoLead \/ leads[i].end # 0
      BY <1>3 DEF Ended
    <3>. QED
      BY <1>1, <3>1
  <2>12. Legal(t1[Len(step1) + 1], decode, Puts(t1[Len(step1) + 1], ps, next), more)
    BY <2>6, <2>7
  <2>. HIDE DEF held, ps, last, t1, step1, more, next, decode
  <2>13. \E u : /\ Follows(u, Append(step1, decode), more, SetTop(held, ps), leads)
                /\ u[Len(Append(step1, decode)) + 1].next = next
    <3>1. StepsOn(t1, step1, more, held, leads, decode, ps, next, leads)
      BY <1>11, <2>1, <2>2, <2>8, <2>10, <2>11, <2>12 DEF StepsOn
    <3>. QED
      BY <3>1, FollowsTop
  <2>. QED
    BY <2>13 DEF next
<1>13. TopLead(leads[L], Len(held[L]) + 1, Len(step2)) /\ (held[L] = None => ~leads[L].shape)
  <2>1. Len(step2) \in Nat /\ N <= Len(step2)
    BY <1>1, <1>6
  <2>. HIDE DEF L, held, N, step2
  <2>. QED
    BY <1>1, <1>2, <1>3, <2>1, EndedTop
<1>14. leads[L].shape = (IF held[L] = None THEN FALSE ELSE meant.scopes[L].shape)
  <2>1. meant.scopes[L].shape = parser.firsts[L].shape
    BY <1>2 DEF Told, Counts
  <2>2. leads[L].shape \in BOOLEAN
    <3>1. parser.firsts[L] \in Leads
      BY <1>2, ToldIs
    <3>2. parser.firsts[L].shape \in BOOLEAN
      BY <3>1 DEF Leads
    <3>. QED
      BY <1>3, <3>2
  <2>. QED
    BY <1>3, <1>13, <2>1, <2>2
<1>15. Len(p.steps) \in Nat /\ N <= Len(p.steps)
  BY <1>1, <1>5, <1>6, SMTT(30)
<1>16. Another(parser, meant, picture, FALSE, p, m, L)
  <2>1. picture # None
    BY PicturesAre
  <2>2. \E u : /\ Follows(u, p.steps, p.inputs, SetTop(held, Append(meant.scopes[L].pictures, picture)), p.firsts)
               /\ u[Len(p.steps) + 1].next = Len(p.inputs) + 1
    BY <1>2, <1>4, <1>5, <1>12
  <2>3. TopLead(p.firsts[L], Len(meant.scopes[L].pictures) + 1, Len(p.steps))
    BY <1>2, <1>4, <1>5, <1>13
  <2>4. p.firsts[L].shape = (IF meant.scopes[L].pictures = None THEN FALSE ELSE meant.scopes[L].shape)
    BY <1>2, <1>4, <1>14
  <2>5. TopOnly(parser.firsts, p.firsts)
    BY <1>3, <1>4
  <2>. HIDE DEF picture, leads, step2
  <2>6. m = [scopes |-> SetTop(meant.scopes, [pictures |-> Append(Last(meant.scopes).pictures, picture),
                                              shape |-> IF Last(meant.scopes).pictures = None
                                                        THEN FALSE ELSE Last(meant.scopes).shape]),
             since |-> None]
    BY DEF picture
  <2>. QED
    BY <1>4, <1>15, <2>1, <2>2, <2>3, <2>4, <2>5, <2>6 DEF Another
<1>. HIDE DEF L, picture
<1>. QED
  BY <1>16, TellAnother

(* Nothing is under way outside the innermost parenthesis.                 *)
LEMMA CountedOuter ==
  ASSUME NEW held, NEW leads, NEW N, Counted(held, leads, N), Len(held) \in Nat \ {0}
  PROVE  \A i \in 1..Len(held) - 1 : leads[i] = NoLead \/ leads[i].end # 0
<1>. SUFFICES ASSUME NEW i \in 1..Len(held) - 1 PROVE leads[i] = NoLead \/ leads[i].end # 0
  OBVIOUS
<1>1. i \in 1..Len(held) /\ i # Len(held)
  OBVIOUS
<1>. QED
  BY <1>1 DEF Counted

(* Leads that have ended are none or have an end.                          *)
LEMMA EndedOuter ==
  ASSUME NEW held, NEW leads, NEW N, Ended(held, leads, N), Len(held) \in Nat \ {0}
  PROVE  \A i \in 1..Len(held) - 1 : leads[i] = NoLead \/ leads[i].end # 0
<1>1. \A i \in 1..Len(held) - 1 : i \in 1..Len(held)
  OBVIOUS
<1>. QED
  BY <1>1 DEF Ended

(* A brush painted, a shape that leads or another: Reader::paint.          *)
LEMMA TellBrush ==
  ASSUME Told(parser, meant), NEW brush, NEW shape, shape = (brush \in Shapes),
         NEW p, p = [parser EXCEPT
                       !.pending = None,
                       !.firsts = IF Pictures = 0
                                  THEN SetTop(@, [begin |-> Len(parser.steps) + 1, end |-> 0, shape |-> shape])
                                  ELSE Starting,
                       !.steps = Append(@, Generate(brush, parser.pending)),
                       !.scopes = SetTop(@, Last(@) + 1)],
         NEW picture, picture = Paint(brush, meant.since,
                                      MeantSize(brush, meant.since, Last(meant.scopes).pictures)),
         NEW m, m = [scopes |-> SetTop(meant.scopes,
                                  [pictures |-> Append(Last(meant.scopes).pictures, picture),
                                   shape |-> IF Last(meant.scopes).pictures = None
                                             THEN shape ELSE Last(meant.scopes).shape]),
                     since |-> None]
  PROVE  Told(p, m)
<1>. DEFINE s == Generate(brush, parser.pending)
            steps == parser.steps
            N == Len(steps)
            r == Append(steps, s)
            inputs == parser.inputs
            firsts == parser.firsts
            held == HeldOf(meant.scopes)
            L == Len(meant.scopes)
            ps == Append(held[L], picture)
            lead == [begin |-> N + 1, end |-> 0, shape |-> shape]
            leads2 == IF Pictures = 0 THEN SetTop(firsts, lead) ELSE Starting
<1>1. /\ L \in Nat \ {0} /\ Len(firsts) = L /\ IsSeq(firsts) /\ N \in Nat /\ Len(held) = L
      /\ IsSeq(steps) /\ IsSeq(inputs) /\ Last(meant.scopes) = meant.scopes[L]
      /\ Pictures = Len(meant.scopes[L].pictures)
      /\ \A i \in 1..L : held[i] = meant.scopes[i].pictures /\ Pictured(meant.scopes[i].pictures)
  BY ToldIs, SMTT(30) DEF Pictures
<1>2. L \in 1..L /\ held[L] = meant.scopes[L].pictures /\ Pictured(held[L]) /\ IsSeq(held[L])
  BY <1>1, SMTT(30) DEF Pictured
<1>3. Pictures = 0 <=> held[L] = None
  BY <1>1, <1>2, SeqShape
<1>4. /\ IsParser(p) /\ p.pending = None /\ p.firsts = leads2 /\ p.inputs = inputs
      /\ p.steps = r /\ p.scopes = SetTop(parser.scopes, Last(parser.scopes) + 1)
  BY DEF Told, IsParser
<1>5. IsSeq(r) /\ Len(r) = N + 1
  BY <1>1, SeqAppend
<1>6. PICK t : Follows(t, steps, inputs, held, firsts) /\ t[N + 1].next = Len(inputs) + 1
  BY DEF Told
<1>. DEFINE last == t[N + 1]
            next == Len(inputs) + 1
            n == Puts(last, ps, next)
<1>7. IsMachine(last, inputs) /\ Here(last) = held[L] /\ last.scopes = held
  <2>. HIDE DEF held
  <2>1. IsMachine(t[Len(steps) + 1], inputs) /\ Here(t[Len(steps) + 1]) = held[Len(held)]
    BY <1>6, FollowsIs, SMTT(30)
  <2>2. t[Len(steps) + 1].scopes = held
    BY <1>6 DEF Follows
  <2>. QED
    BY <1>1, <2>1, <2>2
<1>8. picture = Paint(brush, parser.pending, MeantSize(brush, parser.pending, held[L])) /\ picture # None
  BY <1>1, <1>2, PicturesAre, SMTT(30) DEF Told
<1>9. Generates(last, s, n) /\ s.kind = "generate" /\ s.brush = brush
  <2>1. s.kind = "generate" /\ s.brush = brush /\ s.options = parser.pending
    BY DEF Generate
  <2>2. ps = Append(Here(last), Paint(s.brush, s.options, MeantSize(s.brush, s.options, Here(last))))
    BY <1>7, <1>8, <2>1
  <2>. QED
    BY <1>6, <2>1, <2>2 DEF Generates
<1>10. Legal(last, s, n, inputs) /\ Pictured(ps) /\ next \in 1..Len(inputs) + 1
  <2>1. Pictured(ps)
    BY <1>2, <1>8, PicturedAppend
  <2>2. next \in 1..Len(inputs) + 1
    BY <1>1, SeqShape
  <2>. QED
    BY <1>9, <2>1, <2>2 DEF Legal
<1>11. Counted(held, firsts, N) /\ Trace(t, steps, Start, inputs)
  BY <1>6 DEF Told, Follows
<1>. DEFINE Kept(leads) == Follows(t, steps, inputs, held, leads) /\ StepsOn(t, steps, inputs, held, leads, s, ps, next, leads2)
<1>. DEFINE Grown == /\ \E leads : Kept(leads)
                     /\ TopOnly(firsts, leads2) /\ TopLead(leads2[L], Len(held[L]) + 1, Len(r))
                     /\ leads2[L].shape = (IF held[L] = None THEN shape ELSE meant.scopes[L].shape)
<1>12. ASSUME Pictures = 0 PROVE Grown
  <2>1. leads2 = SetTop(firsts, lead) /\ held[L] = None
    BY <1>3, <1>12
  <2>2. lead \in Leads /\ lead.begin = N + 1 /\ lead.end = 0 /\ lead.shape = shape
    BY <1>1 DEF Leads
  <2>. HIDE DEF lead, leads2
  <2>3. TopOnly(firsts, leads2) /\ leads2[L] = lead
    BY <1>1, <2>1, TopOnlyIs, SMTT(30)
  <2>4. \A i \in 1..L - 1 : firsts[i] = NoLead \/ firsts[i].end # 0
    <3>. HIDE DEF held, firsts, N
    <3>. QED
      BY <1>1, <1>11, CountedOuter, SMTT(30)
  <2>5. Len(SetTop(held, ps)) = L
    <3>1. IsSeq(held) /\ Len(held) >= 1
      BY <1>1, <1>6, FollowsIs
    <3>. HIDE DEF held, ps
    <3>2. Len(SetTop(held, ps)) = Len(held)
      BY <3>1, SeqTop
    <3>. QED
      BY <1>1, <3>2, SMTT(30)
  <2>6. ASSUME shape PROVE ShapeFits(Append(t, n), r, lead, L)
    <3>1. Paints(s)
      BY <1>9, <2>6 DEF Paints
    <3>2. Len(t[Len(steps) + 1].scopes) = L /\ Here(t[Len(steps) + 1]) = None
      BY <1>1, <1>7, <2>1
    <3>3. Generates(t[Len(steps) + 1], s, n)
      BY <1>9
    <3>4. ShapeFits(Append(t, n), Append(steps, s), lead, Len(t[Len(steps) + 1].scopes))
      <4>. HIDE DEF n, s, held, inputs, L
      <4>. QED
        BY <1>11, <2>2, <3>1, <3>2, <3>3, ShapeStarts
    <3>. QED
      BY <3>2, <3>4
  <2>7. NewLead(leads2[L], L, Append(t, n), r, held, firsts, SetTop(held, ps))
    <3>1. lead.end <= Len(r) /\ lead.begin = Len(r)
      BY <1>1, <1>5, <2>2, SMTT(30)
    <3>. HIDE DEF n, r, held, ps, L
    <3>. QED
      BY <2>2, <2>3, <2>5, <2>6, <3>1 DEF NewLead
  <2>8. Kept(firsts)
    <3>. HIDE DEF ps, next, s, held, firsts
    <3>. QED
      BY <1>1, <1>6, <1>10, <2>3, <2>4, <2>7 DEF StepsOn
  <2>9. TopLead(leads2[L], Len(held[L]) + 1, Len(r)) /\ leads2[L].shape = shape
    <3>1. Len(held[L]) + 1 = 1
      BY <1>1, <1>2, <1>12
    <3>2. lead.begin \in 1..Len(r)
      BY <1>1, <1>5, <2>2
    <3>. HIDE DEF r
    <3>. QED
      BY <2>2, <2>3, <3>1, <3>2 DEF TopLead
  <2>. HIDE DEF Kept
  <2>. QED
    BY <2>1, <2>3, <2>8, <2>9
<1>13. ASSUME Pictures # 0 PROVE Grown
  <2>1. leads2 = Starting /\ held[L] # None
    BY <1>3, <1>13
  <2>. HIDE DEF leads2
  <2>2. /\ TopOnly(firsts, leads2) /\ Ended(held, leads2, N)
        /\ leads2[L].shape = firsts[L].shape
        /\ Follows(t, steps, inputs, held, leads2)
    BY <1>6, <2>1, StartingIs
  <2>3. TopOnly(leads2, leads2)
    BY <1>1, <2>2 DEF TopOnly
  <2>4. \A i \in 1..Len(held) : leads2[i] = NoLead \/ SameLead(leads2[i], i, s, held, leads2)
    <3>. HIDE DEF held, N, s
    <3>. QED
      BY <1>1, <1>9, <2>2, EndedOn, SMTT(30)
  <2>5. leads2[L] = NoLead \/ SameLead(leads2[L], L, s, held, leads2)
    BY <1>1, <1>2, <2>4, SMTT(30)
  <2>6. \A i \in 1..L - 1 : leads2[i] = NoLead \/ leads2[i].end # 0
    <3>. HIDE DEF held, N
    <3>. QED
      BY <1>1, <2>2, EndedOuter, SMTT(30)
  <2>7. Kept(leads2)
    <3>. HIDE DEF ps, next, s, held
    <3>. QED
      BY <1>1, <1>10, <2>2, <2>3, <2>5, <2>6 DEF StepsOn
  <2>8. TopLead(leads2[L], Len(held[L]) + 1, Len(r))
    <3>1. Len(r) \in Nat /\ N <= Len(r)
      BY <1>1, <1>5, SMTT(30)
    <3>. HIDE DEF L, held, N, r
    <3>. QED
      BY <1>1, <1>2, <2>2, <3>1, EndedTop
  <2>9. leads2[L].shape = meant.scopes[L].shape
    BY <1>2, <2>2 DEF Told, Counts
  <2>. HIDE DEF Kept
  <2>. QED
    BY <2>1, <2>2, <2>7, <2>8, <2>9
<1>14. Grown
  BY <1>12, <1>13, SMTT(30)
<1>15. \E u : /\ Follows(u, p.steps, p.inputs, SetTop(held, Append(meant.scopes[L].pictures, picture)), p.firsts)
              /\ u[Len(p.steps) + 1].next = Len(p.inputs) + 1
  <2>1. PICK leads : Kept(leads)
    BY <1>14
  <2>2. StepsOn(t, steps, inputs, held, leads, s, ps, next, leads2)
    BY <2>1
  <2>. HIDE DEF ps, next, s, held, leads2, steps, inputs
  <2>3. \E u : /\ Follows(u, Append(steps, s), inputs, SetTop(held, ps), leads2)
               /\ u[Len(Append(steps, s)) + 1].next = next
    BY <2>2, FollowsTop, SMTT(30)
  <2>. QED
    BY <1>2, <1>4, <2>3 DEF ps, next, steps, inputs
<1>16. Another(parser, meant, picture, shape, p, m, L)
  <2>1. TopLead(p.firsts[L], Len(meant.scopes[L].pictures) + 1, Len(p.steps)) /\ TopOnly(parser.firsts, p.firsts)
    BY <1>2, <1>4, <1>14, SMTT(30)
  <2>2. p.firsts[L].shape = (IF meant.scopes[L].pictures = None THEN shape ELSE meant.scopes[L].shape)
    BY <1>2, <1>4, <1>14, SMTT(30)
  <2>3. Len(p.steps) \in Nat /\ N <= Len(p.steps)
    BY <1>1, <1>4, <1>5, SMTT(30)
  <2>4. Told(parser, meant) /\ L = Len(meant.scopes) /\ picture # None
    BY <1>8
  <2>5. IsParser(p) /\ p.pending = None /\ p.scopes = SetTop(parser.scopes, Last(parser.scopes) + 1)
    BY <1>4
  <2>6. m = [scopes |-> SetTop(meant.scopes, [pictures |-> Append(Last(meant.scopes).pictures, picture),
                                              shape |-> IF Last(meant.scopes).pictures = None
                                                        THEN shape ELSE Last(meant.scopes).shape]),
             since |-> None]
    OBVIOUS
  <2>7. Len(steps) \in Nat /\ Len(steps) <= Len(p.steps) /\ Len(p.steps) \in Nat
    BY <2>3
  <2>. HIDE DEF leads2, r, s, L, ps, n, lead
  <2>. QED
    BY <1>15, <2>1, <2>2, <2>4, <2>5, <2>6, <2>7, ZenonT(60) DEF Another
<1>. HIDE DEF L
<1>. QED
  BY <1>16, TellAnother

(* A transform of the last picture: Reader::transform.                     *)
LEMMA TellTransform ==
  ASSUME Told(parser, meant), NEW kind \in PlainKinds, Pictures > 0,
         NEW p, p = [parser EXCEPT !.pending = None, !.steps = Append(@, Step(kind))],
         NEW made, made = (IF kind = "pixpalette" THEN Last(Last(meant.scopes).pictures)
                           ELSE Changed(kind, meant.since, Last(Last(meant.scopes).pictures))),
         NEW m, m = [scopes |-> SetTop(meant.scopes, [Last(meant.scopes) EXCEPT !.pictures = SetTop(@, made)]),
                     since |-> None]
  PROVE  Told(p, m)
<1>. DEFINE s == Step(kind)
            steps == parser.steps
            N == Len(steps)
            r == Append(steps, s)
            inputs == parser.inputs
            firsts == parser.firsts
            held == HeldOf(meant.scopes)
            L == Len(meant.scopes)
            here == meant.scopes[L]
            ps == SetTop(held[L], made)
            lead == firsts[L]
            top == [here EXCEPT !.pictures = SetTop(@, made)]
<1>1. /\ L \in Nat \ {0} /\ Len(firsts) = L /\ IsSeq(firsts) /\ N \in Nat /\ Len(held) = L
      /\ IsSeq(steps) /\ IsSeq(inputs) /\ Last(meant.scopes) = here /\ IsSeq(meant.scopes)
      /\ IsSeq(parser.scopes) /\ Len(parser.scopes) = L
      /\ Pictures = Len(here.pictures)
      /\ \A i \in 1..L : held[i] = meant.scopes[i].pictures /\ Pictured(meant.scopes[i].pictures)
  BY ToldIs DEF Pictures
<1>2. L \in 1..L /\ held[L] = here.pictures /\ Pictured(held[L]) /\ IsSeq(held[L]) /\ Len(held[L]) > 0
  BY <1>1 DEF Pictured
<1>3. held[L] # None /\ Len(held[L]) \in Nat \ {0}
  BY <1>2, SeqShape
<1>4. /\ IsParser(p) /\ p.pending = None /\ p.firsts = firsts /\ p.inputs = inputs
      /\ p.steps = r /\ p.scopes = parser.scopes
  BY DEF Told, IsParser
<1>5. IsSeq(r) /\ Len(r) = N + 1
  BY <1>1, SeqAppend
<1>6. PICK t : Follows(t, steps, inputs, held, firsts) /\ t[N + 1].next = Len(inputs) + 1
  BY DEF Told
<1>. DEFINE last == t[N + 1]
            next == Len(inputs) + 1
            n == Puts(last, ps, next)
<1>7. IsMachine(last, inputs) /\ Here(last) = held[L] /\ last.scopes = held /\ Len(last.scopes) = L
  <2>. HIDE DEF held
  <2>1. IsMachine(t[Len(steps) + 1], inputs) /\ Here(t[Len(steps) + 1]) = held[Len(held)]
    BY <1>6, FollowsIs
  <2>2. t[Len(steps) + 1].scopes = held
    BY <1>6 DEF Follows
  <2>. QED
    BY <1>1, <2>1, <2>2
<1>8. Last(held[L]) # None /\ made = Made(s, Last(held[L])) /\ made # None /\ s.kind = kind
  <2>1. Last(held[L]) # None
    BY <1>3, <1>7, IsHere
  <2>2. s.kind = kind /\ s.options = meant.since
    BY DEF Step, Told
  <2>3. made = Made(s, Last(held[L]))
    BY <1>1, <1>2, <2>2 DEF Made
  <2>. HIDE DEF s
  <2>. QED
    BY <2>1, <2>2, <2>3, MadeIs
<1>9. Changes(last, s, n)
  BY <1>3, <1>6, <1>7, <1>8 DEF Changes
<1>10. Legal(last, s, n, inputs) /\ Pictured(ps) /\ next \in 1..Len(inputs) + 1 /\ Len(ps) = Len(held[L]) /\ ps # None
  <2>1. Pictured(ps)
    BY <1>2, <1>3, <1>8, PicturedTop
  <2>2. next \in 1..Len(inputs) + 1
    BY <1>1, SeqShape
  <2>3. Len(ps) = Len(held[L])
    <3>. DEFINE h == held[L]
    <3>1. IsSeq(h) /\ Len(h) >= 1
      BY <1>2, <1>3
    <3>. HIDE DEF h
    <3>2. Len(SetTop(h, made)) = Len(h)
      BY <3>1, SeqTop
    <3>. QED
      BY <3>2 DEF h
  <2>4. ps # None
    BY <1>3, <2>1, <2>3, SeqShape DEF Pictured
  <2>. QED
    BY <1>9, <2>1, <2>2, <2>3, <2>4 DEF Legal
<1>11. Counted(held, firsts, N) /\ Trace(t, steps, Start, inputs)
  BY <1>6 DEF Told, Follows
<1>12. /\ lead # NoLead => lead \in Leads /\ lead.begin \in 1..N
       /\ lead # NoLead /\ lead.end = 0 => Len(held[L]) = 1
       /\ lead.end # 0 => Len(held[L]) >= 2
  <2>1. ~(L < L) /\ L \in 1..Len(held)
    BY <1>1
  <2>. HIDE DEF held, N
  <2>. QED
    BY <1>1, <1>11, <2>1 DEF Counted
<1>13. lead = NoLead \/ SameLead(lead, L, s, held, firsts)
       \/ NewLead(lead, L, Append(t, n), r, held, firsts, SetTop(held, ps))
  <2>1. CASE lead = NoLead
    BY <2>1
  <2>2. CASE lead.end # 0
    <3>1. Len(held[L]) >= 2 /\ s.kind # "composite" /\ L <= Len(held)
      BY <1>1, <1>8, <1>12, <2>2 DEF PlainKinds
    <3>. QED
      BY <2>2, <3>1 DEF SameLead
  <2>3. CASE lead # NoLead /\ lead.end = 0
    <3>1. Len(held[L]) = 1 /\ lead \in Leads /\ lead.end <= Len(r) /\ L <= Len(held)
      BY <1>1, <1>5, <1>12, <2>3
    <3>2. ASSUME lead.shape PROVE ShapeFits(Append(t, n), r, lead, L)
      <4>1. ShapeFits(t, steps, lead, L)
        BY <1>1, <1>2, <1>6, <3>2 DEF Follows, Shaped
      <4>2. Len(t[Len(steps) + 1].scopes) = L /\ Len(Here(t[Len(steps) + 1])) = 1 /\ Changes(t[Len(steps) + 1], s, n)
        BY <1>7, <1>9, <3>1
      <4>. HIDE DEF n, s, held, inputs, L, lead, steps
      <4>3. ShapeFits(Append(t, n), Append(steps, s), lead, Len(t[Len(steps) + 1].scopes))
        BY <1>11, <2>3, <3>1, <4>1, <4>2, ShapeGrows
      <4>. QED
        BY <4>2, <4>3
    <3>3. L = Len(SetTop(held, ps))
      <4>1. IsSeq(held) /\ Len(held) >= 1
        BY <1>1, <1>6, FollowsIs
      <4>. HIDE DEF held, ps
      <4>2. Len(SetTop(held, ps)) = Len(held)
        BY <4>1, SeqTop
      <4>. QED
        BY <1>1, <4>2
    <3>. HIDE DEF n, s, held, r, L, ps
    <3>4. NewLead(lead, L, Append(t, n), r, held, firsts, SetTop(held, ps))
      BY <3>1, <3>2, <3>3 DEF NewLead
    <3>. QED
      BY <3>4
  <2>. QED
    BY <2>1, <2>2, <2>3
<1>14. TopOnly(firsts, firsts) /\ TopOnly(parser.scopes, parser.scopes)
  BY <1>1 DEF TopOnly
<1>15. StepsOn(t, steps, inputs, held, firsts, s, ps, next, firsts)
  <2>1. \A i \in 1..Len(held) - 1 : firsts[i] = NoLead \/ firsts[i].end # 0
    <3>. HIDE DEF held, N, firsts
    <3>. QED
      BY <1>1, <1>11, CountedOuter
  <2>. HIDE DEF ps, next, s, held, firsts, L
  <2>2. L = Len(held)
    BY <1>1
  <2>. QED
    BY <1>6, <1>10, <1>13, <1>14, <2>1, <2>2 DEF StepsOn
<1>16. \E u : /\ Follows(u, p.steps, p.inputs, SetTop(held, ps), p.firsts)
              /\ u[Len(p.steps) + 1].next = Len(p.inputs) + 1
  <2>. HIDE DEF ps, next, s, held, firsts, steps, inputs
  <2>1. \E u : /\ Follows(u, Append(steps, s), inputs, SetTop(held, ps), firsts)
               /\ u[Len(Append(steps, s)) + 1].next = next
    BY <1>15, FollowsTop
  <2>. QED
    BY <1>4, <2>1 DEF next
<1>17. IsScope(here) /\ here.shape = lead.shape
  BY <1>2 DEF Told, Counts
<1>18. top.pictures = ps /\ top.shape = lead.shape /\ IsScope(top)
  BY <1>2, <1>17 DEF IsScope
<1>19. TopOnly(meant.scopes, SetTop(meant.scopes, top)) /\ SetTop(meant.scopes, top)[L] = top
  <2>1. IsSeq(meant.scopes) /\ Len(meant.scopes) \in Nat \ {0} /\ L = Len(meant.scopes)
    BY <1>1
  <2>. HIDE DEF top, L
  <2>. QED
    BY <2>1, TopOnlyIs
<1>20. IsMeant(m) /\ m.scopes = SetTop(meant.scopes, top) /\ m.since = None
  BY <1>1, SMTT(30) DEF IsMeant
<1>21. p.scopes[L] = Len(ps)
  BY <1>2, <1>4, <1>10, SMTT(30) DEF Told, Counts
<1>22. TopLead(lead, Len(ps), Len(p.steps))
  BY <1>1, <1>4, <1>5, <1>10, <1>12, SMTT(30) DEF TopLead
<1>23. Tops(parser, meant, p, m, L)
  <2>1. Len(p.steps) \in Nat /\ Len(parser.steps) <= Len(p.steps)
    BY <1>1, <1>4, <1>5
  <2>. HIDE DEF top, ps, held, lead
  <2>. QED
    BY <1>4, <1>10, <1>14, <1>16, <1>18, <1>19, <1>20, <1>21, <1>22, <2>1, SeqEmpty, ZenonT(60) DEF Tops, lead, held
<1>. HIDE DEF L
<1>. QED
  BY <1>23, ToldTop

(* A parenthesis opened: Reader::open.                                     *)
LEMMA TellOpen ==
  ASSUME Told(parser, meant), NEW s, s = [kind |-> "open"], NEW x, x = [pictures |-> None, shape |-> FALSE],
         NEW p, p = [parser EXCEPT !.scopes = Append(@, 0), !.firsts = Append(Starting, NoLead),
                                   !.steps = Append(@, s)],
         NEW m, m = [meant EXCEPT !.scopes = Append(@, x)]
  PROVE  Told(p, m)
<1>. DEFINE steps == parser.steps
            N == Len(steps)
            r == Append(steps, s)
            inputs == parser.inputs
            held == HeldOf(meant.scopes)
            L == Len(meant.scopes)
            leads == Starting
            leads2 == Append(leads, NoLead)
            held2 == Append(held, None)
<1>1. /\ L \in Nat \ {0} /\ Len(parser.firsts) = L /\ IsSeq(parser.firsts) /\ N \in Nat /\ Len(held) = L
      /\ IsSeq(steps) /\ IsSeq(inputs) /\ IsSeq(meant.scopes) /\ IsSeq(parser.scopes) /\ Len(parser.scopes) = L
      /\ \A i \in 1..L : held[i] = meant.scopes[i].pictures
  BY ToldIs
<1>2. PICK t : Follows(t, steps, inputs, held, parser.firsts) /\ t[N + 1].next = Len(inputs) + 1
  BY DEF Told
<1>3. /\ TopOnly(parser.firsts, leads) /\ Ended(held, leads, N) /\ leads[L].shape = parser.firsts[L].shape
      /\ Follows(t, steps, inputs, held, leads)
  BY <1>2, StartingIs
<1>. HIDE DEF leads
<1>4. /\ IsParser(p) /\ p.pending = parser.pending /\ p.firsts = leads2 /\ p.inputs = inputs
      /\ p.steps = r /\ p.scopes = Append(parser.scopes, 0)
  BY DEF Told, IsParser, leads
<1>5. IsMeant(m) /\ m.scopes = Append(meant.scopes, x) /\ m.since = meant.since
  BY DEF Told, IsMeant
<1>6. IsSeq(leads) /\ Len(leads) = L
  BY <1>1, <1>3 DEF TopOnly
<1>7. /\ IsSeq(leads2) /\ Len(leads2) = L + 1 /\ leads2[L + 1] = NoLead
      /\ \A i \in 1..L : leads2[i] = leads[i]
  BY <1>6, SeqAppend
<1>8. /\ Len(held2) = L + 1 /\ held2[L + 1] = None
      /\ \A i \in 1..L : held2[i] = held[i]
  <2>1. IsSeq(held)
    BY <1>1, HeldIs
  <2>. HIDE DEF held
  <2>. QED
    BY <1>1, <2>1, SeqAppend
<1>9. Len(r) = N + 1
  BY <1>1, SeqAppend
<1>10. HeldOf(m.scopes) = held2
  <2>1. x.pictures = None
    OBVIOUS
  <2>2. HeldOf(Append(meant.scopes, x)) = Append(HeldOf(meant.scopes), x.pictures)
    BY <1>1, HeldAppend
  <2>. QED
    BY <1>5, <2>1, <2>2
<1>11. \A i \in 1..L + 1 : i = L + 1 \/ i \in 1..L
  BY <1>1
<1>. DEFINE last == t[N + 1]
            n == Machine(Append(last.scopes, None), last.next)
            u == Append(t, n)
<1>12. Legal(last, s, n, inputs) /\ n.scopes = held2 /\ n.next = Len(inputs) + 1
  <2>1. last.scopes = held
    BY <1>2 DEF Follows
  <2>. QED
    BY <1>2, <2>1 DEF Legal, Opens, Machine
<1>13. ASSUME NEW i \in 1..L + 1
       PROVE  leads2[i] = NoLead \/ SameLead(leads2[i], i, s, held, leads)
  <2>1. \A j \in 1..Len(held) : leads[j] = NoLead \/ SameLead(leads[j], j, s, held, leads)
    <3>1. s.kind = "open"
      OBVIOUS
    <3>. HIDE DEF held, N
    <3>. QED
      BY <1>1, <1>3, <3>1, EndedOn
  <2>. QED
    BY <1>1, <1>7, <1>11, <2>1
<1>. HIDE DEF leads2, held2, n
<1>14. Follows(u, r, inputs, held2, leads2)
  <2>1. \A i \in 1..Len(held2) :
          \/ leads2[i] = NoLead
          \/ SameLead(leads2[i], i, s, held, leads)
          \/ NewLead(leads2[i], i, Append(t, n), Append(steps, s), held, leads, held2)
    BY <1>8, <1>13
  <2>2. Legal(t[Len(steps) + 1], s, n, inputs) /\ Len(leads2) = Len(held2)
    BY <1>7, <1>8, <1>12
  <2>. HIDE DEF held, steps, inputs
  <2>. QED
    BY <1>3, <1>7, <1>12, <2>1, <2>2, FollowsOn DEF steps
<1>15. u[Len(r) + 1].next = Len(inputs) + 1
  <2>1. OneMore(u, r, t, steps, s, n)
    BY <1>2, Longer DEF Follows
  <2>2. Len(r) + 1 = N + 2
    BY <1>1, <1>9
  <2>3. u[N + 2] = n
    <3>. HIDE DEF u, r
    <3>. QED
      BY <2>1 DEF OneMore
  <2>. QED
    BY <1>12, <2>2, <2>3
<1>. HIDE DEF u, r
<1>16. Counted(held2, leads2, N + 1)
  <2>. SUFFICES ASSUME NEW i \in 1..L + 1
                PROVE  /\ held2[i] = None => leads2[i] = NoLead
                       /\ leads2[i] # NoLead => leads2[i] \in Leads /\ leads2[i].begin \in 1..N + 1
                       /\ leads2[i] # NoLead /\ leads2[i].end = 0 => i = L + 1 /\ Len(held2[i]) = 1
                       /\ leads2[i].end # 0 => i < L + 1 \/ Len(held2[i]) >= 2
    BY <1>8 DEF Counted
  <2>1. CASE i = L + 1
    BY <1>7, <2>1 DEF NoLead
  <2>2. CASE i \in 1..L
    <3>1. /\ held[i] = None => leads[i] = NoLead
          /\ leads[i] # NoLead => leads[i] \in Leads /\ leads[i].begin \in 1..N /\ leads[i].end # 0
      BY <1>1, <1>3, <2>2 DEF Ended
    <3>2. i < L + 1 /\ 1..N \subseteq 1..N + 1
      BY <1>1, <2>2
    <3>. QED
      BY <1>7, <1>8, <2>2, <3>1, <3>2
  <2>. QED
    BY <1>11, <2>1, <2>2
<1>17. Counts(p, m)
  <2>. DEFINE ms == Append(meant.scopes, x)
              qs == Append(parser.scopes, 0)
  <2>1. /\ IsSeq(ms) /\ Len(ms) = L + 1 /\ ms[L + 1] = x
        /\ \A i \in 1..L : ms[i] = meant.scopes[i]
    BY <1>1, SeqAppend
  <2>2. /\ IsSeq(qs) /\ Len(qs) = L + 1 /\ qs[L + 1] = 0
        /\ \A i \in 1..L : qs[i] = parser.scopes[i]
    BY <1>1, SeqAppend
  <2>. HIDE DEF ms, qs
  <2>3. ASSUME NEW i \in 1..L
        PROVE  /\ IsScope(meant.scopes[i]) /\ parser.scopes[i] = Len(meant.scopes[i].pictures)
               /\ meant.scopes[i].shape = leads[i].shape
    <3>1. /\ IsScope(meant.scopes[i]) /\ parser.scopes[i] = Len(meant.scopes[i].pictures)
          /\ meant.scopes[i].shape = parser.firsts[i].shape
      BY DEF Told, Counts
    <3>2. i = L \/ leads[i] = parser.firsts[i]
      <4>1. i = L \/ i \in 1..L - 1
        BY <1>1
      <4>. QED
        BY <1>1, <1>3, <4>1 DEF TopOnly
    <3>. QED
      BY <1>3, <3>1, <3>2
  <2>4. ASSUME NEW i \in 1..L + 1
        PROVE  IsScope(ms[i]) /\ qs[i] = Len(ms[i].pictures) /\ ms[i].shape = leads2[i].shape
    <3>1. CASE i = L + 1
      <4>1. IsScope(x) /\ Len(x.pictures) = 0 /\ x.shape = FALSE
        BY SeqEmpty DEF IsScope
      <4>2. ms[i] = x /\ qs[i] = 0 /\ leads2[i] = NoLead
        BY <1>7, <2>1, <2>2, <3>1
      <4>3. NoLead.shape = FALSE
        BY DEF NoLead
      <4>. QED
        BY <4>1, <4>2, <4>3
    <3>2. CASE i \in 1..L
      BY <1>7, <2>1, <2>2, <2>3, <3>2
    <3>. QED
      BY <1>11, <3>1, <3>2
  <2>5. m.scopes = ms /\ p.scopes = qs
    BY <1>4, <1>5 DEF ms, qs
  <2>6. /\ IsSeq(p.scopes) /\ IsSeq(m.scopes) /\ Len(p.scopes) = Len(m.scopes)
        /\ Len(m.scopes) = L + 1 /\ p.firsts = leads2
    BY <1>4, <2>1, <2>2, <2>5
  <2>7. \A i \in 1..L + 1 :
          /\ IsScope(m.scopes[i]) /\ p.scopes[i] = Len(m.scopes[i].pictures)
          /\ m.scopes[i].shape = p.firsts[i].shape
    BY <2>4, <2>5, <2>6, ZenonT(60)
  <2>. QED
    BY <2>6, <2>7 DEF Counts
<1>18. IsSeq(p.pending) /\ p.pending = m.since
  BY <1>4, <1>5 DEF Told
<1>19. Counted(HeldOf(m.scopes), p.firsts, Len(p.steps))
  BY <1>4, <1>9, <1>10, <1>16
<1>20. \E v : Follows(v, p.steps, p.inputs, HeldOf(m.scopes), p.firsts) /\ v[Len(p.steps) + 1].next = Len(p.inputs) + 1
  BY <1>4, <1>10, <1>14, <1>15
<1>. QED
  BY <1>4, <1>5, <1>17, <1>18, <1>19, <1>20 DEF Told

(* A parenthesis closed: Reader::close.                                    *)
LEMMA TellClose ==
  ASSUME Told(parser, meant), Len(parser.scopes) > 1, Pictures > 0, NEW s, s = [kind |-> "close"],
         NEW around, around = Last(Front(meant.scopes)),
         NEW x, x = [around EXCEPT !.pictures = @ \o Last(meant.scopes).pictures],
         NEW p, p = [parser EXCEPT !.scopes = SetTop(Front(@), Last(Front(@)) + Last(@)), !.firsts = Front(@),
                                   !.steps = Append(@, s)],
         NEW m, m = [meant EXCEPT !.scopes = SetTop(Front(@), x)]
  PROVE  Told(p, m)
<1>. DEFINE steps == parser.steps
            N == Len(steps)
            r == Append(steps, s)
            inputs == parser.inputs
            firsts == parser.firsts
            scopes == parser.scopes
            ms == meant.scopes
            held == HeldOf(ms)
            L == Len(ms)
            K == L - 1
            ps == held[K] \o held[L]
            held2 == SetTop(Front(held), ps)
            leads2 == Front(firsts)
            ms2 == SetTop(Front(ms), x)
            count == Last(Front(scopes)) + Last(scopes)
            scopes2 == SetTop(Front(scopes), count)
<1>1. /\ L \in Nat \ {0} /\ Len(firsts) = L /\ IsSeq(firsts) /\ N \in Nat /\ Len(held) = L
      /\ IsSeq(steps) /\ IsSeq(inputs) /\ IsSeq(ms) /\ IsSeq(scopes) /\ Len(scopes) = L
      /\ Last(ms) = ms[L] /\ Last(scopes) = Len(ms[L].pictures) /\ Pictures = Len(ms[L].pictures)
      /\ \A i \in 1..L : held[i] = ms[i].pictures /\ Pictured(ms[i].pictures)
  BY ToldIs, SMTT(30) DEF Pictures
<1>2. L >= 1 /\ K \in Nat \ {0} /\ K >= 1 /\ K \in 1..L - 1 /\ K \in 1..L /\ L \in 1..L /\ L > 1 /\ K < L
  BY <1>1, SMTT(30)
<1>3. /\ held[K] = ms[K].pictures /\ held[L] = ms[L].pictures /\ Pictured(held[K]) /\ Pictured(held[L])
      /\ IsSeq(held[K]) /\ IsSeq(held[L]) /\ Len(held[K]) \in Nat /\ Len(held[L]) \in Nat /\ Len(held[L]) > 0
  BY <1>1, <1>2, SeqShape, ZenonT(60) DEF Pictured
<1>4. PICK t : Follows(t, steps, inputs, held, firsts) /\ t[N + 1].next = Len(inputs) + 1
  BY DEF Told
<1>5. IsSeq(held)
  BY <1>1, HeldIs
<1>6. /\ IsParser(p) /\ p.pending = parser.pending /\ p.firsts = leads2 /\ p.inputs = inputs
      /\ p.steps = r /\ p.scopes = scopes2
  BY DEF Told, IsParser
<1>7. IsMeant(m) /\ m.scopes = ms2 /\ m.since = meant.since
  BY DEF Told, IsMeant
<1>8. Len(ps) = Len(held[K]) + Len(held[L]) /\ IsSeq(ps)
  <2>1. Concats(ps, held[K], held[L])
    BY <1>3, SeqConcats
  <2>. HIDE DEF ps
  <2>. QED
    BY <2>1, SMTT(30) DEF Concats
<1>9. ps # None /\ Len(ps) >= 1 /\ (held[K] # None => Len(ps) >= 2)
  <2>. DEFINE a == Len(held[K])
              b == Len(held[L])
              c == Len(ps)
  <2>0. a \in Nat /\ b \in Nat /\ b > 0 /\ c = a + b
    BY <1>3, <1>8
  <2>. HIDE DEF a, b, c
  <2>1. Len(ps) >= 1
    <3>1. c >= 1
      BY <2>0
    <3>. QED
      BY <3>1 DEF c
  <2>2. held[K] # None => Len(held[K]) >= 1
    BY <1>3, SeqShape
  <2>3. held[K] # None => Len(ps) >= 2
    <3>1. a >= 1 => c >= 2
      BY <2>0
    <3>. QED
      BY <2>2, <3>1 DEF a, c
  <2>. HIDE DEF ps
  <2>4. ps # None
    <3>1. IsSeq(ps)
      BY <1>8
    <3>2. ps = None <=> Len(ps) = 0
      BY <3>1, SeqShape, SMTT(30)
    <3>. QED
      BY <2>1, <3>2
  <2>. QED
    BY <2>1, <2>3, <2>4, SMTT(30)
(* What the fronts are. *)
<1>10. /\ IsSeq(Front(ms)) /\ Len(Front(ms)) = K /\ Front(ms)[K] = ms[K] /\ Last(Front(ms)) = ms[K]
       /\ \A i \in 1..K : Front(ms)[i] = ms[i]
  BY <1>1, <1>2, SeqFront, ZenonT(60) DEF Last
<1>11. /\ IsSeq(Front(scopes)) /\ Len(Front(scopes)) = K /\ Last(Front(scopes)) = scopes[K]
       /\ \A i \in 1..K : Front(scopes)[i] = scopes[i]
  <2>. DEFINE f == Front(scopes)
  <2>1. IsSeq(f) /\ Len(f) = K /\ \A i \in 1..K : f[i] = scopes[i]
    BY <1>1, <1>2, SeqFront, SMTT(30)
  <2>. HIDE DEF f, K
  <2>2. Last(f) = scopes[K]
    BY <1>2, <2>1 DEF Last
  <2>. QED
    BY <2>1, <2>2 DEF f
<1>12. /\ IsSeq(Front(held)) /\ Len(Front(held)) = K /\ Last(Front(held)) = held[K]
       /\ \A i \in 1..K : Front(held)[i] = held[i]
  <2>. DEFINE f == Front(held)
  <2>. HIDE DEF held
  <2>1. IsSeq(f) /\ Len(f) = K /\ \A i \in 1..K : f[i] = held[i]
    BY <1>1, <1>2, <1>5, SeqFront, SMTT(30)
  <2>. HIDE DEF f, K
  <2>2. Last(f) = held[K]
    BY <1>2, <2>1 DEF Last
  <2>. QED
    BY <2>1, <2>2 DEF f
<1>13. IsSeq(leads2) /\ Len(leads2) = K /\ \A i \in 1..K : leads2[i] = firsts[i]
  BY <1>1, <1>2, SeqFront
<1>14. /\ IsSeq(ms2) /\ Len(ms2) = K /\ ms2[K] = x /\ \A i \in 1..K - 1 : ms2[i] = ms[i]
  <2>1. TopOnly(Front(ms), ms2) /\ ms2[K] = x
    <3>. DEFINE f == Front(ms)
    <3>1. IsSeq(f) /\ Len(f) = K /\ Len(f) \in Nat \ {0}
      BY <1>2, <1>10
    <3>. HIDE DEF f
    <3>2. TopOnly(f, SetTop(f, x)) /\ SetTop(f, x)[Len(f)] = x
      BY <3>1, TopOnlyIs, ZenonT(60)
    <3>. QED
      BY <3>1, <3>2, SMTT(30) DEF f
  <2>2. \A i \in 1..K - 1 : i \in 1..K
    BY <1>2
  <2>. HIDE DEF ms2
  <2>. QED
    BY <1>10, <2>1, <2>2 DEF TopOnly
<1>15. /\ IsSeq(scopes2) /\ Len(scopes2) = K /\ scopes2[K] = count /\ \A i \in 1..K - 1 : scopes2[i] = scopes[i]
  <2>1. TopOnly(Front(scopes), scopes2) /\ scopes2[K] = count
    BY <1>2, <1>11, TopOnlyIs, SMTT(30)
  <2>2. \A i \in 1..K - 1 : i \in 1..K
    BY <1>2
  <2>. HIDE DEF scopes2, count
  <2>. QED
    BY <1>11, <2>1, <2>2 DEF TopOnly
<1>16. /\ IsSeq(held2) /\ Len(held2) = K /\ held2[K] = ps /\ \A i \in 1..K - 1 : held2[i] = held[i]
  <2>. DEFINE f == Front(held)
  <2>. HIDE DEF ps, held, f
  <2>1. TopOnly(f, SetTop(f, ps)) /\ SetTop(f, ps)[K] = ps
    BY <1>2, <1>12, TopOnlyIs, SMTT(30) DEF f
  <2>2. \A i \in 1..K - 1 : i \in 1..K
    BY <1>2
  <2>. QED
    BY <1>12, <2>1, <2>2 DEF TopOnly, f
<1>17. x.pictures = ps /\ x.shape = ms[K].shape /\ IsScope(x)
  <2>1. around = ms[K] /\ IsScope(around)
    BY <1>2, <1>10 DEF Told, Counts
  <2>2. x = [around EXCEPT !.pictures = ps]
    BY <1>1, <1>3, <2>1
  <2>. HIDE DEF ps, ms
  <2>. QED
    BY <2>1, <2>2 DEF IsScope
<1>18. HeldOf(ms2) = held2
  <2>1. TopOnly(Front(ms), ms2)
    BY <1>2, <1>10, TopOnlyIs, SMTT(30)
  <2>. DEFINE f == Front(ms)
  <2>2. IsSeq(f) /\ Len(f) \in Nat \ {0} /\ Len(f) = K /\ TopOnly(f, ms2)
    BY <1>2, <1>10, <2>1
  <2>. HIDE DEF f, ms2
  <2>3. HeldOf(ms2) = SetTop(HeldOf(f), ms2[K].pictures)
    BY <2>2, HeldTop
  <2>4. HeldOf(f) = Front(held)
    BY <1>1, <1>2, HeldFront DEF f
  <2>. QED
    BY <1>14, <1>17, <2>3, <2>4
<1>19. \A i \in 1..K : i = K \/ (i \in 1..K - 1 /\ i < K)
  BY <1>2, SMTT(30)
<1>20. Len(r) = N + 1
  BY <1>1, SeqAppend
<1>21. Counted(held, firsts, N)
  BY DEF Told
<1>22. ASSUME NEW i \in 1..K
       PROVE  /\ held[i] = None => firsts[i] = NoLead
              /\ firsts[i] # NoLead => firsts[i] \in Leads /\ firsts[i].begin \in 1..N /\ firsts[i].end # 0
  <2>1. i \in 1..L /\ i # L
    BY <1>1, <1>2
  <2>. HIDE DEF held, firsts, N, K
  <2>. QED
    BY <1>1, <1>21, <2>1 DEF Counted
<1>. DEFINE last == t[N + 1]
            n == Machine(SetTop(Front(last.scopes), Last(Front(last.scopes)) \o Here(last)), last.next)
            u == Append(t, n)
<1>23. Legal(last, s, n, inputs) /\ n.scopes = held2 /\ n.next = Len(inputs) + 1
  <2>1. last.scopes = held
    BY <1>4, SMTT(30) DEF Follows
  <2>2. Here(last) = held[L]
    BY <1>1, <2>1 DEF Here, Last
  <2>3. n.scopes = SetTop(Front(last.scopes), Last(Front(last.scopes)) \o Here(last)) /\ n.next = last.next
    BY SMTT(30) DEF Machine
  <2>4. Legal(last, s, n, inputs)
    BY <1>1, <1>2, <2>1 DEF Legal, Closes
  <2>. HIDE DEF n, held, last
  <2>. QED
    BY <1>4, <1>12, <2>1, <2>2, <2>3, <2>4 DEF last
<1>. HIDE DEF leads2, held2, n
<1>24. Follows(u, r, inputs, held2, leads2)
  <2>1. \A i \in 1..Len(held2) :
          \/ leads2[i] = NoLead
          \/ SameLead(leads2[i], i, s, held, firsts)
          \/ NewLead(leads2[i], i, Append(t, n), Append(steps, s), held, firsts, held2)
    <3>. SUFFICES ASSUME NEW i \in 1..K, leads2[i] # NoLead PROVE SameLead(leads2[i], i, s, held, firsts)
      BY <1>16, SMTT(30)
    <3>1. leads2[i] = firsts[i] /\ firsts[i].end # 0 /\ i <= Len(held) /\ i # Len(held)
      BY <1>1, <1>2, <1>13, <1>22, SMTT(30)
    <3>. QED
      BY <3>1 DEF SameLead
  <2>2. Legal(t[Len(steps) + 1], s, n, inputs) /\ Len(leads2) = Len(held2)
    BY <1>13, <1>16, <1>23
  <2>. HIDE DEF held, steps, inputs, firsts
  <2>. QED
    BY <1>4, <1>13, <1>23, <2>1, <2>2, FollowsOn DEF steps
<1>25. u[Len(r) + 1].next = Len(inputs) + 1
  <2>1. OneMore(u, r, t, steps, s, n)
    BY <1>4, Longer DEF Follows
  <2>2. Len(r) + 1 = N + 2
    BY <1>1, <1>20
  <2>3. u[N + 2] = n
    <3>. HIDE DEF u, r
    <3>. QED
      BY <2>1 DEF OneMore
  <2>. QED
    BY <1>23, <2>2, <2>3
<1>. HIDE DEF u, r, ps
<1>26. Counted(held2, leads2, N + 1)
  <2>. SUFFICES ASSUME NEW i \in 1..K
                PROVE  /\ held2[i] = None => leads2[i] = NoLead
                       /\ leads2[i] # NoLead => leads2[i] \in Leads /\ leads2[i].begin \in 1..N + 1
                       /\ leads2[i] # NoLead /\ leads2[i].end = 0 => i = K /\ Len(held2[i]) = 1
                       /\ leads2[i].end # 0 => i < K \/ Len(held2[i]) >= 2
    BY <1>16 DEF Counted
  <2>1. /\ held[i] = None => firsts[i] = NoLead
        /\ firsts[i] # NoLead => firsts[i] \in Leads /\ firsts[i].begin \in 1..N + 1 /\ firsts[i].end # 0
        /\ leads2[i] = firsts[i]
    <3>1. 1..N \subseteq 1..N + 1
      BY <1>1
    <3>. HIDE DEF held, firsts, N, K
    <3>. QED
      BY <1>13, <1>22, <3>1
  <2>. HIDE DEF held, firsts
  <2>2. CASE i = K
    <3>1. held2[i] = ps
      BY <1>16, <2>2
    <3>2. NoLead.end = 0
      BY DEF NoLead
    <3>. QED
      BY <1>9, <2>1, <2>2, <3>1, <3>2
  <2>3. CASE i \in 1..K - 1 /\ i < K
    <3>1. held2[i] = held[i]
      BY <1>16, <2>3, SMTT(30)
    <3>. QED
      BY <2>1, <2>3, <3>1
  <2>. QED
    BY <1>19, <2>2, <2>3
<1>27. Counts(p, m)
  <2>1. \A i \in 1..K :
          /\ IsScope(ms[i]) /\ scopes[i] = Len(ms[i].pictures) /\ ms[i].shape = leads2[i].shape
    BY <1>1, <1>2, <1>13, SMTT(30) DEF Told, Counts
  <2>2. count = Len(ps)
    BY <1>1, <1>2, <1>3, <1>8, <1>11, <2>1
  <2>. HIDE DEF count, ms2, scopes2
  <2>3. ASSUME NEW i \in 1..K
        PROVE  IsScope(ms2[i]) /\ scopes2[i] = Len(ms2[i].pictures) /\ ms2[i].shape = leads2[i].shape
    <3>1. CASE i = K
      BY <1>14, <1>15, <1>17, <2>1, <2>2, <3>1
    <3>2. CASE i \in 1..K - 1 /\ i < K
      BY <1>14, <1>15, <2>1, <3>2, SMTT(30)
    <3>. QED
      BY <1>19, <3>1, <3>2
  <2>4. p.scopes = scopes2 /\ m.scopes = ms2 /\ p.firsts = leads2
    BY <1>6, <1>7 DEF scopes2
  <2>. HIDE DEF K, leads2
  <2>5. /\ IsSeq(p.scopes) /\ IsSeq(m.scopes) /\ Len(p.scopes) = Len(m.scopes)
        /\ Len(m.scopes) = K
    BY <1>14, <1>15, <2>4
  <2>6. \A i \in 1..K :
          /\ IsScope(m.scopes[i]) /\ p.scopes[i] = Len(m.scopes[i].pictures)
          /\ m.scopes[i].shape = p.firsts[i].shape
    BY <2>3, <2>4
  <2>. QED
    BY <2>5, <2>6 DEF Counts
<1>28. IsSeq(p.pending) /\ p.pending = m.since
  BY <1>6, <1>7 DEF Told
<1>29. Counted(HeldOf(m.scopes), p.firsts, Len(p.steps))
  BY <1>6, <1>7, <1>18, <1>20, <1>26, SMTT(30)
<1>30. \E v : Follows(v, p.steps, p.inputs, HeldOf(m.scopes), p.firsts) /\ v[Len(p.steps) + 1].next = Len(p.inputs) + 1
  BY <1>6, <1>7, <1>18, <1>24, <1>25
<1>. QED
  BY <1>6, <1>7, <1>27, <1>28, <1>29, <1>30 DEF Told
-----------------------------------------------------------------------------
(* A merge.                                                                *)
LEMMA TopTop ==
  ASSUME NEW s, IsSeq(s), Len(s) \in Nat \ {0}, NEW x, NEW y
  PROVE  SetTop(SetTop(s, x), y) = SetTop(s, y)
<1>. DEFINE a == SetTop(s, x)
            b == SetTop(a, y)
<1>1. TopOnly(s, a)
  BY TopOnlyIs
<1>. HIDE DEF a
<1>2. IsSeq(a) /\ Len(a) = Len(s)
  BY <1>1 DEF TopOnly
<1>3. TopOnly(a, b) /\ b[Len(s)] = y
  BY <1>2, TopOnlyIs
<1>. HIDE DEF b
<1>4. TopOnly(s, b)
  BY <1>1, <1>2, <1>3 DEF TopOnly
<1>5. b = SetTop(s, b[Len(s)])
  BY <1>4, TopOnlySame
<1>. QED
  BY <1>3, <1>5 DEF a, b

(* A step at the end is no part of what is before it.                      *)
LEMMA SubAppend ==
  ASSUME NEW s, IsSeq(s), NEW x, NEW b \in Nat \ {0}, NEW e \in Nat, b <= e, e <= Len(s)
  PROVE  SubSeq(Append(s, x), b, e) = SubSeq(s, b, e)
<1>. DEFINE a == Append(s, x)
            c == SubSeq(a, b, e)
            d == SubSeq(s, b, e)
<1>1. IsSeq(a) /\ Len(a) = Len(s) + 1 /\ Len(s) \in Nat /\ \A i \in 1..Len(s) : a[i] = s[i]
  BY SeqAppend, SeqShape
<1>. HIDE DEF a
<1>2. e <= Len(a)
  BY <1>1
<1>3. IsSeq(c) /\ Len(c) = e - b + 1 /\ \A i \in 1..e - b + 1 : c[i] = a[b + i - 1]
  BY <1>1, <1>2, SeqSub
<1>4. IsSeq(d) /\ Len(d) = e - b + 1 /\ \A i \in 1..e - b + 1 : d[i] = s[b + i - 1]
  BY <1>1, SeqSub
<1>. HIDE DEF c, d
<1>5. ASSUME NEW i \in 1..e - b + 1 PROVE c[i] = d[i]
  <2>1. b + i - 1 \in 1..Len(s)
    BY <1>1
  <2>. QED
    BY <1>1, <1>3, <1>4, <2>1
<1>6. c = d
  BY <1>3, <1>4, <1>5, SeqSame
<1>. QED
  BY <1>6 DEF a, c, d

(* A lead that is a shape can be repeated, once it has ended.              *)
LEMMA LeadRepeats ==
  ASSUME NEW t, NEW steps, NEW inputs, NEW held, NEW leads, Follows(t, steps, inputs, held, leads),
         leads[Len(held)].shape, leads[Len(held)].end # 0,
         \A i \in 1..Len(held) - 1 : leads[i] = NoLead \/ leads[i].end # 0,
         NEW b, NEW e, NEW w, b = leads[Len(held)].begin, e = leads[Len(held)].end, w = e - b + 2
  PROVE  Repeatable(t, steps, inputs, held, leads, Len(steps), Len(held), b, e, w)
<1>. DEFINE L == Len(held)
            N == Len(steps)
            lead == leads[L]
<1>1. L \in Nat \ {0} /\ N \in Nat /\ Len(leads) = L /\ L \in 1..L
  BY FollowsIs DEF Follows
<1>2. lead \in Leads /\ ShapeFits(t, steps, lead, L)
  BY <1>1 DEF Follows, Shaped
<1>3. EndOf(lead, N) = e /\ lead.begin = b /\ b \in Nat /\ e \in Nat
  BY <1>2 DEF EndOf, Leads
<1>4. t[N + 1].scopes = held
  BY DEF Follows
<1>. HIDE DEF L, N, lead
<1>5. /\ b \in 1..e /\ e <= N /\ Paints(steps[b]) /\ Len(t[b].scopes) = L /\ t[b].scopes[L] = None
      /\ t[e + 1] = Puts(t[b], <<held[L][1]>>, t[b].next)
      /\ \A k \in b..N : Stays(t, steps, L, k)
  BY <1>2, <1>3, <1>4 DEF ShapeFits, N
<1>6. b \in 1..N /\ e \in b..N
  BY <1>1, <1>3, <1>5, SMTT(30)
<1>7. ASSUME NEW i \in 1..L - 1, leads[i].shape PROVE leads[i].end # 0 /\ leads[i].end < b
  <2>1. i \in 1..L /\ i < L
    BY <1>1
  <2>2. leads[i] # NoLead
    BY <1>7 DEF NoLead
  <2>3. leads[i].end # 0
    BY <2>2 DEF L
  <2>4. leads[i].end < leads[L].begin
    BY <1>1, <1>7, <2>1 DEF Follows, Nested, L
  <2>. QED
    BY <1>3, <2>3, <2>4 DEF lead
<1>. QED
  BY <1>5, <1>6, <1>7 DEF Repeatable, L, N

(* What the copy stands for.                                               *)
LEMMA MergePlain ==
  ASSUME NEW ps, NEW shape \in BOOLEAN, NEW options, Len(ps) \in 2..4,
         ~shape \/ Len(ps) = 4 \/ (Len(ps) = 2 /\ ModeOf(options) # "over")
  PROVE  MeantMerge(ps, FALSE, options) = MeantMerge(ps, shape, options)
<1>1. Len(ps) = 4 \/ (Len(ps) = 3 /\ ~shape) \/ Len(ps) = 2
  OBVIOUS
<1>2. CASE ~shape
  BY <1>2
<1>3. CASE Len(ps) = 4
  BY <1>3 DEF MeantMerge
<1>4. CASE Len(ps) = 2 /\ ModeOf(options) # "over"
  BY <1>4 DEF MeantMerge
<1>. QED
  BY <1>2, <1>3, <1>4

(* Three pictures with one under them are four.                            *)
LEMMA UnderFour ==
  ASSUME NEW ps, IsSeq(ps), NEW c
  PROVE  Len(ps) = 3 =>
           /\ Len(Under(ps, c)) = 4 /\ Under(ps, c)[1] = c /\ Under(ps, c)[2] = ps[1]
           /\ Under(ps, c)[3] = ps[2] /\ Under(ps, c)[4] = ps[3]
<1>. DEFINE hs == Under(ps, c)
<1>1. Len(hs) = Len(ps) + 1 /\ hs[1] = c /\ \A j \in 1..Len(ps) : hs[j + 1] = ps[j]
  BY UnderIs
<1>. HIDE DEF hs
<1>. SUFFICES ASSUME Len(ps) = 3
              PROVE  Len(hs) = 4 /\ hs[1] = c /\ hs[2] = ps[1] /\ hs[3] = ps[2] /\ hs[4] = ps[3]
  BY DEF hs
<1>2. 1 \in 1..Len(ps) /\ 2 \in 1..Len(ps) /\ 3 \in 1..Len(ps)
  OBVIOUS
<1>3. hs[1 + 1] = ps[1] /\ hs[2 + 1] = ps[2] /\ hs[3 + 1] = ps[3]
  BY <1>1, <1>2
<1>4. Len(hs) = 4 /\ hs[2] = ps[1] /\ hs[3] = ps[2] /\ hs[4] = ps[3]
  BY <1>1, <1>3
<1>. QED
  BY <1>1, <1>4

(* What a merge of four means: two colours through a mask, on the first.   *)
LEMMA MergeFour ==
  ASSUME NEW hs, Len(hs) = 4, NEW options
  PROVE  MeantMerge(hs, FALSE, options)
           = Mixed(ModeOf(options), options, hs[1], TwoColours(hs[2], hs[3], hs[4]))
BY DEF MeantMerge

(* And of three with their own clear ground under them.                    *)
LEMMA MergeUnder ==
  ASSUME NEW qs, IsSeq(qs), NEW options
  PROVE  Len(qs) = 3 =>
           /\ Len(Under(qs, Clear(qs[1]))) = 4
           /\ MeantMerge(Under(qs, Clear(qs[1])), FALSE, options)
                = Mixed(ModeOf(options), options, Clear(qs[1]), TwoColours(qs[1], qs[2], qs[3]))
<1>. DEFINE c == Clear(qs[1])
            hs == Under(qs, c)
<1>1. Len(qs) = 3 => Len(hs) = 4 /\ hs[1] = c /\ hs[2] = qs[1] /\ hs[3] = qs[2] /\ hs[4] = qs[3]
  <2>. HIDE DEF c
  <2>. QED
    BY UnderFour
<1>. HIDE DEF hs
<1>2. Len(hs) = 4 => MeantMerge(hs, FALSE, options)
                       = Mixed(ModeOf(options), options, hs[1], TwoColours(hs[2], hs[3], hs[4]))
  BY MergeFour
<1>. QED
  BY <1>1, <1>2 DEF hs

(* A shape over two pictures means what the four of the rewritten steps    *)
(* mean.                                                                   *)
LEMMA MergeThree ==
  ASSUME NEW ps, IsSeq(ps), Len(ps) = 3, NEW options
  PROVE  /\ MeantMerge(Under(ps, Clear(ps[1])), FALSE, options) = MeantMerge(ps, TRUE, options)
         /\ Len(Under(ps, Clear(ps[1]))) = 4
<1>1. MeantMerge(ps, TRUE, options) = Mixed(ModeOf(options), options, Clear(ps[1]), TwoColours(ps[1], ps[2], ps[3]))
  BY DEF MeantMerge
<1>. QED
  BY <1>1, MergeUnder

(* A shape over one colour means what the four of the rewritten steps      *)
(* mean.                                                                   *)
LEMMA MergeAlone ==
  ASSUME NEW ps, IsSeq(ps), Len(ps) = 2, NEW options, ModeOf(options) = "over",
         NEW qs, qs = Append(ps, Paint("null", None, ps[2]))
  PROVE  /\ MeantMerge(Under(qs, Clear(qs[1])), FALSE, options) = MeantMerge(ps, TRUE, options)
         /\ Len(Under(qs, Clear(qs[1]))) = 4 /\ IsSeq(qs) /\ qs[1] = ps[1]
<1>. DEFINE z == Paint("null", None, ps[2])
            c == Clear(ps[1])
<1>1. IsSeq(qs) /\ Len(qs) = 3 /\ qs[1] = ps[1] /\ qs[2] = ps[2] /\ qs[3] = z
  <2>. HIDE DEF z
  <2>1. /\ IsSeq(Append(ps, z)) /\ Len(Append(ps, z)) = Len(ps) + 1
        /\ (\A i \in 1..Len(ps) : Append(ps, z)[i] = ps[i]) /\ Append(ps, z)[Len(ps) + 1] = z
    BY SeqAppend
  <2>2. qs = Append(ps, z)
    BY DEF z
  <2>3. IsSeq(qs) /\ Len(qs) = 2 + 1 /\ (\A i \in 1..2 : qs[i] = ps[i]) /\ qs[2 + 1] = z
    BY <2>1, <2>2
  <2>4. 1 \in 1..2 /\ 2 \in 1..2 /\ 2 + 1 = 3
    OBVIOUS
  <2>. QED
    BY <2>3, <2>4
<1>2. MeantMerge(ps, TRUE, options) = Mixed(ModeOf(options), options, c, TwoColours(ps[1], ps[2], z))
  BY DEF MeantMerge
<1>3. /\ Len(Under(qs, Clear(qs[1]))) = 4
      /\ MeantMerge(Under(qs, Clear(qs[1])), FALSE, options)
           = Mixed(ModeOf(options), options, Clear(qs[1]), TwoColours(qs[1], qs[2], qs[3]))
  BY <1>1, MergeUnder
<1>. QED
  BY <1>1, <1>2, <1>3

(* The steps a merge comes after, and the pictures they leave it.          *)
Ready(steps2, hs, steps, inputs, held, leads, options, shape) ==
  /\ Pictured(hs) /\ Len(hs) \in 2..4
  /\ MeantMerge(hs, FALSE, options) = MeantMerge(held[Len(held)], shape, options)
  /\ Len(steps) <= Len(steps2)
  /\ \E t, leads2 : /\ Follows(t, steps2, inputs, SetTop(held, hs), leads2) /\ TopOnly(leads, leads2)
                    /\ t[Len(steps2) + 1].next = Len(inputs) + 1
Sofar(t, steps, inputs, held, leads) ==
  /\ Follows(t, steps, inputs, held, leads) /\ t[Len(steps) + 1].next = Len(inputs) + 1
  /\ \A i \in 1..Len(held) - 1 : leads[i] = NoLead \/ leads[i].end # 0

(* What is known of a line as far as it has been read.                     *)
LEMMA SofarIs ==
  ASSUME NEW t, NEW steps, NEW inputs, NEW held, NEW leads, Sofar(t, steps, inputs, held, leads)
  PROVE  /\ Follows(t, steps, inputs, held, leads) /\ Len(steps) \in Nat /\ IsSeq(steps) /\ IsSeq(inputs)
         /\ Len(inputs) \in Nat
         /\ IsSeq(held) /\ Len(held) \in Nat \ {0} /\ Pictured(held[Len(held)]) /\ IsSeq(held[Len(held)])
         /\ IsSeq(leads) /\ Len(leads) = Len(held)
         /\ IsMachine(t[Len(steps) + 1], inputs) /\ Here(t[Len(steps) + 1]) = held[Len(held)]
         /\ t[Len(steps) + 1].scopes = held
<1>1. Follows(t, steps, inputs, held, leads)
  BY DEF Sofar
<1>2. /\ Len(steps) \in Nat /\ IsSeq(steps) /\ IsSeq(inputs)
      /\ IsSeq(held) /\ Len(held) \in Nat \ {0}
      /\ \A i \in 1..Len(held) : Pictured(held[i]) /\ IsSeq(held[i])
      /\ IsMachine(t[Len(steps) + 1], inputs) /\ Here(t[Len(steps) + 1]) = held[Len(held)]
  BY <1>1, FollowsIs
<1>3. Len(held) \in 1..Len(held)
  BY <1>2
<1>4. Len(inputs) \in Nat
  BY <1>2, SeqShape
<1>5. IsSeq(leads) /\ Len(leads) = Len(held) /\ t[Len(steps) + 1].scopes = held
  BY <1>1 DEF Follows
<1>. QED
  BY <1>1, <1>2, <1>3, <1>4, <1>5

(* A merge of pictures that no shape leads needs no rewriting.             *)
LEMMA ReadyPlain ==
  ASSUME NEW t, NEW steps, NEW inputs, NEW held, NEW leads, Sofar(t, steps, inputs, held, leads),
         NEW options, NEW shape \in BOOLEAN, Len(held[Len(held)]) \in 2..4,
         ~shape \/ Len(held[Len(held)]) = 4 \/ (Len(held[Len(held)]) = 2 /\ ModeOf(options) # "over")
  PROVE  Ready(steps, held[Len(held)], steps, inputs, held, leads, options, shape)
<1>. DEFINE hs == held[Len(held)]
<1>1. /\ Follows(t, steps, inputs, held, leads) /\ t[Len(steps) + 1].next = Len(inputs) + 1
      /\ Len(steps) \in Nat /\ IsSeq(held) /\ Len(held) \in Nat \ {0} /\ Pictured(hs) /\ IsSeq(leads)
  BY SofarIs DEF Sofar
<1>2. TopOnly(held, held) /\ TopOnly(leads, leads)
  BY <1>1 DEF TopOnly
<1>3. SetTop(held, hs) = held
  BY <1>1, <1>2, TopOnlySame
<1>4. MeantMerge(hs, FALSE, options) = MeantMerge(hs, shape, options)
  BY MergePlain
<1>5. Len(steps) <= Len(steps)
  BY <1>1
<1>. HIDE DEF hs
<1>6. Len(hs) \in 2..4
  BY DEF hs
<1>7. Ready(steps, hs, steps, inputs, held, leads, options, shape)
  <2>1. MeantMerge(hs, FALSE, options) = MeantMerge(held[Len(held)], shape, options)
    BY <1>4 DEF hs
  <2>. QED
    BY <1>1, <1>2, <1>3, <1>5, <1>6, <2>1 DEF Ready
<1>. QED
  BY <1>7 DEF hs

(* The steps that paint a shape twice are more than they were.             *)
LEMMA TwiceLonger ==
  ASSUME NEW steps, IsSeq(steps), NEW b \in 1..Len(steps), NEW e \in b..Len(steps)
  PROVE  Len(steps) <= Len(Twice(steps, b, e))
<1>. DEFINE w == e - b + 2
<1>1. w \in Nat /\ w = e - b + 2 /\ Len(steps) \in Nat
  BY SeqShape
<1>. HIDE DEF w
<1>2. Len(Twice(steps, b, e)) = Len(steps) + w
  BY <1>1, TwiceIs, ZenonT(60)
<1>. QED
  BY <1>1, <1>2

(* Three pictures under the merge, the first of them twice.                *)
LEMMA ReadyTwice ==
  ASSUME NEW t, NEW steps, NEW inputs, NEW held, NEW leads, Sofar(t, steps, inputs, held, leads),
         NEW options, leads[Len(held)].shape, leads[Len(held)].end # 0,
         NEW b, NEW e, b = leads[Len(held)].begin, e = leads[Len(held)].end,
         NEW top, top = held[Len(held)], Len(top) = 3
  PROVE  /\ Len(steps) <= Len(Twice(steps, b, e)) /\ Pictured(Under(top, Clear(top[1])))
         /\ \E u, leads2 : /\ Follows(u, Twice(steps, b, e), inputs, SetTop(held, Under(top, Clear(top[1]))), leads2)
                           /\ TopOnly(leads, leads2)
                           /\ u[Len(Twice(steps, b, e)) + 1].next = Len(inputs) + 1
<1>. DEFINE w == e - b + 2
            N == Len(steps)
            L == Len(held)
            r == Twice(steps, b, e)
            hs == Under(top, Clear(top[1]))
<1>1. /\ Follows(t, steps, inputs, held, leads) /\ t[N + 1].next = Len(inputs) + 1
      /\ N \in Nat /\ IsSeq(steps) /\ L \in Nat \ {0} /\ Pictured(top) /\ IsSeq(leads) /\ Len(leads) = L
      /\ \A i \in 1..L - 1 : leads[i] = NoLead \/ leads[i].end # 0
  BY SofarIs DEF Sofar
<1>2. Repeatable(t, steps, inputs, held, leads, N, L, b, e, w)
  BY <1>1, LeadRepeats
<1>3. b \in 1..N /\ e \in b..N /\ w \in Nat
  <2>1. b \in 1..N /\ e \in b..N
    BY <1>2 DEF Repeatable
  <2>. HIDE DEF N
  <2>. QED
    BY <1>1, <2>1, SMTT(30)
<1>4. N <= Len(r)
  <2>1. \A q : IsSeq(q) => \A i \in 1..Len(q) : \A j \in i..Len(q) : Len(q) <= Len(Twice(q, i, j))
    BY TwiceLonger
  <2>. QED
    BY <1>1, <1>3, <2>1
<1>. HIDE DEF w
<1>5. \E u : /\ Follows(u, Twice(steps, b, e), inputs,
                        SetTop(held, Under(held[L], Clear(held[L][1]))), SetTop(leads, NoLead))
             /\ u[Len(Twice(steps, b, e)) + 1].next = t[N + 1].next
  <2>. HIDE DEF N, L
  <2>. QED
    BY <1>2, FollowsTwice
<1>6. TopOnly(leads, SetTop(leads, NoLead))
  BY <1>1, TopOnlyIs
<1>7. Clear(top[1]) # None
  BY PicturesAre DEF Clear
<1>8. Pictured(hs)
  <2>. DEFINE c == Clear(top[1])
  <2>1. c # None
    BY <1>7
  <2>. HIDE DEF c
  <2>2. Pictured(Under(top, c))
    BY <1>1, <2>1, UnderPictured
  <2>. QED
    BY <2>2 DEF c
<1>9. N <= Len(r)
  BY <1>4
<1>10. top = held[L]
  OBVIOUS
<1>. HIDE DEF N, L
<1>11. \E u : /\ Follows(u, r, inputs, SetTop(held, hs), SetTop(leads, NoLead))
              /\ u[Len(r) + 1].next = Len(inputs) + 1
  BY <1>1, <1>5, <1>10
<1>. HIDE DEF r, hs
<1>12. N <= Len(r) /\ Pictured(hs)
         /\ \E u, leads2 : /\ Follows(u, r, inputs, SetTop(held, hs), leads2)
                           /\ TopOnly(leads, leads2)
                           /\ u[Len(r) + 1].next = Len(inputs) + 1
  BY <1>6, <1>8, <1>9, <1>11
<1>. QED
  BY <1>12 DEF N, r, hs

ShapeOfThree(t, steps, inputs, held, leads, b, e, top) ==
  /\ Sofar(t, steps, inputs, held, leads) /\ leads[Len(held)].shape /\ leads[Len(held)].end # 0
  /\ b = leads[Len(held)].begin /\ e = leads[Len(held)].end /\ top = held[Len(held)] /\ Len(top) = 3
(* A shape over two pictures, painted twice, leaves four to merge.         *)
LEMMA TwiceReady ==
  ASSUME NEW t, NEW steps, NEW inputs, NEW held, NEW leads, NEW b, NEW e, NEW top,
         ShapeOfThree(t, steps, inputs, held, leads, b, e, top)
  PROVE  /\ Len(steps) <= Len(Twice(steps, b, e)) /\ Pictured(Under(top, Clear(top[1])))
         /\ \E u, leads2 : /\ Follows(u, Twice(steps, b, e), inputs, SetTop(held, Under(top, Clear(top[1]))), leads2)
                           /\ TopOnly(leads, leads2)
                           /\ u[Len(Twice(steps, b, e)) + 1].next = Len(inputs) + 1
BY ReadyTwice, SMTT(30) DEF ShapeOfThree

ShapeOfTwo(t, steps, inputs, held, leads, b, e, top, steps1, qs) ==
  /\ Sofar(t, steps, inputs, held, leads) /\ leads[Len(held)].shape /\ leads[Len(held)].end # 0
  /\ b = leads[Len(held)].begin /\ e = leads[Len(held)].end /\ top = held[Len(held)] /\ Len(top) = 2
  /\ steps1 = Append(steps, Generate("null", None))
  /\ qs = Append(top, Paint("null", None, top[2]))
(* A lone colour gets nothing as the second one.                           *)
LEMMA NothingBeside ==
  ASSUME NEW t, NEW steps, NEW inputs, NEW held, NEW leads, NEW b, NEW e, NEW top, NEW steps1, NEW qs,
         ShapeOfTwo(t, steps, inputs, held, leads, b, e, top, steps1, qs)
  PROVE  \E u : /\ Sofar(u, steps1, inputs, SetTop(held, qs), leads)
                /\ SetTop(held, qs)[Len(SetTop(held, qs))] = qs /\ Len(SetTop(held, qs)) = Len(held)
<1>. DEFINE s == Generate("null", None)
            N == Len(steps)
            L == Len(held)
            next == Len(inputs) + 1
            last == t[N + 1]
            n == Puts(last, qs, next)
            held1 == SetTop(held, qs)
<1>0. /\ Sofar(t, steps, inputs, held, leads) /\ leads[L].end # 0 /\ top = held[L] /\ Len(top) = 2
      /\ steps1 = Append(steps, s) /\ qs = Append(top, Paint("null", None, top[2]))
  BY DEF ShapeOfTwo
<1>1. /\ Follows(t, steps, inputs, held, leads) /\ t[N + 1].next = next
      /\ N \in Nat /\ IsSeq(held) /\ L \in Nat \ {0} /\ Pictured(top) /\ IsSeq(leads) /\ Len(leads) = L
      /\ Len(inputs) \in Nat /\ Here(last) = top
      /\ \A i \in 1..L - 1 : leads[i] = NoLead \/ leads[i].end # 0
  BY <1>0, SofarIs DEF Sofar
<1>2. s.kind = "generate" /\ s.brush = "null" /\ s.options = None
  BY DEF Generate
<1>. HIDE DEF s
<1>3. MeantSize("null", None, top) = top[2]
  <2>1. Names(None) = {}
    BY DEF Names, None
  <2>2. SizeFallsBack("null")
    BY DEF SizeFallsBack
  <2>3. top # None /\ Last(top) = top[2]
    BY <1>0, SeqEmpty DEF Last
  <2>. QED
    BY <2>1, <2>2, <2>3 DEF MeantSize
<1>4. Generates(last, s, n)
  BY <1>0, <1>1, <1>2, <1>3 DEF Generates
<1>5. Pictured(qs)
  <2>1. Paint("null", None, top[2]) # None
    BY PicturesAre
  <2>. HIDE DEF L
  <2>. QED
    BY <1>0, <1>1, <2>1, PicturedAppend
<1>6. TopOnly(leads, leads)
  BY <1>1 DEF TopOnly
<1>7. SameLead(leads[L], L, s, held, leads)
  <2>1. L <= Len(held) /\ s.kind # "composite" /\ s.kind \notin PlainKinds
    BY <1>1, <1>2 DEF PlainKinds
  <2>. QED
    BY <1>0, <2>1 DEF SameLead
<1>8. next \in 1..Len(inputs) + 1
  BY <1>1
<1>9. StepsOn(t, steps, inputs, held, leads, s, qs, next, leads)
  <2>1. Legal(last, s, n, inputs)
    BY <1>4 DEF Legal
  <2>. HIDE DEF next
  <2>. QED
    BY <1>1, <1>5, <1>6, <1>7, <1>8, <2>1 DEF StepsOn
<1>. HIDE DEF next, n, last
<1>10. PICK u : /\ Follows(u, Append(steps, s), inputs, SetTop(held, qs), leads)
                /\ u[Len(Append(steps, s)) + 1].next = next
  BY <1>9, FollowsTop
<1>11. TopOnly(held, held1) /\ held1[L] = qs /\ held1[Len(held1)] = qs
  BY <1>1, TopOnlyIs
<1>. HIDE DEF held1
<1>12. Len(held1) = L
  BY <1>11 DEF TopOnly
<1>13. Sofar(u, Append(steps, s), inputs, held1, leads)
  BY <1>1, <1>10, <1>12 DEF Sofar, held1, next
<1>. QED
  BY <1>0, <1>11, <1>12, <1>13 DEF held1

(* A lone colour is given null beside it.                                  *)
LEMMA BesideReady ==
  ASSUME NEW t, NEW steps, NEW inputs, NEW held, NEW leads, NEW b, NEW e, NEW top, NEW steps1, NEW qs,
         ShapeOfTwo(t, steps, inputs, held, leads, b, e, top, steps1, qs)
  PROVE  /\ \E u : /\ Sofar(u, steps1, inputs, SetTop(held, qs), leads)
                   /\ SetTop(held, qs)[Len(SetTop(held, qs))] = qs /\ Len(SetTop(held, qs)) = Len(held)
         /\ Len(steps1) = Len(steps) + 1 /\ Len(steps) \in Nat /\ IsSeq(held) /\ Len(held) \in Nat \ {0}
         /\ IsSeq(top) /\ Len(qs) = 3
<1>1. \E u : /\ Sofar(u, steps1, inputs, SetTop(held, qs), leads)
             /\ SetTop(held, qs)[Len(SetTop(held, qs))] = qs /\ Len(SetTop(held, qs)) = Len(held)
  BY NothingBeside
<1>2. /\ IsSeq(steps) /\ Len(steps) \in Nat /\ IsSeq(held) /\ Len(held) \in Nat \ {0} /\ IsSeq(top)
  BY SofarIs DEF ShapeOfTwo
<1>3. \A x : Len(Append(steps, x)) = Len(steps) + 1 /\ Len(Append(top, x)) = Len(top) + 1
  BY <1>2, SeqAppend
<1>4. Len(steps1) = Len(steps) + 1
  BY <1>3 DEF ShapeOfTwo
<1>5. Len(qs) = 3
  BY <1>3 DEF ShapeOfTwo
<1>. QED
  BY <1>1, <1>2, <1>4, <1>5

(* A shape over one colour, painted twice, leaves four to merge.           *)
LEMMA ReadyAlone ==
  ASSUME NEW t, NEW steps, NEW inputs, NEW held, NEW leads, NEW options, NEW b, NEW e, NEW top, NEW steps1, NEW qs,
         ShapeOfTwo(t, steps, inputs, held, leads, b, e, top, steps1, qs), ModeOf(options) = "over"
  PROVE  Ready(Twice(steps1, b, e), Under(qs, Clear(qs[1])), steps, inputs, held, leads, options, TRUE)
<1>. DEFINE held1 == SetTop(held, qs)
            hs == Under(qs, Clear(qs[1]))
            r == Twice(steps1, b, e)
<1>1. /\ Len(steps1) = Len(steps) + 1 /\ Len(steps) \in Nat /\ IsSeq(held) /\ Len(held) \in Nat \ {0}
      /\ IsSeq(top) /\ Len(qs) = 3
  BY BesideReady
<1>2. PICK u : Sofar(u, steps1, inputs, held1, leads) /\ held1[Len(held1)] = qs /\ Len(held1) = Len(held)
  BY BesideReady
<1>4. SetTop(held1, hs) = SetTop(held, hs)
  <2>. HIDE DEF hs
  <2>. QED
    BY <1>1, TopTop
<1>6. MeantMerge(hs, FALSE, options) = MeantMerge(top, TRUE, options) /\ Len(hs) = 4
  BY <1>1, MergeAlone, ZenonT(60) DEF ShapeOfTwo
<1>. HIDE DEF held1
<1>7. /\ Len(steps1) <= Len(r) /\ Pictured(hs)
      /\ \E v, leads2 : /\ Follows(v, r, inputs, SetTop(held1, hs), leads2)
                        /\ TopOnly(leads, leads2)
                        /\ v[Len(r) + 1].next = Len(inputs) + 1
  <2>1. ShapeOfThree(u, steps1, inputs, held1, leads, b, e, qs)
    BY <1>1, <1>2 DEF ShapeOfTwo, ShapeOfThree
  <2>. QED
    BY <2>1, TwiceReady
<1>8. Len(steps) <= Len(r)
  <2>1. Len(r) \in Nat
    <3>1. PICK v, leads2 : Follows(v, r, inputs, SetTop(held1, hs), leads2)
      BY <1>7
    <3>. HIDE DEF r
    <3>. QED
      BY <3>1, FollowsIs
  <2>. HIDE DEF r
  <2>. QED
    BY <1>1, <1>7, <2>1
<1>. HIDE DEF hs, r
<1>9. Ready(r, hs, steps, inputs, held, leads, options, TRUE)
  <2>1. top = held[Len(held)] /\ Len(hs) \in 2..4
    BY <1>6 DEF ShapeOfTwo
  <2>. QED
    BY <1>4, <1>6, <1>7, <1>8, <2>1 DEF Ready
<1>. QED
  BY <1>9 DEF hs, r

(* The merge itself, after the steps that were made ready for it.          *)
Composite(options) == [kind |-> "composite", options |-> options]
(* The merge itself, once the pictures are ready for it.                   *)
LEMMA MergeOn ==
  ASSUME NEW t, NEW steps, NEW inputs, NEW held, NEW leads, Sofar(t, steps, inputs, held, leads),
         NEW options, NEW shape, NEW steps2, NEW hs, Ready(steps2, hs, steps, inputs, held, leads, options, shape),
         NEW q, q = <<MeantMerge(held[Len(held)], shape, options)>>
  PROVE  /\ \E u : /\ Follows(u, Append(steps2, Composite(options)), inputs, SetTop(held, q), SetTop(leads, NoLead))
                   /\ u[Len(Append(steps2, Composite(options))) + 1].next = Len(inputs) + 1
         /\ Len(Append(steps2, Composite(options))) \in Nat
         /\ Len(steps) <= Len(Append(steps2, Composite(options)))
<1>. DEFINE s == Composite(options)
            L == Len(held)
            next == Len(inputs) + 1
            held2 == SetTop(held, hs)
            leads3 == SetTop(leads, NoLead)
<1>1. /\ IsSeq(held) /\ L \in Nat \ {0} /\ IsSeq(leads) /\ Len(leads) = L /\ Len(inputs) \in Nat
      /\ Len(steps) \in Nat
      /\ \A i \in 1..L - 1 : leads[i] = NoLead \/ leads[i].end # 0
  BY SofarIs DEF Sofar
<1>2. /\ Pictured(hs) /\ Len(hs) \in 2..4
      /\ MeantMerge(hs, FALSE, options) = MeantMerge(held[L], shape, options)
      /\ Len(steps) <= Len(steps2)
  BY DEF Ready
<1>3. PICK u, leads2 : /\ Follows(u, steps2, inputs, held2, leads2) /\ TopOnly(leads, leads2)
                       /\ u[Len(steps2) + 1].next = next
  BY DEF Ready
<1>4. TopOnly(held, held2) /\ held2[L] = hs /\ TopOnly(leads, leads3) /\ leads3[L] = NoLead
  BY <1>1, TopOnlyIs
<1>5. SetTop(held2, q) = SetTop(held, q)
  <2>. HIDE DEF L
  <2>. QED
    BY <1>1, TopTop DEF L
<1>. HIDE DEF held2, leads3
<1>6. Len(held2) = L
  BY <1>4 DEF TopOnly
<1>7. /\ IsMachine(u[Len(steps2) + 1], inputs) /\ Here(u[Len(steps2) + 1]) = hs /\ Len(steps2) \in Nat
      /\ IsSeq(steps2)
  BY <1>3, <1>4, <1>6, FollowsIs
<1>8. TopOnly(leads2, leads3) /\ \A i \in 1..L - 1 : leads2[i] = NoLead \/ leads2[i].end # 0
  BY <1>1, <1>3, <1>4 DEF TopOnly
<1>. DEFINE last == u[Len(steps2) + 1]
            n == Puts(last, q, next)
<1>9. q = <<MeantMerge(hs, FALSE, s.options)>> /\ s.kind = "composite"
  BY <1>2 DEF Composite
<1>. HIDE DEF s
<1>10. Merges(last, s, n)
  BY <1>2, <1>3, <1>7, <1>9 DEF Merges
<1>11. Pictured(q)
  BY MergeIs, PicturedOne
<1>12. next \in 1..Len(inputs) + 1
  BY <1>1
<1>13. StepsOn(u, steps2, inputs, held2, leads2, s, q, next, leads3)
  <2>1. Legal(last, s, n, inputs)
    BY <1>10 DEF Legal
  <2>. HIDE DEF next
  <2>. QED
    BY <1>3, <1>4, <1>6, <1>8, <1>11, <1>12, <2>1 DEF StepsOn
<1>14. \E v : /\ Follows(v, Append(steps2, s), inputs, SetTop(held2, q), leads3)
              /\ v[Len(Append(steps2, s)) + 1].next = next
  BY <1>13, FollowsTop
<1>15. Len(Append(steps2, s)) = Len(steps2) + 1
  BY <1>7, SeqAppend
<1>16. Len(Append(steps2, s)) \in Nat /\ Len(steps) <= Len(Append(steps2, s))
  BY <1>1, <1>2, <1>7, <1>15
<1>. QED
  BY <1>5, <1>14, <1>16 DEF s, leads3

(* A merge: Reader::transform, with the steps it rewrites.                 *)
LEMMA TellMerge ==
  ASSUME Told(parser, meant), Pictures \in 2..4,
         NEW p, p = [parser EXCEPT !.pending = None, !.steps = Merged,
                                   !.scopes = SetTop(@, 1), !.firsts = SetTop(@, NoLead)],
         NEW m, m = [scopes |-> SetTop(meant.scopes,
                       [pictures |-> <<MeantMerge(Last(meant.scopes).pictures, Last(meant.scopes).shape, meant.since)>>,
                        shape |-> FALSE]),
                     since |-> None]
  PROVE  Told(p, m)
<1>. DEFINE steps == parser.steps
            N == Len(steps)
            inputs == parser.inputs
            firsts == parser.firsts
            held == HeldOf(meant.scopes)
            L == Len(meant.scopes)
            here == meant.scopes[L]
            lead == firsts[L]
            b == lead.begin
            e == lead.end
            options == meant.since
            q == <<MeantMerge(here.pictures, here.shape, options)>>
            top == [pictures |-> q, shape |-> FALSE]
<1>1. /\ L \in Nat \ {0} /\ Len(firsts) = L /\ IsSeq(firsts) /\ N \in Nat /\ Len(held) = L
      /\ IsSeq(steps) /\ IsSeq(inputs) /\ Last(meant.scopes) = here /\ IsSeq(meant.scopes)
      /\ IsSeq(parser.scopes) /\ Len(parser.scopes) = L /\ Last(firsts) = lead
      /\ Pictures = Len(here.pictures)
      /\ \A i \in 1..L : held[i] = meant.scopes[i].pictures /\ firsts[i] \in Leads
  BY ToldIs DEF Pictures
<1>2. L \in 1..L /\ held[L] = here.pictures /\ lead \in Leads /\ Len(here.pictures) \in 2..4
  BY <1>1, SMTT(30)
<1>3. here.shape = lead.shape /\ lead.shape \in BOOLEAN /\ options = parser.pending
  BY <1>2 DEF Told, Counts, Leads
<1>4. PICK t : Follows(t, steps, inputs, held, firsts) /\ t[N + 1].next = Len(inputs) + 1
  BY DEF Told
<1>5. Counted(held, firsts, N)
  BY DEF Told
<1>6. lead = NoLead \/ lead.end # 0
  <2>1. Len(held[L]) # 1
    BY <1>2, SMTT(30)
  <2>. HIDE DEF lead, held, N
  <2>. QED
    BY <1>1, <1>2, <1>5, <2>1 DEF Counted, lead
<1>7. Sofar(t, steps, inputs, held, firsts)
  <2>1. \A i \in 1..Len(held) - 1 : firsts[i] = NoLead \/ firsts[i].end # 0
    <3>. HIDE DEF held, firsts, N
    <3>. QED
      BY <1>1, <1>5, CountedOuter
  <2>. QED
    BY <1>4, <2>1 DEF Sofar
<1>8. /\ IsParser(p) /\ p.pending = None /\ p.firsts = SetTop(firsts, NoLead) /\ p.inputs = inputs
      /\ p.steps = Merged /\ p.scopes = SetTop(parser.scopes, 1)
  BY Zenon DEF Told, IsParser
<1>9. Step("composite") = Composite(options)
  BY <1>3 DEF Step, Composite
<1>10. lead # NoLead /\ lead.shape <=> lead.shape
  BY DEF NoLead
<1>. DEFINE alone == lead.shape /\ Pictures = 2 /\ ModeOf(options) = "over"
            steps1 == Append(steps, Generate("null", None))
            qs == Append(here.pictures, Paint("null", None, here.pictures[2]))
<1>11. Merged = Append(IF lead.shape /\ (alone \/ Pictures = 3)
                       THEN SubSeq(IF alone THEN steps1 ELSE steps, 1, b - 1)
                              \o Append(SubSeq(steps, b, e), Nil)
                              \o SubSeq(IF alone THEN steps1 ELSE steps, b, Len(IF alone THEN steps1 ELSE steps))
                       ELSE IF alone THEN steps1 ELSE steps,
                       Composite(options))
  BY <1>1, <1>3, <1>9, <1>10, Zenon DEF Merged, Nil
<1>12. \E steps2, hs : /\ Ready(steps2, hs, steps, inputs, held, firsts, options, here.shape)
                       /\ Merged = Append(steps2, Composite(options))
  <2>1. CASE lead.shape /\ Pictures = 3
    <3>1. Merged = Append(Twice(steps, b, e), Composite(options))
      <4>1. ~alone
        BY <2>1
      <4>2. lead.shape /\ (alone \/ Pictures = 3)
        BY <2>1
      <4>. HIDE DEF alone, steps1, b, e, steps, lead, options
      <4>. QED
        BY <1>11, <4>1, <4>2 DEF Twice
    <3>2. ShapeOfThree(t, steps, inputs, held, firsts, b, e, here.pictures)
      BY <1>1, <1>2, <1>6, <1>7, <1>10, <2>1, SMTT(30) DEF ShapeOfThree
    <3>. DEFINE hs == Under(here.pictures, Clear(here.pictures[1]))
                r == Twice(steps, b, e)
    <3>3. /\ Len(steps) <= Len(r) /\ Pictured(hs)
          /\ \E u, leads2 : /\ Follows(u, r, inputs, SetTop(held, hs), leads2)
                            /\ TopOnly(firsts, leads2)
                            /\ u[Len(r) + 1].next = Len(inputs) + 1
      BY <3>2, TwiceReady, SMTT(30)
    <3>4. MeantMerge(hs, FALSE, options) = MeantMerge(here.pictures, TRUE, options) /\ Len(hs) = 4
      <4>1. IsSeq(held[Len(held)])
        BY <1>7, SofarIs
      <4>. HIDE DEF held, L
      <4>2. IsSeq(here.pictures) /\ Len(here.pictures) = 3
        BY <1>1, <1>2, <2>1, <4>1
      <4>. QED
        BY <4>2, MergeThree
    <3>. HIDE DEF hs, r
    <3>5. Ready(r, hs, steps, inputs, held, firsts, options, here.shape)
      <4>1. here.shape = TRUE /\ Len(hs) \in 2..4
        BY <1>3, <2>1, <3>4
      <4>. QED
        BY <1>1, <1>2, <3>3, <3>4, <4>1 DEF Ready
    <3>. QED
      BY <3>1, <3>5, ZenonT(60) DEF r
  <2>2. CASE alone
    <3>1. ShapeOfTwo(t, steps, inputs, held, firsts, b, e, here.pictures, steps1, qs)
      BY <1>1, <1>2, <1>6, <1>7, <1>10, <2>2 DEF ShapeOfTwo
    <3>2. Ready(Twice(steps1, b, e), Under(qs, Clear(qs[1])), steps, inputs, held, firsts, options, TRUE)
      <4>. HIDE DEF steps1, qs, held, firsts, options
      <4>. QED
        BY <2>2, <3>1, ReadyAlone, Zenon
    <3>3. b \in 1..N /\ e \in b..N
      <4>. DEFINE w == e - b + 2
      <4>1. Repeatable(t, steps, inputs, held, firsts, N, Len(held), b, e, w)
        BY <1>1, <1>4, <1>6, <1>7, <1>10, <2>2, LeadRepeats, SMTT(30) DEF Sofar
      <4>. HIDE DEF w, N
      <4>. QED
        BY <4>1, Zenon DEF Repeatable
    <3>4. SubSeq(steps1, b, e) = SubSeq(steps, b, e)
      <4>. DEFINE g == Generate("null", None)
      <4>1. b \in Nat \ {0} /\ e \in Nat /\ b <= e /\ e <= N
        BY <1>1, <3>3
      <4>. HIDE DEF g, b, e, N, steps, lead, options, alone
      <4>0. IsSeq(steps) /\ N = Len(steps)
        BY <1>1 DEF N
      <4>3. e <= Len(steps)
        BY <4>0, <4>1
      <4>2. SubSeq(Append(steps, g), b, e) = SubSeq(steps, b, e)
        BY <4>0, <4>1, <4>3, SubAppend, SMTT(30)
      <4>. QED
        BY <4>2 DEF g
    <3>. HIDE DEF steps1
    <3>5. Merged = Append(Twice(steps1, b, e), Composite(options))
      BY <1>11, <2>2, <3>4, Zenon DEF Twice
    <3>. QED
      BY <1>3, <2>2, <3>2, <3>5, Zenon
  <2>3. CASE ~(lead.shape /\ Pictures = 3) /\ ~alone
    <3>1. Merged = Append(steps, Composite(options))
      BY <1>11, <2>3, Zenon
    <3>2. ~lead.shape \/ Pictures = 4 \/ (Pictures = 2 /\ ModeOf(options) # "over")
      BY <1>1, <1>2, <2>3
    <3>3. Ready(steps, held[Len(held)], steps, inputs, held, firsts, options, here.shape)
      <4>1. /\ Len(held[Len(held)]) \in 2..4 /\ here.shape \in BOOLEAN
            /\ ~here.shape \/ Len(held[Len(held)]) = 4 \/ (Len(held[Len(held)]) = 2 /\ ModeOf(options) # "over")
        BY <1>1, <1>2, <1>3, <3>2
      <4>. HIDE DEF held, firsts, options, L, here
      <4>. QED
        BY <1>7, <4>1, ReadyPlain
    <3>. QED
      BY <3>1, <3>3, SMTT(30)
  <2>. QED
    BY <2>1, <2>2, <2>3, SMTT(30)
<1>13. /\ \E u : /\ Follows(u, Merged, inputs, SetTop(held, q), SetTop(firsts, NoLead))
                 /\ u[Len(Merged) + 1].next = Len(inputs) + 1
       /\ Len(Merged) \in Nat /\ Len(steps) <= Len(Merged)
  <2>1. PICK steps2, hs : /\ Ready(steps2, hs, steps, inputs, held, firsts, options, here.shape)
                          /\ Merged = Append(steps2, Composite(options))
    BY <1>12
  <2>2. q = <<MeantMerge(held[Len(held)], here.shape, options)>>
    BY <1>1, <1>2
  <2>. HIDE DEF q, held, firsts, options, here
  <2>3. /\ \E u : /\ Follows(u, Append(steps2, Composite(options)), inputs, SetTop(held, q), SetTop(firsts, NoLead))
                  /\ u[Len(Append(steps2, Composite(options))) + 1].next = Len(inputs) + 1
        /\ Len(Append(steps2, Composite(options))) \in Nat
        /\ Len(steps) <= Len(Append(steps2, Composite(options)))
    BY <1>7, <2>1, <2>2, MergeOn
  <2>. QED
    BY <2>1, <2>3
<1>14. Len(q) = 1 /\ q # None
  BY SeqOne
<1>15. m = [scopes |-> SetTop(meant.scopes, top), since |-> None]
  BY <1>1
<1>16. top.pictures = q /\ top.shape = FALSE /\ IsScope(top)
  BY DEF IsScope
<1>. HIDE DEF top, q
<1>17. IsMeant(m) /\ m.scopes = SetTop(meant.scopes, top) /\ m.since = None
  BY <1>15 DEF IsMeant
<1>18. /\ TopOnly(meant.scopes, m.scopes) /\ m.scopes[L] = top
       /\ TopOnly(parser.scopes, p.scopes) /\ p.scopes[L] = 1
       /\ TopOnly(firsts, p.firsts) /\ p.firsts[L] = NoLead
  <2>1. \A s : IsSeq(s) /\ Len(s) = L => \A x : TopOnly(s, SetTop(s, x)) /\ SetTop(s, x)[L] = x
    BY <1>1, TopOnlyIs
  <2>. HIDE DEF L, firsts
  <2>2. IsSeq(meant.scopes) /\ Len(meant.scopes) = L
    BY <1>1 DEF L
  <2>3. TopOnly(meant.scopes, SetTop(meant.scopes, top)) /\ SetTop(meant.scopes, top)[L] = top
    BY <2>1, <2>2
  <2>4. TopOnly(parser.scopes, SetTop(parser.scopes, 1)) /\ SetTop(parser.scopes, 1)[L] = 1
    BY <1>1, <2>1
  <2>5. TopOnly(firsts, SetTop(firsts, NoLead)) /\ SetTop(firsts, NoLead)[L] = NoLead
    BY <1>1, <2>1, SMTT(30)
  <2>. QED
    BY <1>8, <1>17, <2>3, <2>4, <2>5
<1>19. Tops(parser, meant, p, m, L)
  <2>1. TopLead(p.firsts[L], Len(q), Len(p.steps)) /\ NoLead.shape = FALSE
    BY <1>18 DEF TopLead, NoLead
  <2>. HIDE DEF here, lead, held
  <2>. QED
    BY <1>8, <1>13, <1>14, <1>16, <1>17, <1>18, <2>1, SeqEmpty DEF Tops, held
<1>. HIDE DEF L
<1>. QED
  BY <1>19, ToldTop
-----------------------------------------------------------------------------
(* A line of which nothing has been read.                                  *)
LEMMA StartIs ==
  IsMachine(Start, None) /\ Start.scopes = <<None>> /\ Start.next = 1 /\ Trace(<<Start>>, None, Start, None)
<1>1. /\ IsSeq(<<None>>) /\ Len(<<None>>) = 1 /\ <<None>>[1] = None /\ Pictured(None) /\ Len(None) = 0 /\ IsSeq(None)
  BY SeqOne, SeqEmpty DEF Pictured
<1>2. Start.scopes = <<None>> /\ Start.next = 1 /\ Start = Machine(Start.scopes, Start.next)
  BY DEF Start, Machine
<1>3. \A i \in 1..1 : <<None>>[i] = None
  BY <1>1
<1>4. IsMachine(Start, None)
  <2>. DEFINE one == <<None>>
  <2>. HIDE DEF one
  <2>1. IsSeq(one) /\ Len(one) = 1 /\ (\A i \in 1..1 : one[i] = None) /\ Start.scopes = one
    BY <1>1, <1>2, <1>3 DEF one
  <2>. QED
    BY <1>1, <1>2, <2>1 DEF IsMachine
<1>5. Trace(<<Start>>, None, Start, None)
  BY <1>1, <1>4, TraceStart
<1>. QED
  BY <1>2, <1>4, <1>5

(* Of a line of which nothing is read, nothing is told.                    *)
LEMMA TellNothing ==
  Told(NoLine, NothingMeant)
<1>. DEFINE t == <<Start>>
            scope == [pictures |-> None, shape |-> FALSE]
            scopes == <<scope>>
            held == HeldOf(scopes)
            leads == <<NoLead>>
            counts == <<0>>
<1>1. /\ IsSeq(t) /\ Len(t) = 1 /\ t[1] = Start
      /\ IsSeq(scopes) /\ Len(scopes) = 1 /\ scopes[1] = scope
      /\ IsSeq(leads) /\ Len(leads) = 1 /\ leads[1] = NoLead
      /\ IsSeq(counts) /\ Len(counts) = 1 /\ counts[1] = 0
      /\ IsSeq(None) /\ Len(None) = 0
  BY SeqOne, SeqEmpty
<1>2. IsScope(scope) /\ scope.pictures = None /\ scope.shape = FALSE
  BY DEF IsScope
<1>3. NoLead \in Leads /\ NoLead.shape = FALSE /\ NoLead.end = 0
  BY DEF NoLead, Leads
<1>4. Trace(t, None, Start, None) /\ Start.scopes = <<None>> /\ Start.next = 1
  BY StartIs
<1>. HIDE DEF t, scope, scopes, leads, counts
<1>5. IsSeq(held) /\ Len(held) = 1 /\ held[1] = None
  <2>1. IsSeq(held) /\ Len(held) = Len(scopes) /\ \A i \in 1..Len(scopes) : held[i] = scopes[i].pictures
    BY <1>1, HeldIs
  <2>. HIDE DEF held
  <2>2. 1 \in 1..Len(scopes)
    BY <1>1
  <2>. QED
    BY <1>1, <1>2, <2>1, <2>2
<1>6. held = <<None>>
  <2>. DEFINE one == <<None>>
  <2>1. IsSeq(one) /\ Len(one) = 1 /\ one[1] = None
    BY SeqOne
  <2>. HIDE DEF one, held
  <2>2. held = one
    BY <1>5, <2>1, SeqSame
  <2>. QED
    BY <2>2 DEF one
<1>. HIDE DEF held
<1>7. Follows(t, None, None, held, leads)
  <2>1. Shaped(leads, t, None)
    BY <1>1, <1>3 DEF Shaped
  <2>2. Nested(leads)
    BY <1>1, <1>3 DEF Nested
  <2>3. t[Len(None) + 1].scopes = held
    BY <1>1, <1>4, <1>6
  <2>. QED
    BY <1>1, <1>4, <1>5, <2>1, <2>2, <2>3 DEF Follows
<1>8. Counted(held, leads, 0)
  BY <1>1, <1>3, <1>5 DEF Counted
<1>9. /\ IsParser(NoLine) /\ NoLine.scopes = counts /\ NoLine.firsts = leads /\ NoLine.pending = None
      /\ NoLine.steps = None /\ NoLine.inputs = None /\ NoLine.query = None
  BY DEF NoLine, IsParser, counts, leads
<1>10. IsMeant(NothingMeant) /\ NothingMeant.scopes = scopes /\ NothingMeant.since = None
  BY DEF NothingMeant, IsMeant, scopes, scope
<1>11. Counts(NoLine, NothingMeant)
  <2>1. /\ IsScope(scopes[1]) /\ counts[1] = Len(scopes[1].pictures) /\ scopes[1].shape = leads[1].shape
    BY <1>1, <1>2, <1>3
  <2>2. \A i \in 1..Len(scopes) : i = 1
    BY <1>1
  <2>3. \A i \in 1..Len(scopes) :
           IsScope(scopes[i]) /\ counts[i] = Len(scopes[i].pictures) /\ scopes[i].shape = leads[i].shape
    BY <2>1, <2>2
  <2>. QED
    BY <1>1, <1>9, <1>10, <2>3 DEF Counts
<1>12. t[Len(None) + 1].next = Len(None) + 1
  BY <1>1, <1>4
<1>. QED
  BY <1>1, <1>7, <1>8, <1>9, <1>10, <1>11, <1>12 DEF Told, held

(* What the parser made is what is meant, the options waiting aside, which *)
(* the output takes.                                                       *)
Agreed(p, m) == IsParser(p) /\ \E o : Told([p EXCEPT !.pending = o], m)

(* A reader that agrees is one that has told what is meant, but for its    *)
(* options.                                                                *)
LEMMA AgreedIs ==
  ASSUME NEW p, NEW m, Agreed(p, m)
  PROVE  \E q : Told(q, m) /\ p.scopes = q.scopes /\ p.firsts = q.firsts /\ p.steps = q.steps /\ p.inputs = q.inputs
<1>1. PICK o : Told([p EXCEPT !.pending = o], m)
  BY DEF Agreed
<1>. DEFINE q == [p EXCEPT !.pending = o]
<1>2. p.scopes = q.scopes /\ p.firsts = q.firsts /\ p.steps = q.steps /\ p.inputs = q.inputs
  BY DEF Agreed, IsParser
<1>. QED
  BY <1>1, <1>2

(* A reader that took its output still agrees with what is meant.          *)
LEMMA ToldAgreed ==
  ASSUME NEW p, NEW m, Told(p, m), NEW q, IsParser(q), q.scopes = p.scopes, q.firsts = p.firsts,
         q.steps = p.steps, q.inputs = p.inputs
  PROVE  Agreed(q, m)
<1>. DEFINE r == [q EXCEPT !.pending = p.pending]
<1>1. /\ IsParser(r) /\ r.scopes = p.scopes /\ r.firsts = p.firsts /\ r.steps = p.steps /\ r.inputs = p.inputs
      /\ r.pending = p.pending
  BY DEF IsParser
<1>. HIDE DEF r
<1>2. Counts(r, m)
  BY <1>1 DEF Told, Counts
<1>3. Told(r, m)
  BY <1>1, <1>2 DEF Told
<1>. QED
  BY <1>3 DEF Agreed, r

(* A word leaves the line refused, or read on.                             *)
ReadsOn(p, m) == Told(p, m) /\ p.query = None

(* Every word that Reader::word takes leaves a reader that has told what   *)
(* is meant, or a line that is over.                                       *)
LEMMA ReadWords ==
  ASSUME stage = "reading", ReadsOn(parser, meant), Open \/ Close \/ Merge \/ (\E name \in Options : Option(name))
         \/ (\E file \in Files : SourceFile(file)) \/ (\E brush \in Shapes \cup Canvases : SourceBrush(brush))
         \/ (\E kind \in Plain : Transform(kind))
  PROVE  Refused \/ (stage' = "reading" /\ ReadsOn(parser', meant'))
<1>1. Told(parser, meant) /\ parser.query = None /\ IsParser(parser)
  BY DEF ReadsOn, Told
<1>2. CASE Open
  <2>. SUFFICES ASSUME ~Refused PROVE stage' = "reading" /\ ReadsOn(parser', meant')
    OBVIOUS
  <2>1. stage' = "reading"
    BY <1>2 DEF Open, GoesOn
  <2>2. /\ parser' = [parser EXCEPT !.scopes = Append(@, 0), !.firsts = Append(Starting, NoLead),
                                    !.steps = Append(@, [kind |-> "open"])]
        /\ meant' = [meant EXCEPT !.scopes = Append(@, [pictures |-> None, shape |-> FALSE])]
    BY <1>2 DEF Open
  <2>3. Told(parser', meant')
    BY <1>1, <2>2, TellOpen
  <2>4. parser'.query = None
    BY <1>1, <2>2 DEF IsParser
  <2>. QED
    BY <2>1, <2>3, <2>4 DEF ReadsOn
<1>3. CASE Close
  <2>. SUFFICES ASSUME ~Refused PROVE stage' = "reading" /\ ReadsOn(parser', meant')
    OBVIOUS
  <2>1. stage' = "reading" /\ Len(parser.scopes) > 1 /\ Pictures > 0
    BY <1>3 DEF Close, CanClose, GoesOn
  <2>2. /\ parser' = [parser EXCEPT !.scopes = SetTop(Front(@), Last(Front(@)) + Last(@)), !.firsts = Front(@),
                                    !.steps = Append(@, [kind |-> "close"])]
        /\ meant' = [meant EXCEPT !.scopes =
                       SetTop(Front(@), [Last(Front(meant.scopes)) EXCEPT !.pictures = @ \o Last(meant.scopes).pictures])]
    BY <1>3, SMTT(30) DEF Close
  <2>3. Told(parser', meant')
    BY <1>1, <2>1, <2>2, TellClose
  <2>4. parser'.query = None
    BY <1>1, <2>2 DEF IsParser
  <2>. QED
    BY <2>1, <2>3, <2>4 DEF ReadsOn
<1>4. CASE Merge
  <2>. SUFFICES ASSUME ~Refused PROVE stage' = "reading" /\ ReadsOn(parser', meant')
    OBVIOUS
  <2>1. stage' = "reading" /\ Pictures \in 2..4
    BY <1>4 DEF Merge, CanMerge, GoesOn
  <2>2. /\ parser' = [parser EXCEPT !.pending = None, !.steps = Merged,
                                    !.scopes = SetTop(@, 1), !.firsts = SetTop(@, NoLead)]
        /\ meant' = [scopes |-> SetTop(meant.scopes,
                       [pictures |-> <<MeantMerge(Last(meant.scopes).pictures, Last(meant.scopes).shape, meant.since)>>,
                        shape |-> FALSE]),
                     since |-> None]
    BY <1>4 DEF Merge
  <2>3. Told(parser', meant')
    BY <1>1, <2>1, <2>2, TellMerge
  <2>4. parser'.query = None
    BY <1>1, <2>2 DEF IsParser
  <2>. QED
    BY <2>1, <2>3, <2>4 DEF ReadsOn
<1>5. CASE \E name \in Options : Option(name)
  <2>. SUFFICES ASSUME ~Refused PROVE stage' = "reading" /\ ReadsOn(parser', meant')
    OBVIOUS
  <2>1. PICK name \in Options : Option(name)
    BY <1>5
  <2>2. PICK value : /\ parser' = [parser EXCEPT !.pending = Append(@, [name |-> name, value |-> value])]
                     /\ meant' = [meant EXCEPT !.since = Append(@, [name |-> name, value |-> value])]
                     /\ stage' = stage
    BY <2>1 DEF Option, GoesOn
  <2>3. Told(parser', meant')
    BY <1>1, <2>2, TellOption
  <2>4. parser'.query = None
    BY <1>1, <2>2 DEF IsParser
  <2>. QED
    BY <2>2, <2>3, <2>4 DEF ReadsOn
<1>6. CASE \E file \in Files : SourceFile(file)
  <2>. SUFFICES ASSUME ~Refused PROVE stage' = "reading" /\ ReadsOn(parser', meant')
    OBVIOUS
  <2>1. PICK file \in Files : SourceFile(file)
    BY <1>6
  <2>2. /\ parser' = [parser EXCEPT
                       !.pending = None,
                       !.firsts = Starting,
                       !.steps = @ \o << [kind |-> "source"], [kind |-> "decode", options |-> parser.pending] >>,
                       !.inputs = Append(@, file),
                       !.scopes = SetTop(@, Last(@) + 1)]
        /\ meant' = [scopes |-> SetTop(meant.scopes,
                                  [pictures |-> Append(Last(meant.scopes).pictures, Read(file, meant.since)),
                                   shape |-> IF Last(meant.scopes).pictures = None
                                             THEN FALSE ELSE Last(meant.scopes).shape]),
                     since |-> None]
        /\ stage' = stage
    BY <2>1 DEF SourceFile, GoesOn, MeansPicture
  <2>3. Told(parser', meant')
    BY <1>1, <2>2, TellFile
  <2>4. parser'.query = None
    BY <1>1, <2>2 DEF IsParser
  <2>. QED
    BY <2>2, <2>3, <2>4 DEF ReadsOn
<1>7. CASE \E brush \in Shapes \cup Canvases : SourceBrush(brush)
  <2>. SUFFICES ASSUME ~Refused PROVE stage' = "reading" /\ ReadsOn(parser', meant')
    OBVIOUS
  <2>1. PICK brush \in Shapes \cup Canvases : SourceBrush(brush)
    BY <1>7
  <2>. DEFINE shape == brush \in Shapes
              picture == Paint(brush, meant.since, MeantSize(brush, meant.since, Last(meant.scopes).pictures))
  <2>2. /\ parser' = [parser EXCEPT
                       !.pending = None,
                       !.firsts = IF Pictures = 0
                                  THEN SetTop(@, [begin |-> Len(parser.steps) + 1, end |-> 0, shape |-> shape])
                                  ELSE Starting,
                       !.steps = Append(@, Generate(brush, parser.pending)),
                       !.scopes = SetTop(@, Last(@) + 1)]
        /\ meant' = [scopes |-> SetTop(meant.scopes,
                                  [pictures |-> Append(Last(meant.scopes).pictures, picture),
                                   shape |-> IF Last(meant.scopes).pictures = None
                                             THEN shape ELSE Last(meant.scopes).shape]),
                     since |-> None]
        /\ stage' = stage
    BY <2>1 DEF SourceBrush, GoesOn, MeansPicture
  <2>3. Told(parser', meant')
    BY <1>1, <2>2, TellBrush
  <2>4. parser'.query = None
    BY <1>1, <2>2 DEF IsParser
  <2>. QED
    BY <2>2, <2>3, <2>4 DEF ReadsOn
<1>8. CASE \E kind \in Plain : Transform(kind)
  <2>. SUFFICES ASSUME ~Refused PROVE stage' = "reading" /\ ReadsOn(parser', meant')
    OBVIOUS
  <2>1. PICK kind \in Plain : Transform(kind)
    BY <1>8
  <2>. DEFINE made == IF kind = "pixpalette" THEN Last(Last(meant.scopes).pictures)
                      ELSE Changed(kind, meant.since, Last(Last(meant.scopes).pictures))
  <2>2. /\ parser' = [parser EXCEPT !.pending = None, !.steps = Append(@, Step(kind))]
        /\ meant' = [scopes |-> SetTop(meant.scopes, [Last(meant.scopes) EXCEPT !.pictures = SetTop(@, made)]),
                     since |-> None]
        /\ stage' = stage /\ Pictures > 0
    BY <2>1 DEF Transform, GoesOn, CanChange
  <2>3. kind \in PlainKinds
    BY ConvertAssumption
  <2>4. Told(parser', meant')
    BY <1>1, <2>2, <2>3, TellTransform
  <2>5. parser'.query = None
    BY <1>1, <2>2 DEF IsParser
  <2>. QED
    BY <2>2, <2>4, <2>5 DEF ReadsOn
<1>. QED
  BY <1>2, <1>3, <1>4, <1>5, <1>6, <1>7, <1>8
-----------------------------------------------------------------------------
(* A picture of the pipeline shows one that is meant.                      *)
Fielded(p) == p \in [native : {p.native}, image : {p.image}, indexed : {p.indexed}]
IsPicture(p) ==
  /\ Fielded(p)
  /\ p.indexed # None => p.native = None /\ p.indexed = p.image
Shows(p, x) == IsPicture(p) /\ Pixels(p) = x /\ x # None

(* A picture as it is decoded shows what it was read as.                   *)
LEMMA NativeShows ==
  ASSUME NEW x, x # None
  PROVE  Shows(Native(x), x)
BY DEF Shows, IsPicture, Fielded, Native, Pixels

(* The fields of a picture, two of them changed.                           *)
LEMMA PictureFields ==
  ASSUME NEW p, Fielded(p), NEW a, NEW b
  PROVE  /\ [p EXCEPT !.native = a, !.image = b] = [native |-> a, image |-> b, indexed |-> p.indexed]
         /\ [p EXCEPT !.image = a, !.indexed = b] = [native |-> p.native, image |-> a, indexed |-> b]
         /\ [p EXCEPT !.native = a, !.indexed = b] = [native |-> a, image |-> p.image, indexed |-> b]
<1>0. p = [native |-> p.native, image |-> p.image, indexed |-> p.indexed]
  BY DEF Fielded
<1>. DEFINE q == [p EXCEPT !.native = a]
            r == [p EXCEPT !.image = a]
<1>4. q = [native |-> a, image |-> p.image, indexed |-> p.indexed]
  BY <1>0
<1>5. r = [native |-> p.native, image |-> a, indexed |-> p.indexed]
  BY <1>0
<1>. HIDE DEF q, r
<1>1. [q EXCEPT !.image = b] = [native |-> a, image |-> b, indexed |-> p.indexed]
  BY <1>4
<1>2. [r EXCEPT !.indexed = b] = [native |-> p.native, image |-> a, indexed |-> b]
  BY <1>5
<1>3. [q EXCEPT !.indexed = b] = [native |-> a, image |-> p.image, indexed |-> b]
  BY <1>4
<1>. USE DEF q, r
<1>. QED
  BY <1>1, <1>2, <1>3

(* A picture in rgba shows what it showed.                                 *)
LEMMA RgbaIs ==
  ASSUME NEW p, NEW x, Shows(p, x)
  PROVE  /\ InRgba(p) = [native |-> None, image |-> x, indexed |-> p.indexed]
         /\ p.indexed # None => p.indexed = x
<1>1. p = [native |-> p.native, image |-> p.image, indexed |-> p.indexed] /\ IsPicture(p) /\ Pixels(p) = x
  BY DEF Shows, IsPicture, Fielded
<1>2. InRgba(p) = [native |-> None, image |-> Pixels(p), indexed |-> p.indexed]
  <2>. DEFINE q == [p EXCEPT !.native = None]
  <2>2. q = [native |-> None, image |-> p.image, indexed |-> p.indexed]
    BY <1>1
  <2>. HIDE DEF q
  <2>3. [q EXCEPT !.image = Pixels(p)] = [native |-> None, image |-> Pixels(p), indexed |-> p.indexed]
    BY <2>2
  <2>4. InRgba(p) = [q EXCEPT !.image = Pixels(p)]
    BY DEF InRgba, q
  <2>. QED
    BY <2>3, <2>4
<1>. QED
  BY <1>1, <1>2 DEF IsPicture, Fielded, Pixels

(* What a change did to a picture is the change of it.                     *)
LEMMA DidIs ==
  ASSUME NEW step, NEW x, x # None
  PROVE  Did(step, x) = Changed(step.kind, step.options, x) /\ Did(step, x) # None /\ Did(step, None) = None
BY PicturesAre DEF Did

(* A transform of convert.cpp shows what the transform of what was shown   *)
(* means, and keeps the indices in step.                                   *)
LEMMA ChangeShows ==
  ASSUME NEW p, NEW x, Shows(p, x), NEW step, step.kind \in PlainKinds, NEW q \in ChangesOf(p, step)
  PROVE  Shows(q, Made(step, x))
<1>. DEFINE r == InRgba(p)
            y == Did(step, x)
<1>1. /\ r = [native |-> None, image |-> x, indexed |-> p.indexed]
      /\ p.indexed = None \/ p.indexed = x
      /\ IsPicture(p) /\ Pixels(p) = x /\ x # None
  BY RgbaIs DEF Shows
<1>2. y = Changed(step.kind, step.options, x) /\ y # None /\ Did(step, None) = None
  BY <1>1, DidIs
<1>11. r.native = None /\ r.image = x /\ r.indexed = p.indexed
       /\ Fielded(r)
  BY <1>1 DEF Fielded
<1>12. ASSUME NEW a, NEW b PROVE [r EXCEPT !.image = a, !.indexed = b] = [native |-> None, image |-> a, indexed |-> b]
  <2>. DEFINE z == [r EXCEPT !.image = a]
  <2>1. z = [native |-> None, image |-> a, indexed |-> p.indexed]
    <3>. HIDE DEF r
    <3>. QED
      BY <1>1
  <2>. HIDE DEF z
  <2>2. [z EXCEPT !.indexed = b] = [native |-> None, image |-> a, indexed |-> b]
    BY <2>1
  <2>. QED
    BY <2>2 DEF z
<1>3. ASSUME step.kind # "pixpalette" PROVE Made(step, x) = y
  BY <1>2, <1>3 DEF Made
<1>4. CASE step.kind \in {"crop", "resize"}
  <2>1. q = [r EXCEPT !.image = Did(step, @), !.indexed = Did(step, @)]
    BY <1>4 DEF ChangesOf, CropOf, ResizeOf
  <2>2. q = [native |-> None, image |-> y, indexed |-> Did(step, p.indexed)]
    BY <1>11, <1>12, <2>1, ZenonT(60)
  <2>3. Did(step, p.indexed) = None \/ Did(step, p.indexed) = y
    BY <1>1, <1>2
  <2>. HIDE DEF y
  <2>4. IsPicture(q) /\ Pixels(q) = y
    BY <2>2, <2>3 DEF IsPicture, Fielded, Pixels
  <2>. QED
    BY <1>2, <1>3, <1>4, <2>4 DEF Shows
<1>5. ASSUME q = [r EXCEPT !.image = Did(step, @), !.indexed = None], step.kind # "pixpalette"
      PROVE  Shows(q, Made(step, x))
  <2>1. q = [native |-> None, image |-> y, indexed |-> None]
    BY <1>11, <1>12, <1>5, ZenonT(60)
  <2>. HIDE DEF y
  <2>2. IsPicture(q) /\ Pixels(q) = y
    BY <2>1 DEF IsPicture, Fielded, Pixels
  <2>. QED
    BY <1>2, <1>3, <1>5, <2>2 DEF Shows
<1>6. CASE step.kind = "radius"
  BY <1>5, <1>6 DEF ChangesOf, RadiusOf
<1>7. CASE step.kind = "negate"
  <2>1. \/ q = [r EXCEPT !.image = Did(step, @), !.indexed = None]
        \/ p.native # None /\ q = [p EXCEPT !.native = Did(step, @), !.indexed = None]
    BY <1>7 DEF ChangesOf, NegateOf
  <2>2. CASE p.native # None /\ q = [p EXCEPT !.native = Did(step, @), !.indexed = None]
    <3>1. p.native = x
      BY <1>1, <2>2 DEF Pixels
    <3>2. q = [native |-> y, image |-> p.image, indexed |-> None]
      <4>1. Fielded(p)
        BY <1>1 DEF IsPicture
      <4>. QED
        BY <2>2, <3>1, <4>1, PictureFields, ZenonT(60)
    <3>. HIDE DEF y
    <3>3. IsPicture(q) /\ Pixels(q) = y
      BY <1>2, <3>2 DEF IsPicture, Fielded, Pixels
    <3>. QED
      BY <1>2, <1>3, <1>7, <3>3 DEF Shows
  <2>. QED
    BY <1>5, <1>7, <2>1, <2>2
<1>8. CASE step.kind = "palette"
  <2>1. q = [native |-> None, image |-> y, indexed |-> y]
    BY <1>1, <1>8 DEF ChangesOf, PaletteOf
  <2>. HIDE DEF y
  <2>2. IsPicture(q) /\ Pixels(q) = y
    BY <2>1 DEF IsPicture, Fielded, Pixels
  <2>. QED
    BY <1>2, <1>3, <1>8, <2>2 DEF Shows
<1>9. CASE step.kind = "pixpalette"
  <2>1. q = p
    BY <1>9 DEF ChangesOf, PixFmtOf
  <2>. QED
    BY <1>1, <1>9, <2>1 DEF Shows, Made
<1>10. CASE step.kind \in {"nil", "fx"}
  <2>1. q = Native(y)
    BY <1>1, <1>10 DEF ChangesOf, PixFmtOf
  <2>. HIDE DEF y
  <2>2. Shows(q, y)
    BY <1>2, <2>1, NativeShows
  <2>. QED
    BY <1>3, <1>10, <2>2
<1>. QED
  BY <1>4, <1>6, <1>7, <1>8, <1>9, <1>10 DEF PlainKinds

(* A composite of two shows what the mix of the two means.                 *)
LEMMA CompositeShows ==
  ASSUME NEW p, NEW x, Shows(p, x), NEW q, NEW y, Shows(q, y), NEW mode, NEW options
  PROVE  Shows(CompositeOf(p, q, mode, options), Mixed(mode, options, x, y))
<1>. DEFINE z == Mixed(mode, options, x, y)
            c == CompositeOf(p, q, mode, options)
<1>1. c = [native |-> None, image |-> z, indexed |-> None]
  BY DEF CompositeOf, Shows
<1>2. z # None
  BY PicturesAre
<1>. HIDE DEF z, c
<1>3. Shows(c, z)
  BY <1>1, <1>2 DEF Shows, IsPicture, Fielded, Pixels
<1>. QED
  BY <1>3 DEF z, c

(* A merge of two, three or four shows what the merge means.               *)
LEMMA JoinedShows ==
  ASSUME NEW ps, NEW xs, NEW n, n \in 2..4, Len(ps) = n, Len(xs) = n,
         \A j \in 1..n : Shows(ps[j], xs[j]), NEW options
  PROVE  Shows(Joined(ps, options), MeantMerge(xs, FALSE, options))
<1>. DEFINE step == [kind |-> "negate", options |-> None]
            negative == CHOOSE p \in NegateOf(ps[2], step) : TRUE
            tint(p, colour) == CompositeOf(p, colour, "tint", None)
            layer == CASE Len(ps) = 4 -> CompositeOf(tint(negative, ps[4]), tint(ps[2], ps[3]), "over", None)
                       [] Len(ps) = 3 -> tint(ps[2], ps[3])
                       [] OTHER -> ps[2]
<1>1. Shows(ps[1], xs[1]) /\ Shows(ps[2], xs[2])
  OBVIOUS
<1>2. Shows(negative, Changed("negate", None, xs[2]))
  <2>1. NegateOf(ps[2], step) # {}
    BY DEF NegateOf
  <2>2. negative \in NegateOf(ps[2], step)
    BY <2>1
  <2>3. step.kind = "negate" /\ step.options = None
    OBVIOUS
  <2>. HIDE DEF step, negative
  <2>4. negative \in ChangesOf(ps[2], step) /\ step.kind \in PlainKinds
    BY <2>2, <2>3 DEF ChangesOf, PlainKinds
  <2>5. Shows(negative, Made(step, xs[2]))
    BY <1>1, <2>4, ChangeShows
  <2>. QED
    BY <2>3, <2>5 DEF Made
<1>3. Joined(ps, options) = CompositeOf(ps[1], layer, ModeOf(options), options)
  BY DEF Joined
<1>. HIDE DEF negative, step
<1>4. ASSUME NEW x, Shows(layer, x) PROVE Shows(Joined(ps, options), Mixed(ModeOf(options), options, xs[1], x))
  <2>. HIDE DEF layer
  <2>. QED
    BY <1>1, <1>3, <1>4, CompositeShows
<1>5. CASE n = 4
  <2>1. Shows(ps[3], xs[3]) /\ Shows(ps[4], xs[4])
    BY <1>5
  <2>2. layer = CompositeOf(tint(negative, ps[4]), tint(ps[2], ps[3]), "over", None)
    BY <1>5
  <2>. HIDE DEF layer
  <2>3. Shows(tint(negative, ps[4]), Tinted(Changed("negate", None, xs[2]), xs[4])) /\ Shows(tint(ps[2], ps[3]), Tinted(xs[2], xs[3]))
    BY <1>1, <1>2, <2>1, CompositeShows DEF Tinted
  <2>. HIDE DEF tint
  <2>4. Shows(layer, TwoColours(xs[2], xs[3], xs[4]))
    BY <2>2, <2>3, CompositeShows DEF TwoColours
  <2>5. MeantMerge(xs, FALSE, options) = Mixed(ModeOf(options), options, xs[1], TwoColours(xs[2], xs[3], xs[4]))
    BY <1>5, MergeFour
  <2>. QED
    BY <1>4, <2>4, <2>5
<1>6. CASE n = 3
  <2>1. Shows(ps[3], xs[3])
    BY <1>6
  <2>2. layer = tint(ps[2], ps[3])
    BY <1>6
  <2>. HIDE DEF layer
  <2>3. Shows(layer, Tinted(xs[2], xs[3]))
    BY <1>1, <2>1, <2>2, CompositeShows DEF Tinted
  <2>4. MeantMerge(xs, FALSE, options) = Mixed(ModeOf(options), options, xs[1], Tinted(xs[2], xs[3]))
    BY <1>6 DEF MeantMerge
  <2>. QED
    BY <1>4, <2>3, <2>4
<1>7. CASE n = 2
  <2>1. layer = ps[2]
    BY <1>7
  <2>. HIDE DEF layer
  <2>2. MeantMerge(xs, FALSE, options) = Mixed(ModeOf(options), options, xs[1], xs[2])
    BY <1>7 DEF MeantMerge
  <2>. QED
    BY <1>1, <1>4, <2>1, <2>2
<1>8. n = 2 \/ n = 3 \/ n = 4
  OBVIOUS
<1>. QED
  BY <1>5, <1>6, <1>7, <1>8
-----------------------------------------------------------------------------
(* The pipeline's one stack is the parentheses of the machine end to end,  *)
(* cut where its scopes say.                                               *)
Stacked(stack, scopes, m) ==
  /\ IsSeq(stack) /\ IsSeq(scopes) /\ Len(scopes) = Len(m.scopes) /\ scopes[1] = 0
  /\ \A i \in 1..Len(scopes) : scopes[i] \in Nat
  /\ \A i, j \in 1..Len(scopes) : i < j => scopes[i] + Len(m.scopes[i]) <= scopes[j]
  /\ \A i \in 1..Len(scopes) - 1 : scopes[i + 1] = scopes[i] + Len(m.scopes[i])
  /\ Len(stack) = Last(scopes) + Len(Here(m))
  /\ \A i \in 1..Len(scopes) : \A j \in 1..Len(m.scopes[i]) : Shows(stack[scopes[i] + j], m.scopes[i][j])
AllPictures(stack) == \A k \in 1..Len(stack) : IsPicture(stack[k])

(* Where each scope's pictures are on the one stack.                       *)
LEMMA StackedIs ==
  ASSUME NEW stack, NEW scopes, NEW m, NEW inputs, IsMachine(m, inputs), Stacked(stack, scopes, m)
  PROVE  /\ Len(stack) \in Nat /\ Len(scopes) \in Nat \ {0} /\ Len(m.scopes) = Len(scopes)
         /\ Last(scopes) = scopes[Len(scopes)] /\ Last(scopes) \in Nat /\ Len(Here(m)) \in Nat
         /\ Len(stack) = Last(scopes) + Len(Here(m))
         /\ \A i \in 1..Len(scopes) : Len(m.scopes[i]) \in Nat /\ scopes[i] + Len(m.scopes[i]) <= Len(stack)
<1>1. /\ Len(m.scopes) \in Nat \ {0} /\ IsSeq(Here(m)) /\ Here(m) = m.scopes[Len(m.scopes)]
  BY IsHere
<1>2. Len(stack) \in Nat /\ Len(m.scopes) = Len(scopes) /\ Last(scopes) = scopes[Len(scopes)]
  BY SeqShape DEF Stacked, Last
<1>3. Len(Here(m)) \in Nat /\ Len(scopes) \in 1..Len(scopes)
  BY <1>1, <1>2, SeqShape
<1>4. Last(scopes) \in Nat /\ Len(stack) = Last(scopes) + Len(Here(m))
  BY <1>2, <1>3 DEF Stacked
<1>5. ASSUME NEW i \in 1..Len(scopes) PROVE Len(m.scopes[i]) \in Nat /\ scopes[i] + Len(m.scopes[i]) <= Len(stack)
  <2>1. IsSeq(m.scopes[i]) /\ scopes[i] \in Nat
    BY <1>2 DEF IsMachine, Pictured, Stacked
  <2>2. Len(m.scopes[i]) \in Nat
    BY <2>1, SeqShape
  <2>3. CASE i = Len(scopes)
    BY <1>1, <1>2, <1>4, <2>2, <2>3
  <2>4. CASE i # Len(scopes)
    <3>1. i < Len(scopes)
      BY <1>1, <1>2, <2>4
    <3>2. scopes[i] + Len(m.scopes[i]) <= Last(scopes)
      BY <1>2, <1>3, <3>1 DEF Stacked
    <3>. QED
      BY <1>3, <1>4, <2>1, <2>2, <3>2, SMTT(30)
  <2>. QED
    BY <2>3, <2>4
<1>. QED
  BY <1>1, <1>2, <1>3, <1>4, <1>5

(* Other pictures in the innermost parenthesis.                            *)
TopPictures(stack2, stack, low, ps) ==
  /\ IsSeq(stack2) /\ Len(stack2) = low + Len(ps)
  /\ \A k \in 1..low : stack2[k] = stack[k]
  /\ \A j \in 1..Len(ps) : Shows(stack2[low + j], ps[j])

(* Other pictures on the top scope leave a stack that holds the scopes end *)
(* to end.                                                                 *)
LEMMA StackedPuts ==
  ASSUME NEW stack, NEW scopes, NEW m, NEW inputs, IsMachine(m, inputs), Stacked(stack, scopes, m), AllPictures(stack),
         NEW ps, Pictured(ps), NEW next \in 1..Len(inputs) + 1, NEW stack2,
         TopPictures(stack2, stack, Last(scopes), ps)
  PROVE  Stacked(stack2, scopes, Puts(m, ps, next)) /\ AllPictures(stack2)
<1>. DEFINE n == Puts(m, ps, next)
            L == Len(scopes)
            low == Last(scopes)
<1>1. /\ Len(stack) \in Nat /\ L \in Nat \ {0} /\ Len(m.scopes) = L
      /\ low = scopes[L] /\ low \in Nat /\ Len(stack) = low + Len(Here(m)) /\ Len(Here(m)) \in Nat
      /\ \A i \in 1..L : Len(m.scopes[i]) \in Nat /\ scopes[i] \in Nat
  BY StackedIs DEF Stacked
<1>2. /\ IsMachine(n, inputs) /\ Here(n) = ps /\ Len(n.scopes) = L
      /\ \A i \in 1..L - 1 : n.scopes[i] = m.scopes[i]
      /\ n.scopes[L] = ps
  BY <1>1, PutsIs
<1>3. Len(ps) \in Nat
  BY SeqShape DEF Pictured
<1>4. /\ IsSeq(stack2) /\ Len(stack2) = low + Len(ps)
      /\ \A k \in 1..low : stack2[k] = stack[k]
      /\ \A j \in 1..Len(ps) : Shows(stack2[low + j], ps[j])
  BY DEF TopPictures
<1>. HIDE DEF n, low
<1>5. \A i \in 1..L : i = L \/ (i \in 1..L - 1 /\ i < L)
  BY <1>1
<1>6. ASSUME NEW i \in 1..L, NEW j \in 1..L, i < j PROVE scopes[i] + Len(n.scopes[i]) <= scopes[j]
  <2>1. i \in 1..L - 1
    BY <1>1, <1>6
  <2>2. scopes[i] + Len(m.scopes[i]) <= scopes[j]
    BY <1>6 DEF Stacked
  <2>. QED
    BY <1>2, <2>1, <2>2
<1>7. ASSUME NEW i \in 1..L - 1 PROVE scopes[i + 1] = scopes[i] + Len(n.scopes[i])
  BY <1>2 DEF Stacked
<1>8. ASSUME NEW i \in 1..L, NEW j \in 1..Len(n.scopes[i]) PROVE Shows(stack2[scopes[i] + j], n.scopes[i][j])
  <2>1. CASE i = L
    BY <1>1, <1>2, <1>4, <2>1
  <2>2. CASE i \in 1..L - 1 /\ i < L
    <3>1. n.scopes[i] = m.scopes[i] /\ j \in 1..Len(m.scopes[i]) /\ j \in Nat
      BY <1>1, <1>2, <2>2
    <3>0. L \in 1..L
      BY <1>1
    <3>2. scopes[i] + Len(m.scopes[i]) <= scopes[L]
      BY <2>2, <3>0 DEF Stacked
    <3>3. scopes[i] + j \in 1..low
      <4>. DEFINE a == scopes[i]
                  c == Len(m.scopes[i])
      <4>1. a \in Nat /\ c \in Nat /\ j \in 1..c /\ a + c <= low
        BY <1>1, <3>1, <3>2
      <4>. HIDE DEF a, c
      <4>2. a + j \in 1..low
        BY <1>1, <4>1
      <4>. QED
        BY <4>2 DEF a
    <3>4. Shows(stack[scopes[i] + j], m.scopes[i][j])
      BY <3>1 DEF Stacked
    <3>. QED
      BY <1>4, <3>1, <3>3, <3>4
  <2>. QED
    BY <1>5, <2>1, <2>2
<1>9. Len(stack2) = Last(scopes) + Len(Here(n))
  BY <1>2, <1>4 DEF low
<1>10. Stacked(stack2, scopes, n)
  BY <1>1, <1>2, <1>4, <1>6, <1>7, <1>8, <1>9 DEF Stacked
<1>11. ASSUME NEW k \in 1..Len(stack2) PROVE IsPicture(stack2[k])
  <2>1. CASE k <= low
    <3>1. k \in 1..low /\ k \in 1..Len(stack)
      BY <1>1, <1>3, <1>4, <2>1, SMTT(30)
    <3>. QED
      BY <1>4, <3>1 DEF AllPictures
  <2>2. CASE ~(k <= low)
    <3>1. k - low \in 1..Len(ps) /\ low + (k - low) = k
      BY <1>1, <1>3, <1>4, <2>2, SMTT(30)
    <3>2. Shows(stack2[low + (k - low)], ps[k - low])
      BY <1>4, <3>1
    <3>. QED
      BY <3>1, <3>2 DEF Shows
  <2>. QED
    BY <2>1, <2>2
<1>. QED
  BY <1>10, <1>11 DEF n, AllPictures

(* One more picture.                                                       *)
LEMMA StackedMore ==
  ASSUME NEW stack, NEW scopes, NEW m, NEW inputs, IsMachine(m, inputs), Stacked(stack, scopes, m), AllPictures(stack),
         NEW x, x # None, NEW p, Shows(p, x), NEW next \in 1..Len(inputs) + 1
  PROVE  /\ Stacked(Append(stack, p), scopes, Puts(m, Append(Here(m), x), next))
         /\ AllPictures(Append(stack, p)) /\ IsMachine(Puts(m, Append(Here(m), x), next), inputs)
<1>. DEFINE ps == Append(Here(m), x)
            more == Append(stack, p)
            low == Last(scopes)
            n == Len(Here(m))
<1>1. /\ Len(stack) \in Nat /\ Len(scopes) \in Nat \ {0} /\ Len(m.scopes) = Len(scopes) /\ low = scopes[Len(scopes)]
      /\ low \in Nat /\ Len(stack) = low + n /\ n \in Nat
  BY StackedIs
<1>2. Pictured(Here(m)) /\ IsSeq(Here(m)) /\ IsSeq(stack) /\ Here(m) = m.scopes[Len(m.scopes)]
  BY IsHere DEF Stacked
<1>3. IsSeq(ps) /\ Len(ps) = n + 1 /\ (\A i \in 1..n : ps[i] = Here(m)[i]) /\ ps[n + 1] = x
  BY <1>2, SeqAppend
<1>4. /\ IsSeq(more) /\ Len(more) = Len(stack) + 1 /\ (\A i \in 1..Len(stack) : more[i] = stack[i])
      /\ more[Len(stack) + 1] = p
  BY <1>2, SeqAppend
<1>5. Pictured(ps)
  BY <1>2, PicturedAppend
<1>6. ASSUME NEW j \in 1..n PROVE Shows(stack[low + j], Here(m)[j])
  <2>1. Len(scopes) \in 1..Len(scopes)
    BY <1>1
  <2>2. j \in 1..Len(m.scopes[Len(scopes)])
    BY <1>1, <1>2
  <2>. QED
    BY <1>1, <1>2, <2>1, <2>2 DEF Stacked
<1>. HIDE DEF ps, more, low, n
<1>7. ASSUME NEW j \in 1..n + 1 PROVE Shows(more[low + j], ps[j])
  <2>1. CASE j = n + 1
    <3>1. low + j = Len(stack) + 1
      BY <1>1, <2>1, SMTT(30)
    <3>. QED
      BY <1>3, <1>4, <2>1, <3>1
  <2>2. CASE j # n + 1
    <3>1. j \in 1..n /\ low + j \in 1..Len(stack)
      BY <1>1, <2>2, SMTT(30)
    <3>. QED
      BY <1>3, <1>4, <1>6, <3>1
  <2>. QED
    BY <2>1, <2>2
<1>8. TopPictures(more, stack, low, ps)
  <2>1. Len(more) = low + Len(ps)
    BY <1>1, <1>3, <1>4, SMTT(30)
  <2>2. \A k \in 1..low : more[k] = stack[k]
    BY <1>1, <1>4, SMTT(30)
  <2>. QED
    BY <1>3, <1>4, <1>7, <2>1, <2>2 DEF TopPictures
<1>9. Stacked(more, scopes, Puts(m, ps, next)) /\ AllPictures(more)
  BY <1>5, <1>8, StackedPuts DEF low
<1>10. IsMachine(Puts(m, ps, next), inputs)
  BY <1>5, PutsIs
<1>. QED
  BY <1>9, <1>10 DEF ps, more

(* The pictures of the innermost parenthesis, off the stack.               *)
At(stack, scopes, m, inputs) == IsMachine(m, inputs) /\ Stacked(stack, scopes, m) /\ AllPictures(stack)
Inside(stack, scopes) == SubSeq(stack, Last(scopes) + 1, Len(stack))

(* The top of the stack, above the mark of the last scope, is the          *)
(* parenthesis the machine is in.                                          *)
LEMMA AtIs ==
  ASSUME NEW stack, NEW scopes, NEW m, NEW inputs, At(stack, scopes, m, inputs)
  PROVE  /\ Len(stack) \in Nat /\ IsSeq(stack) /\ Last(scopes) \in Nat /\ Len(Here(m)) \in Nat
         /\ Len(stack) = Last(scopes) + Len(Here(m))
         /\ IsSeq(Here(m)) /\ Pictured(Here(m))
         /\ \A j \in 1..Len(Here(m)) : Shows(stack[Last(scopes) + j], Here(m)[j])
<1>1. /\ Len(stack) \in Nat /\ Len(scopes) \in Nat \ {0} /\ Len(m.scopes) = Len(scopes)
      /\ Last(scopes) = scopes[Len(scopes)] /\ Last(scopes) \in Nat /\ Len(Here(m)) \in Nat
      /\ Len(stack) = Last(scopes) + Len(Here(m))
  BY StackedIs DEF At
<1>2. IsSeq(Here(m)) /\ Pictured(Here(m)) /\ Here(m) = m.scopes[Len(m.scopes)] /\ IsSeq(stack)
  BY IsHere DEF At, Stacked
<1>3. Len(scopes) \in 1..Len(scopes)
  BY <1>1
<1>4. ASSUME NEW j \in 1..Len(Here(m)) PROVE Shows(stack[Last(scopes) + j], Here(m)[j])
  <2>1. j \in 1..Len(m.scopes[Len(scopes)])
    BY <1>1, <1>2
  <2>. QED
    BY <1>1, <1>2, <1>3, <2>1 DEF At, Stacked
<1>. QED
  BY <1>1, <1>2, <1>4

(* What inScope() cuts off the stack is that parenthesis, picture by       *)
(* picture.                                                                *)
LEMMA InsideIs ==
  ASSUME NEW stack, NEW scopes, NEW m, NEW inputs, At(stack, scopes, m, inputs), Here(m) # None
  PROVE  /\ Inside(stack, scopes) # None /\ Len(Inside(stack, scopes)) = Len(Here(m))
         /\ \A j \in 1..Len(Here(m)) : Shows(Inside(stack, scopes)[j], Here(m)[j])
         /\ stack # None /\ Shows(Last(stack), Last(Here(m)))
<1>. DEFINE n == Len(Here(m))
            low == Last(scopes)
            N == Len(stack)
            c == Inside(stack, scopes)
<1>1. /\ N \in Nat /\ IsSeq(stack) /\ low \in Nat /\ n \in Nat \ {0} /\ N = low + n
      /\ \A j \in 1..n : Shows(stack[low + j], Here(m)[j])
  BY AtIs, SeqShape
<1>2. /\ IsSeq(c) /\ Len(c) = (IF low + 1 <= N THEN N - (low + 1) + 1 ELSE 0)
      /\ \A i \in 1..N - (low + 1) + 1 : c[i] = stack[(low + 1) + i - 1]
  <2>. DEFINE b == low + 1
  <2>1. b \in Nat \ {0} /\ N <= Len(stack) /\ N \in Nat /\ IsSeq(stack)
    BY <1>1
  <2>2. c = SubSeq(stack, b, N)
    BY DEF Inside
  <2>. HIDE DEF c, b, N
  <2>3. /\ IsSeq(c) /\ Len(c) = (IF b <= N THEN N - b + 1 ELSE 0)
        /\ \A i \in 1..N - b + 1 : c[i] = stack[b + i - 1]
    BY <2>1, <2>2, SeqSub
  <2>. QED
    BY <2>3 DEF b
<1>. HIDE DEF n, low, N, c
<1>3. N - (low + 1) + 1 = n /\ Len(c) = n
  BY <1>1, <1>2
<1>4. ASSUME NEW j \in 1..n PROVE Shows(c[j], Here(m)[j])
  <2>1. (low + 1) + j - 1 = low + j
    BY <1>1
  <2>. QED
    BY <1>1, <1>2, <1>3, <2>1
<1>5. c # None
  BY <1>1, <1>2, <1>3, SeqShape
<1>6. Shows(Last(stack), Last(Here(m))) /\ stack # None
  <2>1. n \in 1..n /\ low + n = N /\ N # 0
    BY <1>1
  <2>2. Last(stack) = stack[N] /\ Last(Here(m)) = Here(m)[n]
    BY DEF Last, N, n
  <2>3. stack # None
    BY <1>1, <2>1, SeqEmpty DEF N
  <2>. QED
    BY <1>1, <2>1, <2>2, <2>3
<1>. QED
  BY <1>3, <1>4, <1>5, <1>6 DEF n, c

(* The picture on top changed.                                             *)
LEMMA StackedChange ==
  ASSUME NEW stack, NEW scopes, NEW m, NEW inputs, At(stack, scopes, m, inputs), Here(m) # None,
         NEW step, step.kind \in PlainKinds, NEW q \in ChangesOf(Last(stack), step)
  PROVE  At(SetTop(stack, q), scopes, Puts(m, SetTop(Here(m), Made(step, Last(Here(m)))), m.next), inputs)
<1>. DEFINE x == Made(step, Last(Here(m)))
            ps == SetTop(Here(m), x)
            after == SetTop(stack, q)
            n == Len(Here(m))
            low == Last(scopes)
            N == Len(stack)
<1>1. /\ N \in Nat \ {0} /\ IsSeq(stack) /\ low \in Nat /\ n \in Nat \ {0} /\ N = low + n
      /\ IsSeq(Here(m)) /\ Pictured(Here(m))
      /\ \A j \in 1..n : Shows(stack[low + j], Here(m)[j])
  <2>1. /\ N \in Nat /\ IsSeq(stack) /\ low \in Nat /\ n \in Nat /\ N = low + n
        /\ IsSeq(Here(m)) /\ Pictured(Here(m))
        /\ \A j \in 1..n : Shows(stack[low + j], Here(m)[j])
    BY AtIs
  <2>2. n # 0
    BY <2>1, SeqShape
  <2>. HIDE DEF N, n, low
  <2>3. N # 0
    BY <2>1, <2>2
  <2>. QED
    BY <2>1, <2>2, <2>3
<1>2. Shows(q, x)
  <2>1. Shows(Last(stack), Last(Here(m)))
    BY InsideIs
  <2>. QED
    BY <2>1, ChangeShows
<1>3. x # None
  BY <1>2 DEF Shows
<1>. HIDE DEF x
<1>4. /\ IsSeq(ps) /\ Len(ps) = n /\ (\A i \in 1..n - 1 : ps[i] = Here(m)[i]) /\ ps[n] = x
  <2>1. n >= 1
    BY <1>1
  <2>. QED
    BY <1>1, <2>1, SeqTop
<1>5. /\ IsSeq(after) /\ Len(after) = N /\ (\A i \in 1..N - 1 : after[i] = stack[i]) /\ after[N] = q
  <2>1. N >= 1
    BY <1>1
  <2>. QED
    BY <1>1, <2>1, SeqTop, SMTT(30)
<1>6. Pictured(ps)
  BY <1>1, <1>3, PicturedTop
<1>. HIDE DEF ps, after, n, low, N
<1>7. TopPictures(after, stack, low, ps)
  <2>1. Len(after) = low + Len(ps)
    BY <1>1, <1>4, <1>5
  <2>2. \A k \in 1..low : after[k] = stack[k]
    <3>1. \A k \in 1..low : k \in 1..N - 1
      BY <1>1
    <3>. QED
      BY <1>5, <3>1
  <2>3. ASSUME NEW j \in 1..n PROVE Shows(after[low + j], ps[j])
    <3>1. CASE j = n
      BY <1>1, <1>2, <1>4, <1>5, <3>1
    <3>2. CASE j # n
      <4>1. j \in 1..n - 1 /\ low + j \in 1..N - 1
        BY <1>1, <3>2
      <4>. QED
        BY <1>1, <1>4, <1>5, <4>1
    <3>. QED
      BY <3>1, <3>2
  <2>. QED
    BY <1>4, <1>5, <2>1, <2>2, <2>3 DEF TopPictures
<1>8. IsMachine(m, inputs) /\ Stacked(stack, scopes, m) /\ AllPictures(stack) /\ m.next \in 1..Len(inputs) + 1
  BY DEF At, IsMachine
<1>9. IsMachine(Puts(m, ps, m.next), inputs)
  BY <1>6, <1>8, PutsIs
<1>10. Stacked(after, scopes, Puts(m, ps, m.next)) /\ AllPictures(after)
  BY <1>6, <1>7, <1>8, StackedPuts DEF low
<1>. QED
  BY <1>9, <1>10 DEF At, after, ps, x
-----------------------------------------------------------------------------
(* The pictures of a parenthesis made one.                                 *)
LEMMA StackedMerge ==
  ASSUME NEW stack, NEW scopes, NEW m, NEW inputs, At(stack, scopes, m, inputs), Len(Here(m)) \in 2..4, NEW options
  PROVE  At(Append(SubSeq(stack, 1, Last(scopes)), Joined(Inside(stack, scopes), options)), scopes,
            Puts(m, <<MeantMerge(Here(m), FALSE, options)>>, m.next), inputs)
<1>. DEFINE x == MeantMerge(Here(m), FALSE, options)
            ps == <<x>>
            p == Joined(Inside(stack, scopes), options)
            low == Last(scopes)
            under == SubSeq(stack, 1, low)
            after == Append(under, p)
<1>1. /\ Len(stack) \in Nat /\ IsSeq(stack) /\ low \in Nat /\ Len(Here(m)) \in Nat
      /\ Len(stack) = low + Len(Here(m)) /\ IsSeq(Here(m))
  BY AtIs
<1>2. Here(m) # None
  <2>. HIDE DEF x, ps, p, low, under, after
  <2>1. Len(Here(m)) # 0 /\ (Here(m) = None <=> Len(Here(m)) = 0)
    BY <1>1, SeqShape
  <2>. QED
    BY <2>1
<1>3. /\ Len(Inside(stack, scopes)) = Len(Here(m))
      /\ \A j \in 1..Len(Here(m)) : Shows(Inside(stack, scopes)[j], Here(m)[j])
  BY <1>2, InsideIs
<1>4. Shows(p, x)
  <2>. DEFINE hs == Here(m)
              c == Inside(stack, scopes)
  <2>1. Len(c) = Len(hs) /\ Len(hs) \in 2..4 /\ \A j \in 1..Len(hs) : Shows(c[j], hs[j])
    BY <1>3
  <2>. HIDE DEF hs, c
  <2>2. Shows(Joined(c, options), MeantMerge(hs, FALSE, options))
    BY <2>1, JoinedShows
  <2>. QED
    BY <2>2 DEF hs, c
<1>5. x # None
  BY MergeIs
<1>. HIDE DEF x, p
<1>6. Pictured(ps)
  BY <1>5, PicturedOne
<1>7. IsSeq(ps) /\ Len(ps) = 1 /\ ps[1] = x
  BY SeqOne
<1>8. IsSeq(under) /\ Len(under) = low /\ \A i \in 1..low : under[i] = stack[i]
  <2>. DEFINE b == 1
  <2>1. b \in Nat \ {0} /\ low \in Nat /\ low <= Len(stack)
    BY <1>1
  <2>. HIDE DEF b, low
  <2>2. /\ IsSeq(SubSeq(stack, b, low)) /\ Len(SubSeq(stack, b, low)) = (IF b <= low THEN low - b + 1 ELSE 0)
        /\ \A i \in 1..low - b + 1 : SubSeq(stack, b, low)[i] = stack[b + i - 1]
    BY <1>1, <2>1, SeqSub
  <2>3. under = SubSeq(stack, b, low)
    BY DEF b
  <2>. HIDE DEF under
  <2>4. Len(under) = low
    BY <2>1, <2>2, <2>3 DEF b
  <2>5. ASSUME NEW i \in 1..low PROVE under[i] = stack[i]
    <3>1. i \in 1..low - b + 1 /\ b + i - 1 = i
      BY <2>1 DEF b
    <3>. QED
      BY <2>2, <2>3, <3>1
  <2>. QED
    BY <2>2, <2>3, <2>4, <2>5
<1>. HIDE DEF under
<1>9. IsSeq(after) /\ Len(after) = low + 1 /\ (\A i \in 1..low : after[i] = under[i]) /\ after[low + 1] = p
  <2>1. /\ IsSeq(after) /\ Len(after) = Len(under) + 1 /\ (\A i \in 1..Len(under) : after[i] = under[i])
        /\ after[Len(under) + 1] = p
    BY <1>8, SeqAppend
  <2>. HIDE DEF after
  <2>. QED
    BY <1>8, <2>1
<1>. HIDE DEF after, ps, low
<1>10. TopPictures(after, stack, low, ps)
  <2>1. Len(after) = low + Len(ps)
    BY <1>7, <1>9
  <2>2. \A k \in 1..low : after[k] = stack[k]
    BY <1>8, <1>9
  <2>3. ASSUME NEW j \in 1..Len(ps) PROVE Shows(after[low + j], ps[j])
    <3>1. j = 1
      BY <1>7
    <3>. QED
      BY <1>4, <1>7, <1>9, <3>1
  <2>. QED
    BY <1>9, <2>1, <2>2, <2>3 DEF TopPictures
<1>11. IsMachine(m, inputs) /\ Stacked(stack, scopes, m) /\ AllPictures(stack) /\ m.next \in 1..Len(inputs) + 1
  BY DEF At, IsMachine
<1>12. IsMachine(Puts(m, ps, m.next), inputs)
  BY <1>6, <1>11, PutsIs
<1>13. Stacked(after, scopes, Puts(m, ps, m.next)) /\ AllPictures(after)
  BY <1>6, <1>10, <1>11, StackedPuts DEF low
<1>. QED
  BY <1>12, <1>13 DEF At, after, ps, x, under, p, low

(* A parenthesis opened, over all the pictures there are.                  *)
LEMMA StackedOpen ==
  ASSUME NEW stack, NEW scopes, NEW m, NEW inputs, At(stack, scopes, m, inputs)
  PROVE  At(stack, Append(scopes, Len(stack)), Machine(Append(m.scopes, None), m.next), inputs)
<1>. DEFINE n == Machine(Append(m.scopes, None), m.next)
            L == Len(scopes)
            N == Len(stack)
            more == Append(scopes, N)
<1>1. IsMachine(m, inputs) /\ Stacked(stack, scopes, m) /\ AllPictures(stack)
  BY DEF At
<1>2. /\ N \in Nat /\ L \in Nat \ {0} /\ Len(m.scopes) = L /\ Last(scopes) = scopes[L] /\ Len(Here(m)) \in Nat
      /\ N = scopes[L] + Len(Here(m)) /\ Here(m) = m.scopes[L] /\ IsSeq(scopes) /\ IsSeq(stack)
      /\ \A i \in 1..L : Len(m.scopes[i]) \in Nat /\ scopes[i] + Len(m.scopes[i]) <= N /\ scopes[i] \in Nat
  BY <1>1, StackedIs, IsHere, ZenonT(60) DEF Stacked
<1>3. /\ IsMachine(n, inputs) /\ Here(n) = None /\ Len(n.scopes) = L + 1
      /\ \A i \in 1..L : n.scopes[i] = m.scopes[i]
  BY <1>1, <1>2, OpenIs
<1>4. IsSeq(more) /\ Len(more) = L + 1 /\ (\A i \in 1..L : more[i] = scopes[i]) /\ more[L + 1] = N
  BY <1>2, SeqAppend, SMTT(30)
<1>5. n.scopes[L + 1] = None
  <2>1. Len(n.scopes) = L + 1 /\ Here(n) = n.scopes[Len(n.scopes)]
    BY <1>3, IsHere
  <2>. QED
    BY <1>3, <2>1
<1>. HIDE DEF n, more, L, N
<1>6. \A i \in 1..L + 1 : i \in 1..L \/ i = L + 1
  BY <1>2
<1>7. \A i \in 1..Len(more) : more[i] \in Nat
  BY <1>2, <1>4, <1>6
<1>8. ASSUME NEW i \in 1..Len(more), NEW j \in 1..Len(more), i < j PROVE more[i] + Len(n.scopes[i]) <= more[j]
  <2>1. i \in 1..L
    BY <1>2, <1>4, <1>8
  <2>2. CASE j = L + 1
    BY <1>2, <1>3, <1>4, <2>1, <2>2
  <2>3. CASE j \in 1..L
    <3>1. scopes[i] + Len(m.scopes[i]) <= scopes[j]
      BY <1>1, <1>8, <2>1, <2>3 DEF Stacked, L
    <3>. QED
      BY <1>3, <1>4, <2>1, <2>3, <3>1
  <2>. QED
    BY <1>4, <1>6, <2>2, <2>3
<1>9. ASSUME NEW i \in 1..Len(more) - 1 PROVE more[i + 1] = more[i] + Len(n.scopes[i])
  <2>1. i \in 1..L
    BY <1>2, <1>4
  <2>2. CASE i = L
    BY <1>2, <1>3, <1>4, <2>1, <2>2
  <2>3. CASE i # L
    <3>1. i \in 1..L - 1 /\ i + 1 \in 1..L
      BY <1>2, <2>1, <2>3
    <3>2. scopes[i + 1] = scopes[i] + Len(m.scopes[i])
      BY <1>1, <3>1 DEF Stacked, L
    <3>. QED
      BY <1>3, <1>4, <2>1, <3>1, <3>2
  <2>. QED
    BY <2>2, <2>3
<1>10. N = Last(more) + Len(Here(n))
  <2>1. Last(more) = N
    BY <1>4 DEF Last
  <2>2. Len(Here(n)) = 0
    BY <1>3, SeqEmpty
  <2>. QED
    BY <1>2, <2>1, <2>2
<1>11. ASSUME NEW i \in 1..Len(more), NEW j \in 1..Len(n.scopes[i]) PROVE Shows(stack[more[i] + j], n.scopes[i][j])
  <2>1. CASE i = L + 1
    <3>1. Len(n.scopes[i]) = 0
      BY <1>5, <2>1, SeqEmpty
    <3>. QED
      BY <3>1
  <2>2. CASE i \in 1..L
    <3>1. n.scopes[i] = m.scopes[i] /\ more[i] = scopes[i]
      BY <1>3, <1>4, <2>2
    <3>2. Shows(stack[scopes[i] + j], m.scopes[i][j])
      BY <1>1, <2>2, <3>1 DEF Stacked, L
    <3>. QED
      BY <3>1, <3>2
  <2>. QED
    BY <1>4, <1>6, <2>1, <2>2
<1>12. Stacked(stack, more, n)
  <2>1. more[1] = 0
    <3>1. 1 \in 1..L
      BY <1>2, SMTT(30)
    <3>. QED
      BY <1>1, <1>4, <3>1 DEF Stacked
  <2>. QED
    BY <1>2, <1>3, <1>4, <1>7, <1>8, <1>9, <1>10, <1>11, <2>1 DEF Stacked, N
<1>. QED
  BY <1>1, <1>3, <1>12 DEF At, more, n, N

(* A parenthesis closed: its pictures are the one around's.                *)
LEMMA StackedClose ==
  ASSUME NEW stack, NEW scopes, NEW m, NEW inputs, At(stack, scopes, m, inputs), Len(m.scopes) > 1
  PROVE  At(stack, Front(scopes),
            Machine(SetTop(Front(m.scopes), Last(Front(m.scopes)) \o Here(m)), m.next), inputs)
<1>. DEFINE n == Machine(SetTop(Front(m.scopes), Last(Front(m.scopes)) \o Here(m)), m.next)
            L == Len(scopes)
            N == Len(stack)
            less == Front(scopes)
            outer == m.scopes[L - 1]
            inner == m.scopes[L]
            both == outer \o inner
<1>1. IsMachine(m, inputs) /\ Stacked(stack, scopes, m) /\ AllPictures(stack)
  BY DEF At
<1>2. /\ N \in Nat /\ L \in Nat \ {0} /\ Len(m.scopes) = L /\ L > 1 /\ Last(scopes) = scopes[L]
      /\ N = scopes[L] + Len(Here(m)) /\ Here(m) = inner /\ IsSeq(scopes) /\ IsSeq(stack)
      /\ \A i \in 1..L : Len(m.scopes[i]) \in Nat /\ scopes[i] \in Nat
  BY <1>1, StackedIs, IsHere, ZenonT(60) DEF Stacked
<1>3. /\ IsMachine(n, inputs) /\ Len(n.scopes) = L - 1
      /\ \A i \in 1..L - 2 : n.scopes[i] = m.scopes[i]
      /\ n.scopes[L - 1] = both /\ Here(n) = n.scopes[L - 1]
  <2>1. n = Machine(SetTop(Front(m.scopes), Last(Front(m.scopes)) \o Here(m)), m.next) /\ Len(m.scopes) > 1
    OBVIOUS
  <2>. HIDE DEF n
  <2>2. /\ IsMachine(n, inputs) /\ Len(n.scopes) = Len(m.scopes) - 1
        /\ \A i \in 1..Len(m.scopes) - 2 : n.scopes[i] = m.scopes[i]
        /\ n.scopes[Len(m.scopes) - 1] = m.scopes[Len(m.scopes) - 1] \o m.scopes[Len(m.scopes)]
        /\ Here(n) = n.scopes[Len(m.scopes) - 1]
    BY <1>1, <2>1, CloseIs, ZenonT(60)
  <2>3. Len(m.scopes) = L
    BY <1>2
  <2>. QED
    BY <2>2, <2>3
<1>4. IsSeq(less) /\ Len(less) = L - 1 /\ \A i \in 1..L - 1 : less[i] = scopes[i]
  BY <1>2, SeqFront
<1>5. IsSeq(outer) /\ IsSeq(inner) /\ L - 1 \in 1..L /\ L \in 1..L
  <2>1. L - 1 \in 1..L /\ L \in 1..L
    BY <1>2
  <2>. QED
    BY <1>1, <1>2, <2>1 DEF IsMachine, Pictured
<1>6. Concats(both, outer, inner)
  BY <1>5, SeqConcats
<1>7. Len(outer) \in Nat /\ Len(inner) \in Nat
  BY <1>2, <1>5
<1>8. scopes[L] = scopes[L - 1] + Len(outer)
  <2>1. L - 1 \in 1..L - 1 /\ (L - 1) + 1 = L
    BY <1>2
  <2>2. scopes[(L - 1) + 1] = scopes[L - 1] + Len(m.scopes[L - 1])
    BY <1>1, <2>1 DEF Stacked
  <2>. QED
    BY <2>1, <2>2
<1>. HIDE DEF n, less, L, N, both, outer, inner
<1>9. Len(both) = Len(outer) + Len(inner) /\ Len(both) \in Nat
  BY <1>6, <1>7 DEF Concats
<1>10. \A i \in 1..L - 1 : i \in 1..L /\ (i \in 1..L - 2 \/ i = L - 1)
  BY <1>2
<1>11. \A i \in 1..Len(less) : less[i] \in Nat
  BY <1>2, <1>4, <1>10
<1>12. ASSUME NEW i \in 1..Len(less), NEW j \in 1..Len(less), i < j PROVE less[i] + Len(n.scopes[i]) <= less[j]
  <2>1. i \in 1..L - 2 /\ i \in 1..L /\ j \in 1..L /\ i \in 1..L - 1 /\ j \in 1..L - 1
    BY <1>2, <1>4, <1>12
  <2>2. scopes[i] + Len(m.scopes[i]) <= scopes[j]
    BY <1>1, <1>12, <2>1 DEF Stacked, L
  <2>. QED
    BY <1>3, <1>4, <2>1, <2>2
<1>13. ASSUME NEW i \in 1..Len(less) - 1 PROVE less[i + 1] = less[i] + Len(n.scopes[i])
  <2>1. i \in 1..L - 2 /\ i \in 1..L - 1 /\ i + 1 \in 1..L - 1
    BY <1>2, <1>4
  <2>2. scopes[i + 1] = scopes[i] + Len(m.scopes[i])
    BY <1>1, <2>1 DEF Stacked, L
  <2>. QED
    BY <1>3, <1>4, <2>1, <2>2
<1>14. N = Last(less) + Len(Here(n))
  <2>1. Last(less) = scopes[L - 1]
    <3>1. L - 1 \in 1..L - 1
      BY <1>2
    <3>. QED
      BY <1>4, <3>1 DEF Last
  <2>. QED
    BY <1>2, <1>3, <1>5, <1>7, <1>8, <1>9, <2>1
<1>15. ASSUME NEW i \in 1..Len(less), NEW j \in 1..Len(n.scopes[i]) PROVE Shows(stack[less[i] + j], n.scopes[i][j])
  <2>1. CASE i \in 1..L - 2
    <3>1. n.scopes[i] = m.scopes[i] /\ less[i] = scopes[i] /\ i \in 1..L
      BY <1>2, <1>3, <1>4, <2>1
    <3>2. Shows(stack[scopes[i] + j], m.scopes[i][j])
      BY <1>1, <3>1 DEF Stacked, L
    <3>. QED
      BY <3>1, <3>2
  <2>2. CASE i = L - 1
    <3>1. n.scopes[i] = both /\ less[i] = scopes[L - 1] /\ scopes[L - 1] \in Nat /\ j \in 1..Len(both) /\ j \in Nat
      BY <1>2, <1>3, <1>4, <1>5, <1>9, <2>2
    <3>2. CASE j <= Len(outer)
      <4>1. j \in 1..Len(outer)
        BY <1>7, <3>1, <3>2
      <4>2. Shows(stack[scopes[L - 1] + j], outer[j])
        BY <1>1, <1>5, <4>1 DEF Stacked, L, outer
      <4>3. both[j] = outer[j]
        BY <1>6, <4>1 DEF Concats
      <4>. QED
        BY <3>1, <4>2, <4>3
    <3>3. CASE ~(j <= Len(outer))
      <4>. DEFINE k == j - Len(outer)
      <4>1. k \in 1..Len(inner) /\ k \in Nat /\ Len(outer) + k = j
        BY <1>7, <1>9, <3>1, <3>3
      <4>. HIDE DEF k
      <4>2. Shows(stack[scopes[L] + k], inner[k])
        BY <1>1, <1>5, <4>1 DEF Stacked, L, inner
      <4>3. both[Len(outer) + k] = inner[k]
        BY <1>6, <4>1 DEF Concats
      <4>4. scopes[L] + k = scopes[L - 1] + j
        BY <1>7, <1>8, <3>1, <4>1
      <4>. QED
        BY <3>1, <4>1, <4>2, <4>3, <4>4
    <3>. QED
      BY <3>2, <3>3
  <2>. QED
    BY <1>4, <1>10, <2>1, <2>2
<1>16. Stacked(stack, less, n)
  <2>1. less[1] = 0
    <3>1. 1 \in 1..L - 1
      BY <1>2
    <3>. QED
      BY <1>1, <1>4, <3>1 DEF Stacked
  <2>. QED
    BY <1>2, <1>3, <1>4, <1>11, <1>12, <1>13, <1>14, <1>15, <2>1 DEF Stacked, N
<1>. QED
  BY <1>1, <1>3, <1>16 DEF At, less, n, both, outer, inner
-----------------------------------------------------------------------------
(* The pipeline's run, beside a machine that takes the same steps.  A      *)
(* query's one picture counts as decoded from the start.                   *)
IsRun(r) ==
  r \in [tokens : {r.tokens}, at : {r.at}, inputs : {r.inputs}, next : {r.next}, stack : {r.stack}, scopes : {r.scopes}]
LazyOf(r) ==
  IF r.stack = None /\ r.next = 1 /\ r.inputs # None
  THEN [stack |-> <<Native(Read(r.inputs[1], None))>>, next |-> 2]
  ELSE [stack |-> r.stack, next |-> r.next]
ViewOf(r, query) == IF query = None THEN [stack |-> r.stack, next |-> r.next] ELSE LazyOf(r)

Single(m) == IsSeq(m.scopes[1].pictures) /\ Len(m.scopes[1].pictures) = 1
Tracks(query, m, r, t) ==
  /\ \E m0 : Trace(t, r.tokens, m0, r.inputs)
  /\ r.at \in 1..Len(r.tokens) + 1
  /\ At(ViewOf(r, query).stack, r.scopes, t[r.at], r.inputs)
  /\ ViewOf(r, query).next = t[r.at].next
  /\ t[Len(r.tokens) + 1] = Machine(<<m.scopes[1].pictures>>, Len(r.inputs) + 1)
Queried(query, r) ==
  query # None =>
    /\ \A i \in 1..Len(r.tokens) : r.tokens[i].kind \in PlainKinds \cup {"encode"}
    /\ r.scopes = <<0>> /\ Len(r.inputs) = 1
    /\ r.stack = None <=> \A i \in 1..Len(r.tokens) : i < r.at => r.tokens[i].kind = "encode"
    /\ r.stack = None => r.next = 1
Underway(query, m, r) ==
  IsRun(r) /\ r.tokens # None /\ Single(m) /\ Queried(query, r) /\ \E t : Tracks(query, m, r, t)

(* The kind of a step says which step of the machine it is.                *)
LEMMA LegalOnly ==
  ASSUME NEW m, NEW step, NEW n, NEW inputs, Legal(m, step, n, inputs)
  PROVE  /\ step.kind \in {"source", "encode"} => n = m
         /\ step.kind = "decode" => Decodes(m, step, n, inputs)
         /\ step.kind = "generate" => Generates(m, step, n)
         /\ step.kind \in PlainKinds => Changes(m, step, n)
         /\ step.kind = "composite" => Merges(m, step, n)
         /\ step.kind = "open" => Opens(m, step, n)
         /\ step.kind = "close" => Closes(m, step, n)
BY DEF Legal, Rests, Decodes, Generates, Changes, Merges, Opens, Closes, PlainKinds

(* The next token can be taken from where runPipeline is.                  *)
LEMMA NextToken ==
  ASSUME NEW query, NEW m, NEW r, NEW t, Tracks(query, m, r, t), r.at <= Len(r.tokens)
  PROVE  /\ Legal(t[r.at], r.tokens[r.at], t[r.at + 1], r.inputs) /\ IsMachine(t[r.at], r.inputs)
         /\ IsMachine(t[r.at + 1], r.inputs) /\ IsSeq(r.inputs) /\ IsSeq(r.tokens) /\ Len(r.tokens) \in Nat
         /\ r.at \in 1..Len(r.tokens) /\ r.at + 1 \in 1..Len(r.tokens) + 1
<1>1. PICK m0 : Trace(t, r.tokens, m0, r.inputs)
  BY DEF Tracks
<1>2. IsSeq(r.inputs) /\ IsSeq(r.tokens) /\ Len(r.tokens) \in Nat
  BY <1>1, SeqShape DEF Trace
<1>3. r.at \in 1..Len(r.tokens) /\ r.at + 1 \in 1..Len(r.tokens) + 1 /\ r.at \in 1..Len(r.tokens) + 1
  BY <1>2 DEF Tracks
<1>. QED
  BY <1>1, <1>2, <1>3 DEF Trace

(* A run that is where the next machine of the trace is, is underway.      *)
LEMMA UnderwayOn ==
  ASSUME NEW query, NEW m, NEW r, NEW t, Tracks(query, m, r, t), r.at <= Len(r.tokens), Single(m),
         NEW q, IsRun(q), q.tokens = r.tokens, q.inputs = r.inputs, q.at = r.at + 1, Queried(query, q),
         At(ViewOf(q, query).stack, q.scopes, t[r.at + 1], r.inputs),
         ViewOf(q, query).next = t[r.at + 1].next
  PROVE  Underway(query, m, q)
<1>1. r.at \in 1..Len(r.tokens) /\ r.at + 1 \in 1..Len(r.tokens) + 1 /\ Len(r.tokens) \in Nat
  BY NextToken
<1>2. q.tokens # None
  BY <1>1, SeqEmpty
<1>3. Tracks(query, m, q, t)
  BY <1>1 DEF Tracks
<1>. QED
  BY <1>2, <1>3 DEF Underway

(* The record of a run that goes on to the next token.                     *)
LEMMA GoesTo ==
  ASSUME NEW r, IsRun(r), NEW at, NEW stack, NEW next
  PROVE  [r EXCEPT !.at = at, !.stack = stack, !.next = next]
           = [tokens |-> r.tokens, at |-> at, inputs |-> r.inputs, next |-> next, stack |-> stack, scopes |-> r.scopes]
<1>0. r = [tokens |-> r.tokens, at |-> r.at, inputs |-> r.inputs, next |-> r.next, stack |-> r.stack, scopes |-> r.scopes]
  BY DEF IsRun
<1>. DEFINE a == [r EXCEPT !.at = at]
            b == [a EXCEPT !.stack = stack]
<1>1. a = [tokens |-> r.tokens, at |-> at, inputs |-> r.inputs, next |-> r.next, stack |-> r.stack, scopes |-> r.scopes]
  BY <1>0
<1>. HIDE DEF a
<1>2. b = [tokens |-> r.tokens, at |-> at, inputs |-> r.inputs, next |-> r.next, stack |-> stack, scopes |-> r.scopes]
  BY <1>1
<1>. HIDE DEF b
<1>3. [b EXCEPT !.next = next]
        = [tokens |-> r.tokens, at |-> at, inputs |-> r.inputs, next |-> next, stack |-> stack, scopes |-> r.scopes]
  BY <1>2
<1>. QED
  BY <1>3 DEF a, b

(* The record of a run that opens or closes a scope.                       *)
LEMMA ScopesTo ==
  ASSUME NEW r, IsRun(r), NEW at, NEW scopes
  PROVE  [r EXCEPT !.at = at, !.scopes = scopes]
           = [tokens |-> r.tokens, at |-> at, inputs |-> r.inputs, next |-> r.next, stack |-> r.stack, scopes |-> scopes]
<1>0. r = [tokens |-> r.tokens, at |-> r.at, inputs |-> r.inputs, next |-> r.next, stack |-> r.stack, scopes |-> r.scopes]
  BY DEF IsRun
<1>. DEFINE a == [r EXCEPT !.at = at]
<1>1. a = [tokens |-> r.tokens, at |-> at, inputs |-> r.inputs, next |-> r.next, stack |-> r.stack, scopes |-> r.scopes]
  BY <1>0
<1>. HIDE DEF a
<1>2. [a EXCEPT !.scopes = scopes]
        = [tokens |-> r.tokens, at |-> at, inputs |-> r.inputs, next |-> r.next, stack |-> r.stack, scopes |-> scopes]
  BY <1>1
<1>. QED
  BY <1>2 DEF a

(* What a run that is underway has before it.                              *)
LEMMA UnderwayIs ==
  ASSUME NEW query, NEW m, NEW r, Underway(query, m, r), r.at <= Len(r.tokens)
  PROVE  /\ IsRun(r) /\ r.tokens # None /\ Single(m) /\ Queried(query, r)
         /\ r.at \in 1..Len(r.tokens) /\ Len(r.tokens) \in Nat
         /\ \E t : /\ Tracks(query, m, r, t) /\ Legal(t[r.at], r.tokens[r.at], t[r.at + 1], r.inputs)
                   /\ At(ViewOf(r, query).stack, r.scopes, t[r.at], r.inputs)
                   /\ ViewOf(r, query).next = t[r.at].next
BY NextToken DEF Underway, Tracks

(* source and encode pass by.                                              *)
LEMMA UnderwayRests ==
  ASSUME NEW query, NEW m, NEW r, Underway(query, m, r), r.at <= Len(r.tokens),
         r.tokens[r.at].kind \in {"source", "encode"},
         NEW q, q = [r EXCEPT !.at = @ + 1, !.stack = r.stack, !.next = r.next]
  PROVE  Underway(query, m, q)
<1>. DEFINE k == r.at
<1>1. PICK t : /\ Tracks(query, m, r, t) /\ Legal(t[r.at], r.tokens[r.at], t[r.at + 1], r.inputs)
               /\ At(ViewOf(r, query).stack, r.scopes, t[r.at], r.inputs)
               /\ ViewOf(r, query).next = t[r.at].next
  BY UnderwayIs
<1>2. /\ IsRun(r) /\ r.tokens # None /\ Single(m) /\ Queried(query, r)
      /\ k \in 1..Len(r.tokens) /\ Len(r.tokens) \in Nat
  BY UnderwayIs
<1>3. t[k + 1] = t[k]
  BY <1>1, LegalOnly
<1>4. q = [tokens |-> r.tokens, at |-> k + 1, inputs |-> r.inputs, next |-> r.next, stack |-> r.stack, scopes |-> r.scopes]
  BY <1>2, GoesTo, ZenonT(60)
<1>5. /\ IsRun(q) /\ q.tokens = r.tokens /\ q.at = k + 1 /\ q.inputs = r.inputs /\ q.next = r.next /\ q.stack = r.stack
      /\ q.scopes = r.scopes
  BY <1>4 DEF IsRun
<1>6. ViewOf(q, query) = ViewOf(r, query)
  BY <1>5 DEF ViewOf, LazyOf
<1>. HIDE DEF k
<1>7. Queried(query, q)
  <2>. SUFFICES ASSUME query # None PROVE Queried(query, q)
    BY DEF Queried
  <2>1. /\ \A i \in 1..Len(r.tokens) : r.tokens[i].kind \in PlainKinds \cup {"encode"}
        /\ r.scopes = <<0>> /\ Len(r.inputs) = 1
        /\ r.stack = None <=> \A i \in 1..Len(r.tokens) : i < k => r.tokens[i].kind = "encode"
        /\ r.stack = None => r.next = 1
    BY <1>2 DEF Queried, k
  <2>2. r.tokens[k].kind = "encode"
    BY <1>2, <2>1 DEF PlainKinds, k
  <2>3. \A i \in 1..Len(r.tokens) : i < k + 1 <=> (i < k \/ i = k)
    BY <1>2
  <2>4. (\A i \in 1..Len(r.tokens) : i < k => r.tokens[i].kind = "encode")
          <=> (\A i \in 1..Len(r.tokens) : i < k + 1 => r.tokens[i].kind = "encode")
    BY <1>2, <2>2, <2>3
  <2>. QED
    BY <1>5, <2>1, <2>4 DEF Queried
<1>8. At(ViewOf(q, query).stack, q.scopes, t[k + 1], r.inputs) /\ ViewOf(q, query).next = t[k + 1].next
  BY <1>1, <1>3, <1>5, <1>6 DEF k
<1>. QED
  BY <1>1, <1>2, <1>5, <1>7, <1>8, UnderwayOn, ZenonT(60) DEF k

(* The steps of a line alone.                                              *)
LEMMA OfALine ==
  ASSUME NEW query, NEW r, Queried(query, r), r.at \in 1..Len(r.tokens),
         r.tokens[r.at].kind \in {"decode", "generate", "composite", "open", "close"}
  PROVE  query = None /\ ViewOf(r, query).stack = r.stack /\ ViewOf(r, query).next = r.next
BY DEF Queried, ViewOf, PlainKinds

(* decode finds its input and puts its picture on the stack.               *)
LEMMA UnderwayDecodes ==
  ASSUME NEW query, NEW m, NEW r, Underway(query, m, r), r.at <= Len(r.tokens),
         r.tokens[r.at].kind = "decode"
  PROVE  /\ ~(r.next > Len(r.inputs))
         /\ \A q : q = [r EXCEPT !.at = @ + 1,
                                 !.stack = Append(r.stack, Native(Read(r.inputs[r.next], r.tokens[r.at].options))),
                                 !.next = r.next + 1]
              => Underway(query, m, q)
<1>. DEFINE k == r.at
            x == Read(r.inputs[r.next], r.tokens[k].options)
            p == Native(x)
<1>1. PICK t : /\ Tracks(query, m, r, t) /\ Legal(t[k], r.tokens[k], t[k + 1], r.inputs)
               /\ At(ViewOf(r, query).stack, r.scopes, t[k], r.inputs)
               /\ ViewOf(r, query).next = t[k].next
  BY UnderwayIs
<1>2. /\ IsRun(r) /\ r.tokens # None /\ Single(m) /\ Queried(query, r)
      /\ k \in 1..Len(r.tokens) /\ Len(r.tokens) \in Nat
  BY UnderwayIs
<1>3. query = None /\ ViewOf(r, query).stack = r.stack /\ ViewOf(r, query).next = r.next
  BY <1>2, OfALine
<1>4. Decodes(t[k], r.tokens[k], t[k + 1], r.inputs)
  BY <1>1, LegalOnly
<1>5. r.next <= Len(r.inputs) /\ r.next \in Nat /\ Len(r.inputs) \in Nat /\ r.next + 1 \in 1..Len(r.inputs) + 1
  <2>1. IsSeq(r.inputs) /\ IsMachine(t[k], r.inputs)
    BY <1>1, NextToken, SMTT(30)
  <2>2. Len(r.inputs) \in Nat /\ r.next \in 1..Len(r.inputs) + 1 /\ r.next <= Len(r.inputs)
    BY <1>1, <1>3, <1>4, <2>1, SeqShape DEF IsMachine, Decodes
  <2>. QED
    BY <2>2, SMTT(30)
<1>6. t[k + 1] = Puts(t[k], Append(Here(t[k]), x), r.next + 1)
  BY <1>1, <1>3, <1>4 DEF Decodes
<1>7. Shows(p, x) /\ x # None
  BY PicturesAre, NativeShows
<1>. HIDE DEF x, p, k
<1>8. At(Append(r.stack, p), r.scopes, t[k + 1], r.inputs)
  BY <1>1, <1>3, <1>5, <1>6, <1>7, StackedMore DEF At
<1>9. t[k + 1].next = r.next + 1
  BY <1>6 DEF Puts, Machine
<1>10. ASSUME NEW q, q = [r EXCEPT !.at = @ + 1, !.stack = Append(r.stack, p), !.next = r.next + 1]
       PROVE  Underway(query, m, q)
  <2>1. q = [tokens |-> r.tokens, at |-> k + 1, inputs |-> r.inputs, next |-> r.next + 1,
             stack |-> Append(r.stack, p), scopes |-> r.scopes]
    BY <1>2, <1>10, GoesTo, ZenonT(60) DEF k
  <2>2. /\ IsRun(q) /\ q.tokens = r.tokens /\ q.at = k + 1 /\ q.inputs = r.inputs /\ q.next = r.next + 1
        /\ q.stack = Append(r.stack, p) /\ q.scopes = r.scopes
    BY <2>1 DEF IsRun
  <2>3. Queried(query, q)
    BY <1>3 DEF Queried
  <2>4. ViewOf(q, query).stack = q.stack /\ ViewOf(q, query).next = q.next
    BY <1>3 DEF ViewOf
  <2>5. At(ViewOf(q, query).stack, q.scopes, t[k + 1], r.inputs) /\ ViewOf(q, query).next = t[k + 1].next
    BY <1>8, <1>9, <2>2, <2>4
  <2>. QED
    BY <1>1, <1>2, <2>2, <2>3, <2>5, UnderwayOn DEF k
<1>11. ~(r.next > Len(r.inputs))
  BY <1>5
<1>. QED
  BY <1>10, <1>11 DEF x, p, k

(* The size a painted picture takes.                                       *)
LEMMA SizeIs ==
  ASSUME NEW stack, NEW scopes, NEW m, NEW inputs, At(stack, scopes, m, inputs), NEW brush, NEW options
  PROVE  MeantSize(brush, options, Here(m))
           = IF "size" \notin Names(options) /\ SizeFallsBack(brush) /\ Len(stack) > Last(scopes)
             THEN Pixels(Last(stack)) ELSE None
<1>1. /\ Len(stack) \in Nat /\ Last(scopes) \in Nat /\ Len(Here(m)) \in Nat /\ IsSeq(Here(m))
      /\ Len(stack) = Last(scopes) + Len(Here(m))
  BY AtIs
<1>2. CASE Here(m) = None
  <2>1. Len(Here(m)) = 0
    BY <1>1, <1>2, SeqShape
  <2>2. ~(Len(stack) > Last(scopes))
    BY <1>1, <2>1
  <2>. QED
    BY <1>2, <2>2 DEF MeantSize
<1>3. CASE Here(m) # None
  <2>1. Len(Here(m)) # 0
    BY <1>1, <1>3, SeqShape
  <2>2. Len(stack) > Last(scopes)
    BY <1>1, <2>1
  <2>3. Pixels(Last(stack)) = Last(Here(m))
    BY <1>3, InsideIs DEF Shows
  <2>. QED
    BY <1>3, <2>2, <2>3 DEF MeantSize
<1>. QED
  BY <1>2, <1>3

(* generate paints in the size that the words mean.                        *)
LEMMA UnderwayGenerates ==
  ASSUME NEW query, NEW m, NEW r, Underway(query, m, r), r.at <= Len(r.tokens),
         r.tokens[r.at].kind = "generate",
         NEW size, size = (IF /\ "size" \notin Names(r.tokens[r.at].options)
                              /\ SizeFallsBack(r.tokens[r.at].brush)
                              /\ Len(r.stack) > Last(r.scopes)
                           THEN Pixels(Last(r.stack)) ELSE None)
  PROVE  \A q : q = [r EXCEPT !.at = @ + 1,
                              !.stack = Append(r.stack, Native(Paint(r.tokens[r.at].brush, r.tokens[r.at].options, size))),
                              !.next = r.next]
           => Underway(query, m, q)
<1>. DEFINE k == r.at
            x == Paint(r.tokens[k].brush, r.tokens[k].options, size)
            p == Native(x)
<1>1. PICK t : /\ Tracks(query, m, r, t) /\ Legal(t[k], r.tokens[k], t[k + 1], r.inputs)
               /\ At(ViewOf(r, query).stack, r.scopes, t[k], r.inputs)
               /\ ViewOf(r, query).next = t[k].next
  BY UnderwayIs
<1>2. /\ IsRun(r) /\ r.tokens # None /\ Single(m) /\ Queried(query, r)
      /\ k \in 1..Len(r.tokens) /\ Len(r.tokens) \in Nat
  BY UnderwayIs
<1>3. query = None /\ ViewOf(r, query).stack = r.stack /\ ViewOf(r, query).next = r.next
  BY <1>2, OfALine
<1>4. Generates(t[k], r.tokens[k], t[k + 1])
  BY <1>1, LegalOnly
<1>5. size = MeantSize(r.tokens[k].brush, r.tokens[k].options, Here(t[k]))
  BY <1>1, <1>3, SizeIs, SMTT(30)
<1>6. t[k + 1] = Puts(t[k], Append(Here(t[k]), x), r.next)
  BY <1>1, <1>3, <1>4, <1>5 DEF Generates
<1>7. Shows(p, x) /\ x # None
  BY PicturesAre, NativeShows
<1>. HIDE DEF x, p, k
<1>8. At(Append(r.stack, p), r.scopes, t[k + 1], r.inputs)
  <2>1. r.next \in 1..Len(r.inputs) + 1
    BY <1>1, <1>3 DEF At, IsMachine
  <2>. QED
    BY <1>1, <1>3, <1>6, <1>7, <2>1, StackedMore DEF At
<1>9. t[k + 1].next = r.next
  BY <1>6 DEF Puts, Machine
<1>10. ASSUME NEW q, q = [r EXCEPT !.at = @ + 1, !.stack = Append(r.stack, p), !.next = r.next]
       PROVE  Underway(query, m, q)
  <2>1. q = [tokens |-> r.tokens, at |-> k + 1, inputs |-> r.inputs, next |-> r.next,
             stack |-> Append(r.stack, p), scopes |-> r.scopes]
    BY <1>2, <1>10, GoesTo, ZenonT(60) DEF k
  <2>2. /\ IsRun(q) /\ q.tokens = r.tokens /\ q.at = k + 1 /\ q.inputs = r.inputs /\ q.next = r.next
        /\ q.stack = Append(r.stack, p) /\ q.scopes = r.scopes
    BY <2>1 DEF IsRun
  <2>3. Queried(query, q)
    BY <1>3 DEF Queried
  <2>4. ViewOf(q, query).stack = q.stack /\ ViewOf(q, query).next = q.next
    BY <1>3 DEF ViewOf
  <2>5. At(ViewOf(q, query).stack, q.scopes, t[k + 1], r.inputs) /\ ViewOf(q, query).next = t[k + 1].next
    BY <1>8, <1>9, <2>2, <2>4
  <2>. QED
    BY <1>1, <1>2, <2>2, <2>3, <2>5, UnderwayOn DEF k
<1>. QED
  BY <1>10 DEF x, p, k

(* A stack with a picture in view is what the transform sees.              *)
LEMMA ViewIsLazy ==
  ASSUME NEW query, NEW r, ViewOf(r, query).stack # None
  PROVE  LazyOf(r).stack = ViewOf(r, query).stack /\ LazyOf(r).next = ViewOf(r, query).next
BY SMTT(30) DEF ViewOf, LazyOf

(* A transform finds a picture to change, and changes it as is meant.      *)
LEMMA UnderwayChanges ==
  ASSUME NEW query, NEW m, NEW r, Underway(query, m, r), r.at <= Len(r.tokens),
         r.tokens[r.at].kind \in PlainKinds
  PROVE  /\ Inside(LazyOf(r).stack, r.scopes) # None
         /\ \A p \in ChangesOf(Last(LazyOf(r).stack), r.tokens[r.at]) : \A q :
              q = [r EXCEPT !.at = @ + 1, !.stack = SetTop(LazyOf(r).stack, p), !.next = LazyOf(r).next]
                => Underway(query, m, q)
<1>. DEFINE k == r.at
            stack == LazyOf(r).stack
            next == LazyOf(r).next
<1>1. PICK t : /\ Tracks(query, m, r, t) /\ Legal(t[k], r.tokens[k], t[k + 1], r.inputs)
               /\ At(ViewOf(r, query).stack, r.scopes, t[k], r.inputs)
               /\ ViewOf(r, query).next = t[k].next
  BY UnderwayIs
<1>2. /\ IsRun(r) /\ r.tokens # None /\ Single(m) /\ Queried(query, r)
      /\ k \in 1..Len(r.tokens) /\ Len(r.tokens) \in Nat
  BY UnderwayIs
<1>3. Changes(t[k], r.tokens[k], t[k + 1])
  BY <1>1, LegalOnly
<1>4. Here(t[k]) # None
  BY <1>3 DEF Changes
<1>5. ViewOf(r, query).stack # None
  BY <1>1, <1>4, InsideIs
<1>6. stack = ViewOf(r, query).stack /\ next = ViewOf(r, query).next
  BY <1>5, ViewIsLazy
<1>7. At(stack, r.scopes, t[k], r.inputs) /\ next = t[k].next
  BY <1>1, <1>6
<1>. HIDE DEF stack, next, k
<1>8. Inside(stack, r.scopes) # None
  BY <1>4, <1>7, InsideIs
<1>9. ASSUME NEW p \in ChangesOf(Last(stack), r.tokens[k]), NEW q,
             q = [r EXCEPT !.at = @ + 1, !.stack = SetTop(stack, p), !.next = next]
      PROVE  Underway(query, m, q)
  <2>. DEFINE after == SetTop(stack, p)
  <2>1. At(after, r.scopes, t[k + 1], r.inputs) /\ t[k + 1].next = next
    <3>1. t[k + 1] = Puts(t[k], SetTop(Here(t[k]), Made(r.tokens[k], Last(Here(t[k])))), next)
      BY <1>3, <1>7 DEF Changes
    <3>2. r.tokens[k].kind \in PlainKinds
      BY DEF k
    <3>3. At(after, r.scopes, Puts(t[k], SetTop(Here(t[k]), Made(r.tokens[k], Last(Here(t[k])))), t[k].next), r.inputs)
      BY <1>4, <1>7, <3>2, StackedChange
    <3>4. t[k + 1].next = next
      BY <3>1 DEF Puts, Machine
    <3>. QED
      BY <1>7, <3>1, <3>3, <3>4
  <2>2. after # None
    <3>1. Len(after) \in Nat \ {0} /\ IsSeq(after)
      <4>1. IsSeq(stack) /\ Len(stack) \in Nat /\ stack # None
        BY <1>4, <1>7, AtIs, InsideIs
      <4>2. Len(stack) # 0
        BY <4>1, SeqShape
      <4>3. Len(stack) >= 1
        BY <4>1, <4>2
      <4>4. IsSeq(after) /\ Len(after) = Len(stack)
        BY <4>1, <4>3, SeqTop
      <4>. QED
        BY <4>1, <4>2, <4>4
    <3>. HIDE DEF after
    <3>. QED
      BY <3>1, SeqShape
  <2>3. q = [tokens |-> r.tokens, at |-> k + 1, inputs |-> r.inputs, next |-> next, stack |-> after, scopes |-> r.scopes]
    BY <1>2, <1>9, GoesTo DEF k
  <2>. HIDE DEF after
  <2>4. /\ IsRun(q) /\ q.tokens = r.tokens /\ q.at = k + 1 /\ q.inputs = r.inputs /\ q.next = next
        /\ q.stack = after /\ q.scopes = r.scopes
    BY <2>3 DEF IsRun
  <2>5. Queried(query, q)
    <3>. SUFFICES ASSUME query # None PROVE Queried(query, q)
      BY DEF Queried
    <3>1. r.tokens[k].kind # "encode" /\ k < k + 1
      BY <1>2 DEF PlainKinds, k
    <3>2. ~(\A i \in 1..Len(r.tokens) : i < k + 1 => r.tokens[i].kind = "encode")
      BY <1>2, <3>1
    <3>. QED
      BY <1>2, <2>2, <2>4, <3>2 DEF Queried
  <2>6. ViewOf(q, query).stack = after /\ ViewOf(q, query).next = next
    BY <2>2, <2>4 DEF ViewOf, LazyOf
  <2>7. At(ViewOf(q, query).stack, q.scopes, t[k + 1], r.inputs) /\ ViewOf(q, query).next = t[k + 1].next
    BY <2>1, <2>4, <2>6
  <2>. QED
    BY <1>1, <1>2, <2>4, <2>5, <2>7, UnderwayOn DEF k
<1>. QED
  BY <1>8, <1>9 DEF stack, next, k

(* composite finds two to four pictures in its scope, and merges them as   *)
(* is meant.                                                               *)
LEMMA UnderwayMerges ==
  ASSUME NEW query, NEW m, NEW r, Underway(query, m, r), r.at <= Len(r.tokens),
         r.tokens[r.at].kind = "composite",
         NEW here, here = Inside(LazyOf(r).stack, r.scopes)
  PROVE  /\ here # None /\ Len(here) \in 2..4
         /\ \A q :
              q = [r EXCEPT !.at = @ + 1,
                            !.stack = Append(SubSeq(LazyOf(r).stack, 1, Last(r.scopes)),
                                             Joined(here, r.tokens[r.at].options)),
                            !.next = LazyOf(r).next]
                => Underway(query, m, q)
<1>. DEFINE k == r.at
            stack == LazyOf(r).stack
            next == LazyOf(r).next
            options == r.tokens[k].options
            after == Append(SubSeq(stack, 1, Last(r.scopes)), Joined(Inside(stack, r.scopes), options))
<1>1. PICK t : /\ Tracks(query, m, r, t) /\ Legal(t[k], r.tokens[k], t[k + 1], r.inputs)
               /\ At(ViewOf(r, query).stack, r.scopes, t[k], r.inputs)
               /\ ViewOf(r, query).next = t[k].next
  BY UnderwayIs
<1>2. /\ IsRun(r) /\ r.tokens # None /\ Single(m) /\ Queried(query, r)
      /\ k \in 1..Len(r.tokens) /\ Len(r.tokens) \in Nat
  BY UnderwayIs
<1>3. query = None
  BY <1>2, OfALine
<1>4. Len(Here(t[k])) \in 2..4 /\ t[k + 1] = Puts(t[k], <<MeantMerge(Here(t[k]), FALSE, options)>>, t[k].next)
  BY <1>1, LegalOnly DEF Merges
<1>5. IsSeq(Here(t[k])) /\ Here(t[k]) # None
  <2>1. IsSeq(Here(t[k]))
    BY <1>1, AtIs
  <2>. DEFINE n == Len(Here(t[k]))
  <2>0. n \in 2..4
    BY <1>4
  <2>. HIDE DEF n
  <2>3. n # 0
    BY <2>0
  <2>2. Len(Here(t[k])) # 0
    BY <2>3 DEF n
  <2>. QED
    BY <2>1, <2>2, SeqShape
<1>6. ViewOf(r, query).stack # None
  BY <1>1, <1>5, InsideIs
<1>7. stack = ViewOf(r, query).stack /\ next = ViewOf(r, query).next
  BY <1>6, ViewIsLazy
<1>8. At(stack, r.scopes, t[k], r.inputs) /\ next = t[k].next
  BY <1>1, <1>7
<1>. HIDE DEF stack, next, k, options
<1>9. here # None /\ Len(here) \in 2..4
  <2>1. Inside(stack, r.scopes) # None /\ Len(Inside(stack, r.scopes)) = Len(Here(t[k]))
    BY <1>5, <1>8, InsideIs
  <2>. QED
    BY <1>4, <2>1 DEF stack
<1>10. At(after, r.scopes, t[k + 1], r.inputs) /\ t[k + 1].next = next
  <2>1. At(after, r.scopes, Puts(t[k], <<MeantMerge(Here(t[k]), FALSE, options)>>, t[k].next), r.inputs)
    BY <1>4, <1>8, StackedMerge
  <2>2. t[k + 1].next = next
    BY <1>4, <1>8 DEF Puts, Machine
  <2>. QED
    BY <1>4, <2>1, <2>2
<1>. HIDE DEF after
<1>11. ASSUME NEW q, q = [r EXCEPT !.at = @ + 1, !.stack = after, !.next = next]
       PROVE  Underway(query, m, q)
  <2>1. q = [tokens |-> r.tokens, at |-> k + 1, inputs |-> r.inputs, next |-> next, stack |-> after, scopes |-> r.scopes]
    BY <1>2, <1>11, GoesTo, ZenonT(60) DEF k
  <2>2. /\ IsRun(q) /\ q.tokens = r.tokens /\ q.at = k + 1 /\ q.inputs = r.inputs /\ q.next = next
        /\ q.stack = after /\ q.scopes = r.scopes
    BY <2>1 DEF IsRun
  <2>3. Queried(query, q)
    BY <1>3 DEF Queried
  <2>4. ViewOf(q, query).stack = q.stack /\ ViewOf(q, query).next = q.next
    BY <1>3 DEF ViewOf
  <2>5. At(ViewOf(q, query).stack, q.scopes, t[k + 1], r.inputs) /\ ViewOf(q, query).next = t[k + 1].next
    BY <1>10, <2>2, <2>4
  <2>. QED
    BY <1>1, <1>2, <2>2, <2>3, <2>5, UnderwayOn DEF k
<1>. QED
  BY <1>9, <1>11 DEF after, stack, next, options, k

(* open marks where the stack ends.                                        *)
LEMMA UnderwayOpens ==
  ASSUME NEW query, NEW m, NEW r, Underway(query, m, r), r.at <= Len(r.tokens),
         r.tokens[r.at].kind = "open"
  PROVE  \A q : q = [r EXCEPT !.at = @ + 1, !.scopes = Append(@, Len(r.stack))] => Underway(query, m, q)
<1>. DEFINE k == r.at
            scopes == Append(r.scopes, Len(r.stack))
<1>1. PICK t : /\ Tracks(query, m, r, t) /\ Legal(t[k], r.tokens[k], t[k + 1], r.inputs)
               /\ At(ViewOf(r, query).stack, r.scopes, t[k], r.inputs)
               /\ ViewOf(r, query).next = t[k].next
  BY UnderwayIs
<1>2. /\ IsRun(r) /\ r.tokens # None /\ Single(m) /\ Queried(query, r)
      /\ k \in 1..Len(r.tokens) /\ Len(r.tokens) \in Nat
  BY UnderwayIs
<1>3. query = None /\ ViewOf(r, query).stack = r.stack /\ ViewOf(r, query).next = r.next
  BY <1>2, OfALine
<1>4. t[k + 1] = Machine(Append(t[k].scopes, None), t[k].next)
  BY <1>1, LegalOnly DEF Opens
<1>. HIDE DEF k
<1>5. At(r.stack, scopes, t[k + 1], r.inputs) /\ t[k + 1].next = r.next
  <2>1. t[k + 1].next = r.next
    BY <1>1, <1>3, <1>4 DEF Machine
  <2>. QED
    BY <1>1, <1>3, <1>4, <2>1, StackedOpen
<1>. HIDE DEF scopes
<1>6. ASSUME NEW q, q = [r EXCEPT !.at = @ + 1, !.scopes = scopes]
       PROVE  Underway(query, m, q)
  <2>1. q = [tokens |-> r.tokens, at |-> k + 1, inputs |-> r.inputs, next |-> r.next, stack |-> r.stack, scopes |-> scopes]
    BY <1>2, <1>6, ScopesTo DEF k
  <2>2. /\ IsRun(q) /\ q.tokens = r.tokens /\ q.at = k + 1 /\ q.inputs = r.inputs /\ q.next = r.next
        /\ q.stack = r.stack /\ q.scopes = scopes
    BY <2>1 DEF IsRun
  <2>3. Queried(query, q)
    BY <1>3 DEF Queried
  <2>4. ViewOf(q, query).stack = q.stack /\ ViewOf(q, query).next = q.next
    BY <1>3 DEF ViewOf
  <2>5. At(ViewOf(q, query).stack, q.scopes, t[k + 1], r.inputs) /\ ViewOf(q, query).next = t[k + 1].next
    BY <1>5, <2>2, <2>4
  <2>. QED
    BY <1>1, <1>2, <2>2, <2>3, <2>5, UnderwayOn DEF k
<1>. QED
  BY <1>6 DEF scopes

(* close finds a scope to close, and leaves its pictures to the one        *)
(* before.                                                                 *)
LEMMA UnderwayCloses ==
  ASSUME NEW query, NEW m, NEW r, Underway(query, m, r), r.at <= Len(r.tokens),
         r.tokens[r.at].kind = "close"
  PROVE  /\ Len(r.scopes) # 1
         /\ \A q : q = [r EXCEPT !.at = @ + 1, !.scopes = Front(@)] => Underway(query, m, q)
<1>. DEFINE k == r.at
            scopes == Front(r.scopes)
<1>1. PICK t : /\ Tracks(query, m, r, t) /\ Legal(t[k], r.tokens[k], t[k + 1], r.inputs)
               /\ At(ViewOf(r, query).stack, r.scopes, t[k], r.inputs)
               /\ ViewOf(r, query).next = t[k].next
  BY UnderwayIs
<1>2. /\ IsRun(r) /\ r.tokens # None /\ Single(m) /\ Queried(query, r)
      /\ k \in 1..Len(r.tokens) /\ Len(r.tokens) \in Nat
  BY UnderwayIs
<1>3. query = None /\ ViewOf(r, query).stack = r.stack /\ ViewOf(r, query).next = r.next
  BY <1>2, OfALine
<1>4. /\ t[k + 1] = Machine(SetTop(Front(t[k].scopes), Last(Front(t[k].scopes)) \o Here(t[k])), t[k].next)
      /\ Len(t[k].scopes) > 1
  BY <1>1, LegalOnly DEF Closes
<1>. HIDE DEF k
<1>5. At(r.stack, scopes, t[k + 1], r.inputs) /\ t[k + 1].next = r.next
  <2>1. t[k + 1].next = r.next
    BY <1>1, <1>3, <1>4 DEF Machine
  <2>. QED
    BY <1>1, <1>3, <1>4, <2>1, StackedClose
<1>. HIDE DEF scopes
<1>6. ASSUME NEW q, q = [r EXCEPT !.at = @ + 1, !.scopes = scopes]
       PROVE  Underway(query, m, q)
  <2>1. q = [tokens |-> r.tokens, at |-> k + 1, inputs |-> r.inputs, next |-> r.next, stack |-> r.stack, scopes |-> scopes]
    BY <1>2, <1>6, ScopesTo DEF k
  <2>2. /\ IsRun(q) /\ q.tokens = r.tokens /\ q.at = k + 1 /\ q.inputs = r.inputs /\ q.next = r.next
        /\ q.stack = r.stack /\ q.scopes = scopes
    BY <2>1 DEF IsRun
  <2>3. Queried(query, q)
    BY <1>3 DEF Queried
  <2>4. ViewOf(q, query).stack = q.stack /\ ViewOf(q, query).next = q.next
    BY <1>3 DEF ViewOf
  <2>5. At(ViewOf(q, query).stack, q.scopes, t[k + 1], r.inputs) /\ ViewOf(q, query).next = t[k + 1].next
    BY <1>5, <2>2, <2>4
  <2>. QED
    BY <1>1, <1>2, <2>2, <2>3, <2>5, UnderwayOn DEF k
<1>7. Len(r.scopes) # 1
  <2>1. IsMachine(t[k], r.inputs) /\ Stacked(r.stack, r.scopes, t[k])
    BY <1>1, <1>3 DEF At
  <2>2. Len(r.scopes) = Len(t[k].scopes)
    BY <2>1, StackedIs
  <2>3. ~(1 > 1)
    OBVIOUS
  <2>. QED
    BY <1>4, <2>2, <2>3
<1>. QED
  BY <1>6, <1>7 DEF scopes

(* At the end one picture is left, the one meant, and every input was read. *)
LEMMA UnderwayEnds ==
  ASSUME NEW query, NEW m, NEW r, Underway(query, m, r), r.at > Len(r.tokens)
  PROVE  /\ LazyOf(r).next = Len(r.inputs) + 1 /\ Len(LazyOf(r).stack) = 1
         /\ Shows(LazyOf(r).stack[1], Last(m.scopes[1].pictures))
         /\ Len(r.stack) <= 1
         /\ r.stack = None => query # None
<1>. DEFINE ps == m.scopes[1].pictures
            stack == ViewOf(r, query).stack
            final == Machine(<<ps>>, Len(r.inputs) + 1)
<1>1. PICK t : Tracks(query, m, r, t)
  BY DEF Underway
<1>2. IsRun(r) /\ IsSeq(ps) /\ Len(ps) = 1 /\ Queried(query, r)
  BY DEF Underway, Single
<1>3. r.at = Len(r.tokens) + 1
  <2>1. Len(r.tokens) \in Nat /\ r.at \in 1..Len(r.tokens) + 1
    BY <1>1, SeqShape DEF Tracks, Trace
  <2>. QED
    BY <2>1
<1>4. At(stack, r.scopes, final, r.inputs) /\ ViewOf(r, query).next = final.next
  BY <1>1, <1>3 DEF Tracks
<1>5. final.scopes = <<ps>> /\ final.next = Len(r.inputs) + 1 /\ Here(final) = ps /\ Len(<<ps>>) = 1
  BY DEF Machine, Here, Last
<1>. HIDE DEF final, ps, stack
<1>6. Len(r.scopes) = 1 /\ r.scopes[1] = 0 /\ Last(r.scopes) = 0
  <2>1. Len(r.scopes) = 1 /\ r.scopes[1] = 0
    BY <1>4, <1>5 DEF At, Stacked
  <2>. QED
    BY <2>1 DEF Last
<1>7. Len(stack) = 1 /\ IsSeq(stack) /\ Shows(stack[1], ps[1])
  <2>1. Len(stack) = Last(r.scopes) + Len(ps) /\ IsSeq(stack)
    BY <1>4, <1>5, AtIs
  <2>2. \A j \in 1..Len(ps) : Shows(stack[Last(r.scopes) + j], ps[j])
    BY <1>4, <1>5, AtIs
  <2>3. 1 \in 1..Len(ps) /\ Last(r.scopes) + 1 = 1 /\ Last(r.scopes) + Len(ps) = 1
    BY <1>2, <1>6 DEF ps
  <2>. QED
    BY <2>1, <2>2, <2>3
<1>8. Last(ps) = ps[1]
  BY <1>2 DEF Last, ps
<1>9. stack # None
  <2>1. Len(stack) = 1 /\ Len(None) = 0
    BY <1>7, SeqEmpty
  <2>2. Len(stack) # Len(None)
    BY <2>1
  <2>. QED
    BY <2>2
<1>10. LazyOf(r).stack = stack /\ LazyOf(r).next = ViewOf(r, query).next
  BY <1>9, ViewIsLazy DEF stack
<1>11. Len(r.stack) <= 1 /\ (r.stack = None => query # None)
  <2>1. r.stack # None => r.stack = stack
    BY <1>10 DEF LazyOf
  <2>2. query = None => r.stack = stack
    BY DEF ViewOf, stack
  <2>3. CASE r.stack = None
    BY <1>9, <2>2, <2>3, SeqEmpty
  <2>4. CASE r.stack # None
    <3>1. Len(r.stack) = 1
      BY <1>7, <2>1, <2>4
    <3>2. Len(r.stack) <= 1
      <4>. DEFINE n == Len(r.stack)
      <4>1. n = 1
        BY <3>1
      <4>. HIDE DEF n
      <4>2. n <= 1
        BY <4>1
      <4>. QED
        BY <4>2 DEF n
    <3>. QED
      BY <2>4, <3>2
  <2>. QED
    BY <2>3, <2>4
<1>. QED
  BY <1>4, <1>5, <1>7, <1>8, <1>10, <1>11 DEF ps
-----------------------------------------------------------------------------
(* A line that was accepted, as it starts to run.                          *)
LEMMA NothingStacked ==
  ASSUME NEW inputs, IsMachine(Start, inputs)
  PROVE  At(None, <<0>>, Start, inputs)
<1>. DEFINE scopes == <<0>>
<1>1. IsSeq(scopes) /\ Len(scopes) = 1 /\ scopes[1] = 0 /\ IsSeq(None) /\ Len(None) = 0
  BY SeqOne, SeqEmpty
<1>2. Start.scopes = <<None>> /\ Len(<<None>>) = 1 /\ <<None>>[1] = None
  BY StartIs, SeqOne
<1>. HIDE DEF scopes
<1>3. Len(Start.scopes) = 1 /\ Start.scopes[1] = None /\ Here(Start) = None /\ Last(scopes) = 0
  BY <1>1, <1>2 DEF Here, Last
<1>4. \A i \in 1..Len(scopes) : i = 1 /\ scopes[i] = 0 /\ Len(Start.scopes[i]) = 0
  BY <1>1, <1>3
<1>5. Len(None) = Last(scopes) + Len(Here(Start))
  BY <1>1, <1>3
<1>6. \A i, j \in 1..Len(scopes) : ~(i < j)
  BY <1>1
<1>7. \A i \in 1..Len(scopes) - 1 : FALSE
  BY <1>1
<1>8. \A i \in 1..Len(scopes) : \A j \in 1..Len(Start.scopes[i]) : FALSE
  BY <1>4
<1>9. Stacked(None, scopes, Start)
  BY <1>1, <1>3, <1>4, <1>5, <1>6, <1>7, <1>8 DEF Stacked
<1>10. AllPictures(None)
  BY <1>1 DEF AllPictures
<1>. QED
  BY <1>9, <1>10 DEF At, scopes

(* The locals of runPipeline as it starts.                                 *)
LEMMA RunningIs ==
  ASSUME NEW tokens, NEW inputs
  PROVE  Running(tokens, inputs)
           = [tokens |-> tokens, at |-> 1, inputs |-> inputs, next |-> 1, stack |-> None, scopes |-> <<0>>]
<1>. DEFINE a == [NotRun EXCEPT !.tokens = tokens]
            b == [a EXCEPT !.at = 1]
            scopes == <<0>>
<1>0. NotRun = [tokens |-> None, at |-> 0, inputs |-> None, next |-> 1, stack |-> None, scopes |-> scopes]
  BY DEF NotRun
<1>. HIDE DEF scopes
<1>1. a = [tokens |-> tokens, at |-> 0, inputs |-> None, next |-> 1, stack |-> None, scopes |-> scopes]
  BY <1>0
<1>. HIDE DEF a
<1>2. b = [tokens |-> tokens, at |-> 1, inputs |-> None, next |-> 1, stack |-> None, scopes |-> scopes]
  BY <1>1
<1>. HIDE DEF b
<1>3. [b EXCEPT !.inputs = inputs]
        = [tokens |-> tokens, at |-> 1, inputs |-> inputs, next |-> 1, stack |-> None, scopes |-> scopes]
  BY <1>2
<1>. QED
  BY <1>3 DEF a, b, scopes, Running

(* A line that is accepted starts underway to the pictures meant.          *)
LEMMA LineStarts ==
  ASSUME NEW p, NEW m, Agreed(p, m), Single(m), NEW end, end.kind = "encode"
  PROVE  Len(m.scopes) = 1 => Underway(None, m, Running(Append(p.steps, end), p.inputs))
<1>. SUFFICES ASSUME Len(m.scopes) = 1 PROVE Underway(None, m, Running(Append(p.steps, end), p.inputs))
  OBVIOUS
<1>. DEFINE steps == p.steps
            inputs == p.inputs
            tokens == Append(steps, end)
            r == Running(tokens, inputs)
            ps == m.scopes[1].pictures
            held == HeldOf(m.scopes)
<1>1. PICK q : Told(q, m) /\ p.scopes = q.scopes /\ p.firsts = q.firsts /\ p.steps = q.steps /\ p.inputs = q.inputs
  BY AgreedIs
<1>2. PICK t : Follows(t, steps, inputs, held, p.firsts) /\ t[Len(steps) + 1].next = Len(inputs) + 1
  BY <1>1 DEF Told
<1>3. /\ Trace(t, steps, Start, inputs) /\ Len(steps) \in Nat /\ IsSeq(steps) /\ IsSeq(inputs)
      /\ t[Len(steps) + 1] = Machine(held, Len(inputs) + 1)
  BY <1>2, FollowsIs DEF Follows
<1>4. IsSeq(m.scopes)
  BY <1>1, ToldIs
<1>5. held = <<ps>>
  <2>. DEFINE one == <<ps>>
  <2>1. IsSeq(held) /\ Len(held) = Len(m.scopes) /\ \A i \in 1..Len(m.scopes) : held[i] = m.scopes[i].pictures
    BY <1>4, HeldIs
  <2>2. IsSeq(one) /\ Len(one) = 1 /\ one[1] = ps
    BY SeqOne
  <2>. HIDE DEF held, one
  <2>3. \A i \in 1..Len(held) : held[i] = one[i]
    <3>1. \A i \in 1..Len(m.scopes) : i = 1
      OBVIOUS
    <3>. QED
      BY <2>1, <2>2, <3>1
  <2>4. held = one
    BY <2>1, <2>2, <2>3, SeqSame
  <2>. QED
    BY <2>4 DEF one
<1>. DEFINE last == t[Len(steps) + 1]
            u == Append(t, last)
<1>6. Legal(last, end, last, inputs)
  BY DEF Legal, Rests
<1>. HIDE DEF tokens, r, ps, held, last, u, steps, inputs
<1>7. Trace(u, tokens, Start, inputs)
  BY <1>3, <1>6, TraceOn DEF u, tokens, last
<1>8. OneMore(u, tokens, t, steps, end, last)
  BY <1>3, Longer DEF u, tokens
<1>9. Len(tokens) = Len(steps) + 1 /\ u[1] = Start /\ u[Len(tokens) + 1] = last /\ Len(tokens) \in Nat
  <2>1. Len(tokens) = Len(steps) + 1 /\ Len(steps) \in Nat /\ u[Len(steps) + 2] = last
    BY <1>8 DEF OneMore
  <2>2. u[1] = Start
    BY <1>7 DEF Trace
  <2>3. Len(tokens) + 1 = Len(steps) + 2
    BY <2>1
  <2>. QED
    BY <2>1, <2>2, <2>3
<1>10. tokens # None
  BY <1>9, SeqEmpty
<1>11. IsMachine(Start, inputs)
  BY <1>7, <1>9 DEF Trace
<1>12. r = [tokens |-> tokens, at |-> 1, inputs |-> inputs, next |-> 1, stack |-> None, scopes |-> <<0>>]
  BY RunningIs DEF r
<1>13. /\ IsRun(r) /\ r.tokens = tokens /\ r.at = 1 /\ r.inputs = inputs /\ r.next = 1 /\ r.stack = None
       /\ r.scopes = <<0>>
  BY <1>12 DEF IsRun
<1>14. ViewOf(r, None).stack = None /\ ViewOf(r, None).next = 1
  BY <1>13 DEF ViewOf
<1>15. At(ViewOf(r, None).stack, r.scopes, u[r.at], r.inputs) /\ ViewOf(r, None).next = u[r.at].next
  BY <1>9, <1>11, <1>13, <1>14, NothingStacked, StartIs
<1>16. u[Len(r.tokens) + 1] = Machine(<<m.scopes[1].pictures>>, Len(r.inputs) + 1)
  BY <1>3, <1>5, <1>9, <1>13 DEF last, ps
<1>17. Tracks(None, m, r, u)
  <2>1. r.at \in 1..Len(r.tokens) + 1
    BY <1>9, <1>13
  <2>2. \E m0 : Trace(u, r.tokens, m0, r.inputs)
    BY <1>7, <1>13
  <2>. QED
    BY <1>15, <1>16, <2>1, <2>2 DEF Tracks
<1>18. Underway(None, m, r)
  <2>1. Queried(None, r)
    BY DEF Queried
  <2>. QED
    BY <1>10, <1>13, <1>17, <2>1 DEF Underway
<1>. QED
  BY <1>18 DEF r, tokens, steps, inputs
-----------------------------------------------------------------------------
(* A query, key by key.                                                    *)
(* What a query comes to: what it asks for, in the order of its tokens.    *)
After(key, asked, picture) ==
  IF key \in asked THEN Changed(Kind(key), Named(key), picture) ELSE picture
MadeByQuery(file, asked) ==
  After("radius", asked, After("resize", asked, After("size", asked, After("crop", asked, Read(file, None)))))
FromFile(file) == Machine(<< <<Read(file, None)>> >>, 2)
Holding(x) == Machine(<< <<x>> >>, 2)
Chain(A, x, asked, file, keys) ==
  /\ IsSeq(A) /\ x # None /\ (\A i \in 1..Len(A) : A[i].kind \in {"crop", "resize", "radius"})
  /\ A = None <=> asked \cap keys = {}
  /\ A = None => x = Read(file, None)
  /\ \E t : Trace(t, A, FromFile(file), <<file>>) /\ t[Len(A) + 1] = Holding(x)

(* The machine that holds one picture of one file.                         *)
LEMMA HoldingIs ==
  ASSUME NEW x, x # None, NEW inputs
  PROVE  Len(inputs) = 1 =>
           /\ IsMachine(Holding(x), inputs) /\ Here(Holding(x)) = <<x>> /\ Holding(x).next = 2
           /\ Holding(x).scopes = << <<x>> >>
<1>. SUFFICES ASSUME Len(inputs) = 1
     PROVE  /\ IsMachine(Holding(x), inputs) /\ Here(Holding(x)) = <<x>> /\ Holding(x).next = 2
            /\ Holding(x).scopes = << <<x>> >>
  OBVIOUS
<1>. DEFINE one == <<x>>
            scopes == <<one>>
            m == Machine(scopes, 2)
<1>1. Pictured(one)
  BY PicturedOne
<1>2. IsSeq(scopes) /\ Len(scopes) = 1 /\ scopes[1] = one
  BY SeqOne
<1>. HIDE DEF one, scopes
<1>3. m.scopes = scopes /\ m.next = 2 /\ m = Machine(m.scopes, m.next)
  BY DEF Machine
<1>4. 2 \in 1..Len(inputs) + 1
  OBVIOUS
<1>5. \A i \in 1..Len(scopes) : Pictured(scopes[i])
  BY <1>1, <1>2
<1>. HIDE DEF m
<1>6. IsMachine(m, inputs)
  <2>1. Len(scopes) >= 1
    <3>. DEFINE n == Len(scopes)
    <3>1. n = 1
      BY <1>2
    <3>. HIDE DEF n
    <3>2. n >= 1
      BY <3>1
    <3>. QED
      BY <3>2 DEF n
  <2>2. m.next \in 1..Len(inputs) + 1
    BY <1>3, <1>4
  <2>3. \A i \in 1..Len(m.scopes) : Pictured(m.scopes[i])
    BY <1>3, <1>5
  <2>4. IsSeq(m.scopes) /\ Len(m.scopes) >= 1
    BY <1>2, <1>3, <2>1
  <2>. QED
    BY <1>3, <2>2, <2>3, <2>4 DEF IsMachine
<1>7. Here(m) = one
  BY <1>2, <1>3 DEF Here, Last
<1>. QED
  BY <1>3, <1>6, <1>7 DEF m, scopes, one, Holding

(* The file of a query, before anything it asks for.                       *)
LEMMA ChainStarts ==
  ASSUME NEW asked, NEW file
  PROVE  Chain(None, Read(file, None), asked, file, {})
<1>. DEFINE x == Read(file, None)
            inputs == <<file>>
            m == Holding(x)
            t == <<m>>
<1>1. x # None
  BY PicturesAre
<1>2. IsSeq(inputs) /\ Len(inputs) = 1
  BY SeqOne
<1>3. IsMachine(m, inputs)
  BY <1>1, <1>2, HoldingIs
<1>4. m = FromFile(file)
  BY DEF Holding, FromFile
<1>5. Trace(t, None, m, inputs)
  BY <1>2, <1>3, TraceStart
<1>6. Len(None) = 0 /\ t[1] = m /\ IsSeq(None)
  BY SeqEmpty, SeqOne
<1>. HIDE DEF t, m, x, inputs
<1>7. t[Len(None) + 1] = m
  BY <1>6
<1>8. \A i \in 1..Len(None) : FALSE
  BY <1>6
<1>9. asked \cap {} = {}
  OBVIOUS
<1>10. \E u : Trace(u, None, FromFile(file), inputs) /\ u[Len(None) + 1] = Holding(x)
  BY <1>4, <1>5, <1>7 DEF m
<1>. QED
  BY <1>1, <1>6, <1>8, <1>9, <1>10 DEF Chain, x, inputs

(* Nothing added is nothing changed.                                       *)
LEMMA SeqNone ==
  ASSUME NEW s, IsSeq(s)
  PROVE  s \o None = s
<1>1. IsSeq(None) /\ Len(None) = 0
  BY SeqEmpty
<1>2. Concats(s \o None, s, None)
  BY <1>1, SeqConcats
<1>. DEFINE c == s \o None
<1>. HIDE DEF c
<1>3. IsSeq(c) /\ Len(c) = Len(s) + 0 /\ \A i \in 1..Len(s) : c[i] = s[i]
  BY <1>1, <1>2 DEF Concats, c
<1>4. Len(s) \in Nat
  BY SeqShape
<1>5. Len(c) = Len(s)
  BY <1>3, <1>4
<1>6. c = s
  BY <1>3, <1>5, SeqSame
<1>. QED
  BY <1>6 DEF c

(* One added at the end.                                                   *)
LEMMA SeqJust ==
  ASSUME NEW s, IsSeq(s), NEW x
  PROVE  s \o <<x>> = Append(s, x)
<1>. DEFINE one == <<x>>
            c == s \o one
            a == Append(s, x)
<1>1. IsSeq(one) /\ Len(one) = 1 /\ one[1] = x
  BY SeqOne
<1>. HIDE DEF one
<1>2. Concats(c, s, one)
  BY <1>1, SeqConcats
<1>3. IsSeq(a) /\ Len(a) = Len(s) + 1 /\ (\A i \in 1..Len(s) : a[i] = s[i]) /\ a[Len(s) + 1] = x
  BY SeqAppend
<1>. HIDE DEF c, a
<1>4. /\ IsSeq(c) /\ Len(c) = Len(s) + 1 /\ (\A i \in 1..Len(s) : c[i] = s[i]) /\ c[Len(s) + 1] = x
  <2>1. 1 \in 1..Len(one)
    BY <1>1
  <2>2. IsSeq(c) /\ Len(c) = Len(s) + Len(one) /\ (\A i \in 1..Len(s) : c[i] = s[i]) /\ c[Len(s) + 1] = one[1]
    BY <1>2, <2>1 DEF Concats
  <2>. QED
    BY <1>1, <2>2
<1>5. Len(s) \in Nat
  BY SeqShape
<1>6. \A i \in 1..Len(c) : c[i] = a[i]
  <2>1. \A i \in 1..Len(c) : i \in 1..Len(s) \/ i = Len(s) + 1
    BY <1>4, <1>5
  <2>. QED
    BY <1>3, <1>4, <2>1
<1>7. c = a
  BY <1>3, <1>4, <1>6, SeqSame
<1>. QED
  BY <1>7 DEF c, a, one

(* A change of the one picture leaves one picture.                         *)
LEMMA HoldingPuts ==
  ASSUME NEW x, x # None, NEW y, y # None, NEW inputs
  PROVE  Len(inputs) = 1 => Puts(Holding(x), SetTop(Here(Holding(x)), y), 2) = Holding(y)
<1>. SUFFICES ASSUME Len(inputs) = 1 PROVE Puts(Holding(x), SetTop(Here(Holding(x)), y), 2) = Holding(y)
  OBVIOUS
<1>. DEFINE one == <<x>>
            scopes == <<one>>
<1>1. Here(Holding(x)) = one /\ Holding(x).scopes = scopes
  BY HoldingIs
<1>2. SetTop(one, y) = <<y>>
  <2>1. IsSeq(one) /\ Len(one) = 1
    BY SeqOne
  <2>2. IsSeq(SetTop(one, y)) /\ Len(SetTop(one, y)) = 1 /\ SetTop(one, y)[1] = y
    BY <2>1, SeqTop
  <2>. DEFINE s == SetTop(one, y)
              r == <<y>>
  <2>3. IsSeq(r) /\ Len(r) = 1 /\ r[1] = y
    BY SeqOne
  <2>. HIDE DEF s, r
  <2>4. \A i \in 1..1 : s[i] = r[i]
    BY <2>2, <2>3 DEF s
  <2>5. s = r
    BY <2>2, <2>3, <2>4, SeqSame DEF s
  <2>. QED
    BY <2>5 DEF s, r
<1>3. SetTop(scopes, <<y>>) = << <<y>> >>
  <2>. DEFINE ys == <<y>>
              s == SetTop(scopes, ys)
              r == <<ys>>
  <2>. HIDE DEF ys, one
  <2>1. IsSeq(scopes) /\ Len(scopes) = 1
    BY SeqOne
  <2>2. IsSeq(s) /\ Len(s) = 1 /\ s[1] = ys
    BY <2>1, SeqTop
  <2>3. IsSeq(r) /\ Len(r) = 1 /\ r[1] = ys
    BY SeqOne
  <2>. HIDE DEF s, r
  <2>4. \A i \in 1..1 : s[i] = r[i]
    BY <2>2, <2>3
  <2>5. s = r
    BY <2>2, <2>3, <2>4, SeqSame
  <2>. QED
    BY <2>5 DEF s, r, ys
<1>. QED
  BY <1>1, <1>2, <1>3 DEF Puts, Holding

(* A transform is a step from one picture to the other.                    *)
LEMMA ChainChanges ==
  ASSUME NEW x, x # None, NEW step, step.kind \in PlainKinds, step.kind # "pixpalette", NEW inputs,
         NEW y, y = Changed(step.kind, step.options, x)
  PROVE  Len(inputs) = 1 => Legal(Holding(x), step, Holding(y), inputs)
<1>. SUFFICES ASSUME Len(inputs) = 1 PROVE Legal(Holding(x), step, Holding(y), inputs)
  OBVIOUS
<1>1. y # None
  BY PicturesAre
<1>2. Puts(Holding(x), SetTop(Here(Holding(x)), y), 2) = Holding(y)
  BY <1>1, HoldingPuts
<1>3. Here(Holding(x)) = <<x>> /\ Holding(x).next = 2 /\ <<x>> # None /\ Last(<<x>>) = x
  <2>. DEFINE one == <<x>>
  <2>1. Len(one) = 1 /\ one[1] = x /\ one # None
    BY SeqOne
  <2>2. Last(one) = x
    BY <2>1 DEF Last
  <2>. QED
    BY <2>1, <2>2, HoldingIs
<1>4. Made(step, Last(Here(Holding(x)))) = y
  BY <1>3 DEF Made
<1>5. Here(Holding(x)) # None
  BY <1>3
<1>. QED
  BY <1>2, <1>3, <1>4, <1>5 DEF Legal, Changes

(* A key of a query adds its step, if it is asked for, and its meaning.    *)
LEMMA ChainOn ==
  ASSUME NEW A, NEW x, NEW asked, NEW file, NEW keys, Chain(A, x, asked, file, keys), NEW key \in ChangeKeys
  PROVE  Chain(A \o TokenFor(key, asked), After(key, asked, x), asked, file, keys \cup {key})
<1>. DEFINE inputs == <<file>>
            B == A \o TokenFor(key, asked)
            y == After(key, asked, x)
            step == [kind |-> Kind(key), options |-> Named(key)]
<1>1. /\ IsSeq(A) /\ x # None /\ (\A i \in 1..Len(A) : A[i].kind \in {"crop", "resize", "radius"})
      /\ (A = None <=> asked \cap keys = {}) /\ (A = None => x = Read(file, None))
      /\ Len(inputs) = 1 /\ Len(A) \in Nat
  BY SeqOne, SeqShape DEF Chain
<1>2. PICK t : Trace(t, A, FromFile(file), inputs) /\ t[Len(A) + 1] = Holding(x)
  BY DEF Chain
<1>3. CASE key \notin asked
  <2>1. B = A /\ y = x
    BY <1>1, <1>3, SeqNone DEF TokenFor, After
  <2>2. asked \cap (keys \cup {key}) = asked \cap keys
    BY <1>3
  <2>. HIDE DEF B, y, inputs
  <2>3. Chain(B, y, asked, file, keys \cup {key})
    BY <1>1, <1>2, <2>1, <2>2 DEF Chain, inputs
  <2>. QED
    BY <2>3 DEF B, y
<1>4. CASE key \in asked
  <2>1. B = Append(A, step) /\ y = Changed(step.kind, step.options, x)
    BY <1>1, <1>4, SeqJust DEF TokenFor, After
  <2>2. step.kind \in {"crop", "resize", "radius"}
    BY DEF Kind, ChangeKeys
  <2>. HIDE DEF B, y, step, inputs
  <2>3. step.kind \in PlainKinds /\ step.kind # "pixpalette"
    BY <2>2 DEF PlainKinds
  <2>4. Legal(Holding(x), step, Holding(y), inputs) /\ y # None
    BY <1>1, <2>1, <2>3, ChainChanges, PicturesAre
  <2>. DEFINE u == Append(t, Holding(y))
  <2>5. Trace(u, B, FromFile(file), inputs)
    BY <1>2, <2>1, <2>4, TraceOn
  <2>6. OneMore(u, B, t, A, step, Holding(y))
    BY <1>2, <2>1, Longer
  <2>. HIDE DEF u
  <2>7. Len(B) = Len(A) + 1 /\ u[Len(B) + 1] = Holding(y)
    <3>1. Len(B) = Len(A) + 1 /\ u[Len(A) + 2] = Holding(y)
      BY <2>6 DEF OneMore
    <3>2. Len(B) + 1 = Len(A) + 2
      BY <1>1, <3>1
    <3>. QED
      BY <3>1, <3>2
  <2>8. IsSeq(B) /\ B # None
    <3>1. IsSeq(B)
      BY <1>1, <2>1, SeqAppend
    <3>2. Len(B) # 0
      BY <1>1, <2>7
    <3>. QED
      BY <3>1, <3>2, SeqShape
  <2>9. \A i \in 1..Len(B) : B[i].kind \in {"crop", "resize", "radius"}
    <3>1. \A i \in 1..Len(B) : i \in 1..Len(A) \/ i = Len(A) + 1
      BY <1>1, <2>7
    <3>2. (\A i \in 1..Len(A) : B[i] = A[i]) /\ B[Len(A) + 1] = step
      BY <2>6 DEF OneMore
    <3>. QED
      BY <1>1, <2>2, <3>1, <3>2
  <2>10. asked \cap (keys \cup {key}) # {}
    BY <1>4
  <2>11. Chain(B, y, asked, file, keys \cup {key})
    BY <2>4, <2>5, <2>7, <2>8, <2>9, <2>10 DEF Chain, inputs
  <2>. QED
    BY <2>11 DEF B, y
<1>. QED
  BY <1>3, <1>4

Changing(asked) ==
  TokenFor("crop", asked) \o TokenFor("size", asked) \o TokenFor("resize", asked) \o TokenFor("radius", asked)

(* All four of them, in the order parseQueryTokens looks for them.         *)
LEMMA ChangingIs ==
  ASSUME NEW asked, NEW file
  PROVE  Chain(Changing(asked), MadeByQuery(file, asked), asked, file, ChangeKeys)
<1>. DEFINE a == TokenFor("crop", asked)
            x0 == Read(file, None)
            x1 == After("crop", asked, x0)
            x2 == After("size", asked, x1)
            x3 == After("resize", asked, x2)
            x4 == After("radius", asked, x3)
<1>1. Chain(None, x0, asked, file, {})
  BY ChainStarts
<1>2. None \o a = a
  <2>1. CASE "crop" \in asked
    <3>1. None \o <<[kind |-> Kind("crop"), options |-> Named("crop")]>>
            = Append(None, [kind |-> Kind("crop"), options |-> Named("crop")])
      BY SeqEmpty, SeqJust
    <3>2. Append(None, [kind |-> Kind("crop"), options |-> Named("crop")])
            = <<[kind |-> Kind("crop"), options |-> Named("crop")]>>
      BY DEF None
    <3>. QED
      BY <2>1, <3>1, <3>2 DEF TokenFor
  <2>2. CASE "crop" \notin asked
    BY <2>2, SeqEmpty, SeqNone DEF TokenFor
  <2>. QED
    BY <2>1, <2>2
<1>. HIDE DEF x0, x1, x2, x3, x4
<1>3. Chain(None \o a, x1, asked, file, {} \cup {"crop"})
  BY <1>1, ChainOn DEF ChangeKeys, x1
<1>4. Chain(a, x1, asked, file, {"crop"})
  BY <1>2, <1>3
<1>. HIDE DEF a
<1>. DEFINE b == a \o TokenFor("size", asked)
<1>5. Chain(b, x2, asked, file, {"crop"} \cup {"size"})
  BY <1>4, ChainOn DEF ChangeKeys, x2
<1>. HIDE DEF b
<1>. DEFINE c == b \o TokenFor("resize", asked)
<1>6. Chain(c, x3, asked, file, ({"crop"} \cup {"size"}) \cup {"resize"})
  BY <1>5, ChainOn DEF ChangeKeys, x3
<1>. HIDE DEF c
<1>7. Chain(c \o TokenFor("radius", asked), x4, asked, file, (({"crop"} \cup {"size"}) \cup {"resize"}) \cup {"radius"})
  BY <1>6, ChainOn DEF ChangeKeys, x4
<1>8. (({"crop"} \cup {"size"}) \cup {"resize"}) \cup {"radius"} = ChangeKeys
  BY DEF ChangeKeys
<1>9. c \o TokenFor("radius", asked) = Changing(asked)
  BY DEF c, b, a, Changing
<1>10. x4 = MadeByQuery(file, asked)
  BY DEF x4, x3, x2, x1, x0, MadeByQuery
<1>. QED
  BY <1>7, <1>8, <1>9, <1>10

(* The format of a query, its last token.                                  *)
Ending(query) ==
  IF "format" \in query.asked THEN Encode(query.wanted, IF "pix_fmt" \in query.asked THEN "rgb565" ELSE "any")
  ELSE IF "pix_fmt" \in query.asked THEN Encode("raw", "rgb565")
  ELSE Encode(IF query.held = "ppm" THEN "png" ELSE query.held, "any")
IsQuery(query) ==
  /\ query \in [held : {"png", "ppm"}, asked : SUBSET QueryKeys, wanted : {"png", "ppm", "raw"},
                written : Seq(QueryKeys)]
  /\ "format" \notin query.asked => query.wanted = query.held

(* format= encodes in the format named.                                    *)
LEMMA FormatTokenNamed ==
  ASSUME NEW asked, NEW wanted, "format" \in asked
  PROVE  FormatToken(asked, wanted) = <<Encode(wanted, IF "pix_fmt" \in asked THEN "rgb565" ELSE "any")>>
<1>1. {"format", "pix_fmt"} \cap asked # {"pix_fmt"}
  <2>1. "format" \in {"format", "pix_fmt"} \cap asked
    OBVIOUS
  <2>2. "format" \notin {"pix_fmt"}
    OBVIOUS
  <2>. QED
    BY <2>1, <2>2
<1>. QED
  BY <1>1, Zenon DEF FormatToken

(* pix_fmt= alone encodes raw pixels.                                      *)
LEMMA FormatTokenColour ==
  ASSUME NEW asked, NEW wanted, "format" \notin asked, "pix_fmt" \in asked
  PROVE  FormatToken(asked, wanted) = <<Encode("raw", "rgb565")>>
<1>1. {"format", "pix_fmt"} \cap asked = {"pix_fmt"}
  OBVIOUS
<1>. QED
  BY <1>1, Zenon DEF FormatToken

(* Neither: nothing to encode.                                             *)
LEMMA FormatTokenNone ==
  ASSUME NEW asked, NEW wanted, "format" \notin asked, "pix_fmt" \notin asked
  PROVE  FormatToken(asked, wanted) = None
<1>1. {"format", "pix_fmt"} \cap asked # {"pix_fmt"}
  OBVIOUS
<1>. QED
  BY <1>1, Zenon DEF FormatToken

(* No transform of a query encodes.                                        *)
LEMMA NoEncodes ==
  ASSUME NEW A, NEW x, NEW asked, NEW file, NEW keys, Chain(A, x, asked, file, keys)
  PROVE  ~Encodes(A) /\ IsSeq(A)
<1>1. IsSeq(A) /\ \A i \in 1..Len(A) : A[i].kind \in {"crop", "resize", "radius"}
  BY DEF Chain
<1>2. DOMAIN A = 1..Len(A)
  BY <1>1, SeqShape
<1>. QED
  BY <1>1, <1>2 DEF Encodes

(* An encode at the end is one that is found.                              *)
LEMMA LastEncodes ==
  ASSUME NEW A, IsSeq(A), NEW end, end.kind = "encode"
  PROVE  Encodes(Append(A, end)) /\ Append(A, end) # None
<1>. DEFINE B == Append(A, end)
<1>1. IsSeq(B) /\ Len(B) = Len(A) + 1 /\ B[Len(A) + 1] = end
  BY SeqAppend
<1>2. Len(A) \in Nat
  BY SeqShape
<1>. HIDE DEF B
<1>3. DOMAIN B = 1..Len(B) /\ Len(A) + 1 \in 1..Len(B) /\ Len(B) # 0
  BY <1>1, <1>2, SeqShape
<1>4. Encodes(B)
  BY <1>1, <1>3 DEF Encodes
<1>5. B # None
  BY <1>1, <1>3, SeqShape
<1>. QED
  BY <1>4, <1>5 DEF B

(* The tokens of a query: its transforms, and one encode at the end, asked *)
(* for or fallen back on.                                                  *)
LEMMA TokensAre ==
  ASSUME NEW query, IsQuery(query)
  PROVE  /\ WithFallback(QueryTokens(query.asked, query.wanted), query.held)
              = Append(Changing(query.asked), Ending(query))
         /\ QueryTokens(query.asked, query.wanted)
              = IF {"format", "pix_fmt"} \cap query.asked = {} THEN Changing(query.asked)
                ELSE Append(Changing(query.asked), Ending(query))
<1>. DEFINE asked == query.asked
            wanted == query.wanted
            A == Changing(asked)
            F == FormatToken(asked, wanted)
            tokens == QueryTokens(asked, wanted)
            end == Ending(query)
<1>1. tokens = A \o F
  BY DEF QueryTokens, Changing
<1>2. ~Encodes(A) /\ IsSeq(A)
  <2>1. Chain(A, MadeByQuery(0, asked), asked, 0, ChangeKeys)
    BY ChangingIs
  <2>. QED
    BY <2>1, NoEncodes
<1>3. end.kind = "encode"
  BY DEF Ending, Encode
<1>4. Encodes(Append(A, end))
  BY <1>2, <1>3, LastEncodes
<1>. HIDE DEF A
<1>5. CASE "format" \in asked
  <2>1. F = <<end>>
    BY <1>5, FormatTokenNamed DEF Ending
  <2>. HIDE DEF F, end, tokens
  <2>2. tokens = Append(A, end)
    BY <1>1, <1>2, <2>1, SeqJust
  <2>3. {"format", "pix_fmt"} \cap asked # {}
    BY <1>5
  <2>. QED
    BY <1>4, <2>2, <2>3 DEF WithFallback, tokens, end, A
<1>6. CASE "format" \notin asked /\ "pix_fmt" \in asked
  <2>1. F = <<end>>
    BY <1>6, FormatTokenColour DEF Ending
  <2>. HIDE DEF F, end, tokens
  <2>2. tokens = Append(A, end)
    BY <1>1, <1>2, <2>1, SeqJust
  <2>3. {"format", "pix_fmt"} \cap asked # {}
    BY <1>6
  <2>. QED
    BY <1>4, <2>2, <2>3 DEF WithFallback, tokens, end, A
<1>7. CASE "format" \notin asked /\ "pix_fmt" \notin asked
  <2>1. F = None /\ end = Encode(IF query.held = "ppm" THEN "png" ELSE query.held, "any")
    BY <1>7, FormatTokenNone DEF Ending
  <2>. HIDE DEF F, end, tokens
  <2>2. tokens = A
    BY <1>1, <1>2, <2>1, SeqNone
  <2>3. {"format", "pix_fmt"} \cap asked = {}
    BY <1>7
  <2>. QED
    BY <1>2, <2>1, <2>2, <2>3 DEF WithFallback, tokens, end, A
<1>. QED
  BY <1>5, <1>6, <1>7

(* A query that the file itself answers.                                   *)
AsItIs(query) ==
  query.asked \cap ChangeKeys = {} /\ "pix_fmt" \notin query.asked /\ query.wanted = query.held

(* The untouched file answers the queries that ask for nothing, or for     *)
(* what it is already.                                                     *)
LEMMA FileAnswers ==
  ASSUME NEW query, IsQuery(query), NEW tokens, tokens = QueryTokens(query.asked, query.wanted)
  PROVE  (tokens = None \/ AlreadyWhatWasAsked(tokens, query.held)) <=> AsItIs(query)
<1>. DEFINE asked == query.asked
            A == Changing(asked)
            end == Ending(query)
            B == Append(A, end)
            encoded == {"format", "pix_fmt"} \cap asked # {}
<1>1. tokens = IF encoded THEN B ELSE A
  BY TokensAre
<1>2. IsSeq(A) /\ (\A i \in 1..Len(A) : A[i].kind \in {"crop", "resize", "radius"}) /\ (A = None <=> asked \cap ChangeKeys = {})
  <2>1. Chain(A, MadeByQuery(0, asked), asked, 0, ChangeKeys)
    BY ChangingIs
  <2>. QED
    BY <2>1 DEF Chain
<1>3. query.wanted \in {"png", "ppm", "raw"} /\ query.held \in {"png", "ppm"} /\ ("format" \notin asked => query.wanted = query.held)
  BY DEF IsQuery
<1>4. IsSeq(B) /\ Len(B) = Len(A) + 1 /\ (\A i \in 1..Len(A) : B[i] = A[i]) /\ B[Len(A) + 1] = end /\ Len(A) \in Nat
  BY <1>2, SeqAppend, SeqShape
<1>5. end.kind = "encode" /\ B # None
  <2>1. end.kind = "encode"
    BY DEF Ending, Encode
  <2>. QED
    BY <1>2, <2>1, LastEncodes
<1>. HIDE DEF A, B
<1>6. DOMAIN A = 1..Len(A) /\ DOMAIN B = 1..Len(B) /\ Len(A) + 1 \in 1..Len(B) /\ (A = None <=> Len(A) = 0)
  BY <1>2, <1>4, SeqShape
<1>7. ASSUME A # None PROVE ~(tokens = None \/ AlreadyWhatWasAsked(tokens, query.held))
  <2>1. 1 \in 1..Len(A) /\ 1 \in 1..Len(B)
    BY <1>4, <1>6, <1>7
  <2>2. A[1].kind # "encode" /\ B[1] = A[1]
    BY <1>2, <1>4, <2>1
  <2>3. Encode(query.held, "any").kind = "encode"
    BY DEF Encode
  <2>4. tokens # None /\ 1 \in DOMAIN tokens /\ tokens[1].kind # "encode"
    BY <1>1, <1>5, <1>6, <1>7, <2>1, <2>2
  <2>5. tokens[1] # Encode(query.held, "any")
    BY <2>3, <2>4
  <2>. QED
    BY <2>4, <2>5 DEF AlreadyWhatWasAsked
<1>8. ASSUME A = None, encoded
      PROVE  (tokens = None \/ AlreadyWhatWasAsked(tokens, query.held)) <=> end = Encode(query.held, "any")
  <2>1. DOMAIN B = {1} /\ B[1] = end
    BY <1>4, <1>6, <1>8
  <2>2. tokens = B
    BY <1>1, <1>8
  <2>. HIDE DEF end, encoded
  <2>. QED
    BY <1>5, <2>1, <2>2 DEF AlreadyWhatWasAsked
<1>9. end = Encode(query.held, "any") /\ encoded <=> encoded /\ "pix_fmt" \notin asked /\ query.wanted = query.held
  <2>1. \A c1, k1, c2, k2 : Encode(c1, k1) = Encode(c2, k2) => c1 = c2 /\ k1 = k2
    BY DEF Encode
  <2>2. CASE "pix_fmt" \in asked
    <3>1. \E c : end = Encode(c, "rgb565")
      BY <2>2 DEF Ending
    <3>. HIDE DEF end
    <3>2. "rgb565" # "any"
      OBVIOUS
    <3>. QED
      BY <2>1, <2>2, <3>1, <3>2
  <2>3. CASE "pix_fmt" \notin asked /\ "format" \in asked
    <3>1. end = Encode(query.wanted, "any")
      BY <2>3 DEF Ending
    <3>. HIDE DEF end
    <3>. QED
      BY <2>1, <2>3, <3>1
  <2>4. CASE "pix_fmt" \notin asked /\ "format" \notin asked
    BY <2>4
  <2>. QED
    BY <2>2, <2>3, <2>4
<1>. HIDE DEF end
<1>10. ~encoded => "pix_fmt" \notin asked /\ query.wanted = query.held
  BY <1>3
<1>. HIDE DEF encoded
<1>11. AsItIs(query) <=> A = None /\ "pix_fmt" \notin asked /\ query.wanted = query.held
  BY <1>2 DEF AsItIs
<1>. QED
  BY <1>1, <1>7, <1>8, <1>9, <1>10, <1>11

(* A query is not None, which says that there is a line instead.           *)
LEMMA QueryIsOne ==
  ASSUME NEW query, IsQuery(query)
  PROVE  query # None
<1>1. "held" \in DOMAIN query
  BY DEF IsQuery
<1>2. DOMAIN None = 1..Len(None) /\ Len(None) = 0
  BY SeqEmpty, SeqShape
<1>3. DOMAIN None = {}
  BY <1>2
<1>. QED
  BY <1>1, <1>3

(* The file of a query, decoded, is a stack of one picture.                *)
LEMMA FileStacked ==
  ASSUME NEW file
  PROVE  At(<<Native(Read(file, None))>>, <<0>>, FromFile(file), <<file>>)
<1>. DEFINE x == Read(file, None)
            p == Native(x)
            stack == <<p>>
            scopes == <<0>>
            inputs == <<file>>
            one == <<x>>
            m == Holding(x)
<1>1. /\ IsSeq(scopes) /\ Len(scopes) = 1 /\ scopes[1] = 0
      /\ IsSeq(stack) /\ Len(stack) = 1 /\ stack[1] = p
      /\ IsSeq(one) /\ Len(one) = 1 /\ one[1] = x
      /\ IsSeq(inputs) /\ Len(inputs) = 1
  BY SeqOne
<1>2. x # None /\ Shows(p, x)
  BY PicturesAre, NativeShows
<1>3. IsMachine(m, inputs) /\ Here(m) = one /\ m.scopes = <<one>>
  BY <1>1, <1>2, HoldingIs
<1>4. Len(m.scopes) = 1 /\ m.scopes[1] = one
  <2>1. Len(<<one>>) = 1 /\ <<one>>[1] = one
    BY SeqOne
  <2>. QED
    BY <1>3, <2>1
<1>. HIDE DEF x, p, stack, scopes, inputs, one, m
<1>5. Last(scopes) = 0
  BY <1>1 DEF Last
<1>6. \A i \in 1..Len(scopes) : i = 1 /\ scopes[i] = 0
  BY <1>1
<1>7. Len(stack) = Last(scopes) + Len(Here(m))
  BY <1>1, <1>3, <1>5
<1>8. \A i, j \in 1..Len(scopes) : ~(i < j)
  BY <1>1
<1>9. \A i \in 1..Len(scopes) - 1 : FALSE
  BY <1>1
<1>10. ASSUME NEW i \in 1..Len(scopes), NEW j \in 1..Len(m.scopes[i]) PROVE Shows(stack[scopes[i] + j], m.scopes[i][j])
  <2>0. i = 1
    BY <1>6
  <2>2. m.scopes[i] = one /\ scopes[i] = 0
    BY <1>1, <1>4, <2>0
  <2>3. j \in 1..1
    BY <1>1, <2>2
  <2>4. j = 1 /\ 0 + j = 1
    BY <2>3
  <2>1. i = 1 /\ j = 1 /\ m.scopes[i] = one /\ scopes[i] + j = 1
    BY <2>0, <2>2, <2>4
  <2>. QED
    BY <1>1, <1>2, <2>1
<1>11. Stacked(stack, scopes, m)
  BY <1>1, <1>4, <1>6, <1>7, <1>8, <1>9, <1>10 DEF Stacked
<1>12. AllPictures(stack)
  <2>1. \A k \in 1..Len(stack) : k = 1
    BY <1>1
  <2>. QED
    BY <1>1, <1>2, <2>1 DEF AllPictures, Shows
<1>13. FromFile(file) = m
  BY DEF FromFile, Holding, m, x
<1>. QED
  BY <1>3, <1>11, <1>12, <1>13 DEF At, stack, p, x, scopes, inputs

(* A query starts underway to the picture its tokens make.                 *)
LEMMA QueryStarts ==
  ASSUME NEW query, IsQuery(query), NEW file, NEW m,
         NEW tokens, tokens = Append(Changing(query.asked), Ending(query))
  PROVE  m.scopes[1].pictures = <<MadeByQuery(file, query.asked)>>
           => Underway(query, m, Running(tokens, <<file>>))
<1>. SUFFICES ASSUME m.scopes[1].pictures = <<MadeByQuery(file, query.asked)>>
     PROVE  Underway(query, m, Running(tokens, <<file>>))
  OBVIOUS
<1>. DEFINE A == Changing(query.asked)
            end == Ending(query)
            x == MadeByQuery(file, query.asked)
            inputs == <<file>>
            r == Running(tokens, inputs)
            ps == m.scopes[1].pictures
<1>1. Chain(A, x, query.asked, file, ChangeKeys)
  BY ChangingIs
<1>2. /\ IsSeq(A) /\ x # None /\ \A i \in 1..Len(A) : A[i].kind \in {"crop", "resize", "radius"}
  BY <1>1 DEF Chain
<1>3. PICK t : Trace(t, A, FromFile(file), inputs) /\ t[Len(A) + 1] = Holding(x)
  BY <1>1 DEF Chain
<1>4. end.kind = "encode"
  BY DEF Ending, Encode
<1>5. /\ IsSeq(inputs) /\ Len(inputs) = 1 /\ inputs[1] = file
      /\ ps = <<x>> /\ IsSeq(ps) /\ Len(ps) = 1
  <2>1. IsSeq(<<x>>) /\ Len(<<x>>) = 1
    BY SeqOne
  <2>. QED
    BY <2>1, SeqOne
<1>. DEFINE u == Append(t, Holding(x))
<1>6. Legal(Holding(x), end, Holding(x), inputs)
  BY <1>4 DEF Legal, Rests
<1>. HIDE DEF A, end, x, inputs, r, ps, u
<1>7. Trace(u, tokens, FromFile(file), inputs) /\ OneMore(u, tokens, t, A, end, Holding(x))
  BY <1>3, <1>6, TraceOn, Longer DEF u, A, end
<1>8. Len(tokens) = Len(A) + 1 /\ Len(A) \in Nat /\ u[1] = FromFile(file) /\ u[Len(tokens) + 1] = Holding(x)
      /\ (\A i \in 1..Len(A) : tokens[i] = A[i]) /\ tokens[Len(A) + 1] = end
  <2>1. Len(tokens) = Len(A) + 1 /\ Len(A) \in Nat /\ u[Len(A) + 2] = Holding(x)
        /\ (\A i \in 1..Len(A) : tokens[i] = A[i]) /\ tokens[Len(A) + 1] = end
    BY <1>7 DEF OneMore
  <2>2. Len(tokens) + 1 = Len(A) + 2
    BY <2>1
  <2>3. u[1] = FromFile(file)
    BY <1>7 DEF Trace
  <2>. QED
    BY <2>1, <2>2, <2>3
<1>9. tokens # None
  <2>1. Len(tokens) # 0
    BY <1>8
  <2>. QED
    BY <2>1, SeqEmpty
<1>10. \A i \in 1..Len(tokens) : tokens[i].kind \in PlainKinds \cup {"encode"}
  <2>1. \A i \in 1..Len(tokens) : i \in 1..Len(A) \/ i = Len(A) + 1
    BY <1>8
  <2>. QED
    BY <1>2, <1>4, <1>8, <2>1 DEF PlainKinds
<1>11. r = [tokens |-> tokens, at |-> 1, inputs |-> inputs, next |-> 1, stack |-> None, scopes |-> <<0>>]
  BY RunningIs DEF r
<1>12. /\ IsRun(r) /\ r.tokens = tokens /\ r.at = 1 /\ r.inputs = inputs /\ r.next = 1 /\ r.stack = None
       /\ r.scopes = <<0>>
  BY <1>11 DEF IsRun
<1>13. query # None /\ inputs # None
  <2>1. inputs # None
    BY SeqOne DEF inputs
  <2>. QED
    BY <2>1, QueryIsOne
<1>14. ViewOf(r, query).stack = <<Native(Read(file, None))>> /\ ViewOf(r, query).next = 2
  BY <1>5, <1>12, <1>13 DEF ViewOf, LazyOf
<1>15. At(ViewOf(r, query).stack, r.scopes, u[r.at], r.inputs) /\ ViewOf(r, query).next = u[r.at].next
  <2>1. FromFile(file).next = 2
    BY DEF FromFile, Machine
  <2>. QED
    BY <1>8, <1>12, <1>14, <2>1, FileStacked DEF inputs
<1>16. u[Len(r.tokens) + 1] = Machine(<<m.scopes[1].pictures>>, Len(r.inputs) + 1)
  <2>0. Len(r.inputs) = 1
    BY <1>5, <1>12
  <2>2. 1 + 1 = 2
    OBVIOUS
  <2>1. Len(r.inputs) + 1 = 2
    BY <2>0, <2>2
  <2>. QED
    BY <1>5, <1>8, <1>12, <2>1 DEF Holding, ps
<1>17. Tracks(query, m, r, u)
  <2>1. r.at \in 1..Len(r.tokens) + 1
    BY <1>8, <1>12
  <2>2. \E m0 : Trace(u, r.tokens, m0, r.inputs)
    BY <1>7, <1>12
  <2>. QED
    BY <1>15, <1>16, <2>1, <2>2 DEF Tracks
<1>18. Queried(query, r)
  <2>1. \A i \in 1..Len(r.tokens) : ~(i < 1)
    BY <1>8, <1>12
  <2>. QED
    BY <1>5, <1>10, <1>12, <2>1 DEF Queried
<1>19. Single(m)
  BY <1>5 DEF Single, ps
<1>. QED
  BY <1>9, <1>12, <1>17, <1>18, <1>19 DEF Underway, r, inputs
-----------------------------------------------------------------------------
(* What holds all along.                                                   *)
Typed(p, m) ==
  /\ Len(p.scopes) = Len(p.firsts) /\ Len(p.scopes) = Len(m.scopes)
  /\ p.query = None => \A i \in DOMAIN p.scopes : p.scopes[i] = Len(m.scopes[i].pictures)
  /\ \A i \in DOMAIN p.firsts : p.firsts[i].end <= Len(p.steps)
RunTyped(r) ==
  /\ r.next \in 1..Len(r.inputs) + 1
  /\ \A i \in DOMAIN r.scopes : r.scopes[i] <= Len(r.stack)
InStep(r) ==
  \A i \in DOMAIN r.stack :
    r.stack[i].indexed # None => r.stack[i].native = None /\ r.stack[i].indexed = r.stack[i].image

(* A reader that agrees with what is meant has counts of the right types.  *)
LEMMA AgreedTyped ==
  ASSUME NEW p, NEW m, Agreed(p, m)
  PROVE  Typed(p, m)
<1>1. PICK q : Told(q, m) /\ p.scopes = q.scopes /\ p.firsts = q.firsts /\ p.steps = q.steps /\ p.inputs = q.inputs
  BY AgreedIs
<1>2. /\ Len(m.scopes) \in Nat \ {0} /\ Len(p.scopes) = Len(m.scopes) /\ Len(p.firsts) = Len(m.scopes)
      /\ IsSeq(p.scopes) /\ IsSeq(p.firsts)
  BY <1>1, ToldIs
<1>3. DOMAIN p.scopes = 1..Len(m.scopes) /\ DOMAIN p.firsts = 1..Len(p.firsts)
  BY <1>2, SeqShape
<1>4. \A i \in 1..Len(m.scopes) : p.scopes[i] = Len(m.scopes[i].pictures)
  BY <1>1 DEF Told, Counts
<1>5. \A i \in 1..Len(p.firsts) : p.firsts[i].end <= Len(p.steps)
  <2>1. PICK t : Follows(t, q.steps, q.inputs, HeldOf(m.scopes), q.firsts)
    BY <1>1 DEF Told
  <2>2. Shaped(q.firsts, t, q.steps)
    BY <2>1 DEF Follows
  <2>. QED
    BY <1>1, <2>2 DEF Shaped
<1>. QED
  BY <1>2, <1>3, <1>4, <1>5 DEF Typed

(* Before a run there is nothing out of bounds, or out of step.            *)
LEMMA NotRunTyped ==
  RunTyped(NotRun) /\ InStep(NotRun)
<1>. DEFINE scopes == <<0>>
<1>1. NotRun.next = 1 /\ NotRun.inputs = None /\ NotRun.stack = None /\ NotRun.scopes = scopes
  BY DEF NotRun
<1>2. IsSeq(scopes) /\ Len(scopes) = 1 /\ scopes[1] = 0 /\ IsSeq(None) /\ Len(None) = 0
  BY SeqOne, SeqEmpty
<1>. HIDE DEF scopes
<1>3. DOMAIN scopes = 1..1 /\ DOMAIN None = 1..0
  BY <1>2, SeqShape
<1>4. 1 \in 1..Len(None) + 1
  BY <1>2
<1>5. \A i \in DOMAIN scopes : scopes[i] <= Len(None)
  <2>1. \A i \in DOMAIN scopes : scopes[i] = 0
    BY <1>2, <1>3
  <2>2. 0 <= Len(None)
    BY <1>2
  <2>. QED
    BY <2>1, <2>2
<1>6. \A i \in DOMAIN None : FALSE
  BY <1>3
<1>. QED
  BY <1>1, <1>4, <1>5, <1>6 DEF RunTyped, InStep

(* A run that is underway is within its bounds, and its indices are in     *)
(* step.                                                                   *)
LEMMA UnderwayTyped ==
  ASSUME NEW query, NEW m, NEW r, Underway(query, m, r)
  PROVE  RunTyped(r) /\ InStep(r)
<1>. DEFINE v == ViewOf(r, query)
<1>1. PICK t : Tracks(query, m, r, t)
  BY DEF Underway
<1>2. At(v.stack, r.scopes, t[r.at], r.inputs) /\ v.next = t[r.at].next
  BY <1>1 DEF Tracks
<1>. DEFINE n == t[r.at]
<1>3. IsMachine(n, r.inputs) /\ Stacked(v.stack, r.scopes, n) /\ AllPictures(v.stack)
  BY <1>2 DEF At
<1>4. n.next \in 1..Len(r.inputs) + 1
  BY <1>3 DEF IsMachine
<1>5. /\ \A i \in 1..Len(r.scopes) : Len(n.scopes[i]) \in Nat /\ r.scopes[i] + Len(n.scopes[i]) <= Len(v.stack)
      /\ Len(v.stack) \in Nat
  BY <1>3, StackedIs
<1>6. IsSeq(r.scopes) /\ IsSeq(v.stack) /\ \A i \in 1..Len(r.scopes) : r.scopes[i] \in Nat
  BY <1>3 DEF Stacked
<1>7. DOMAIN r.scopes = 1..Len(r.scopes) /\ DOMAIN v.stack = 1..Len(v.stack)
  BY <1>6, SeqShape
<1>8. \/ v.stack = r.stack /\ v.next = r.next
      \/ r.stack = None /\ r.next = 1 /\ query # None
  BY DEF ViewOf, LazyOf
<1>9. CASE v.stack = r.stack /\ v.next = r.next
  <2>. HIDE DEF v, n
  <2>1. r.next \in 1..Len(r.inputs) + 1
    BY <1>2, <1>4, <1>9 DEF n
  <2>2. ASSUME NEW i \in DOMAIN r.scopes PROVE r.scopes[i] <= Len(r.stack)
    <3>. DEFINE a == r.scopes[i]
                c == Len(n.scopes[i])
                N == Len(v.stack)
    <3>1. a \in Nat /\ c \in Nat /\ N \in Nat /\ a + c <= N
      BY <1>5, <1>6, <1>7
    <3>. HIDE DEF a, c, N
    <3>2. a <= N
      BY <3>1
    <3>. QED
      BY <1>9, <3>2 DEF a, N
  <2>3. InStep(r)
    BY <1>3, <1>7, <1>9 DEF AllPictures, IsPicture, InStep
  <2>. QED
    BY <2>1, <2>2, <2>3 DEF RunTyped
<1>10. CASE r.stack = None /\ r.next = 1 /\ query # None
  <2>1. r.scopes = <<0>> /\ Len(r.inputs) = 1
    BY <1>10 DEF Underway, Queried
  <2>2. DOMAIN None = 1..0 /\ Len(None) = 0
    BY SeqEmpty, SeqShape
  <2>. HIDE DEF v, n
  <2>3. r.next \in 1..Len(r.inputs) + 1
    <3>1. 1 \in 1..Len(r.inputs) + 1
      BY <2>1
    <3>. QED
      BY <1>10, <3>1
  <2>4. \A i \in DOMAIN r.scopes : r.scopes[i] <= Len(r.stack)
    <3>1. Len(r.scopes) = 1 /\ r.scopes[1] = 0
      BY <2>1, SeqOne
    <3>2. \A i \in DOMAIN r.scopes : r.scopes[i] = 0
      BY <1>7, <3>1
    <3>3. 0 <= Len(r.stack)
      BY <1>10, <2>2
    <3>. QED
      BY <3>2, <3>3
  <2>5. \A i \in DOMAIN r.stack : FALSE
    BY <1>10, <2>2
  <2>. QED
    BY <2>3, <2>4, <2>5 DEF RunTyped, InStep
<1>. QED
  BY <1>8, <1>9, <1>10

(* How a query ends.                                                       *)
Formatted(query, a) ==
  LET changes == query.asked \ {"format", "pix_fmt"}
      untouched == changes = {} /\ "pix_fmt" \notin query.asked /\ query.wanted \in {query.held, "raw"}
  IN  /\ (a.as = "file") = untouched
      /\ untouched \/ a.container =
           CASE "format" \in query.asked -> query.wanted
             [] "format" \notin query.asked /\ "pix_fmt" \in query.asked -> "raw"
             [] OTHER -> "png"
RunsQuery(query, r) ==
  query # None =>
    /\ IsQuery(query) /\ ~AsItIs(query)
    /\ r.tokens = Append(Changing(query.asked), Ending(query))
Finished(query, m, r, a) ==
  /\ RunTyped(r) /\ InStep(r)
  /\ a.as \in {"file", "pixels", "indices", "picture"}
  /\ a.as # "file" => Len(r.stack) <= 1 /\ LazyOf(r).next = Len(r.inputs) + 1
  /\ a.picture = Last(m.scopes[1].pictures)
  /\ query # None => Formatted(query, a)

(* What the pipeline is on its way to: the pictures that are meant, or what *)
(* a query comes to that is written in some other order than its tokens'.  *)
OwnWay(p, m) ==
  IF p.query # None /\ ~InTokenOrder(p.query.written)
  THEN [m EXCEPT !.scopes = <<[pictures |-> <<MadeByQuery(p.inputs[1], p.query.asked)>>, shape |-> FALSE]>>]
  ELSE m

ConvertInv ==
  /\ stage \in Stages /\ Typed(parser, meant)
  /\ stage \in {"reading", "parsed", "refused", "failed"} => run = NotRun /\ parser.query = None
  /\ stage = "reading" => ReadsOn(parser, meant)
  /\ stage = "parsed" => Agreed(parser, meant) /\ Len(meant.scopes) = 1 /\ Single(meant)
  /\ stage = "running" => Underway(parser.query, OwnWay(parser, meant), run) /\ RunsQuery(parser.query, run)
  /\ stage = "failed" => answer.as = "data"
  /\ stage = "answered" => Finished(parser.query, OwnWay(parser, meant), run, answer)

(* What the invariant says of each of the five properties.                 *)
LEMMA InvHolds ==
  ASSUME ConvertInv
  PROVE  TypeOK /\ AcceptedLineRuns /\ AnswerIsMeant /\ IndicesInStep /\ QueryGetsItsFormat
<1>1. RunTyped(run) /\ InStep(run)
  <2>1. CASE stage \in {"reading", "parsed", "refused", "failed"}
    BY <2>1, NotRunTyped DEF ConvertInv
  <2>2. CASE stage = "running"
    BY <2>2, UnderwayTyped DEF ConvertInv
  <2>3. CASE stage = "answered"
    BY <2>3 DEF ConvertInv, Finished
  <2>. QED
    BY <2>1, <2>2, <2>3 DEF ConvertInv, Stages
<1>2. TypeOK
  BY <1>1 DEF ConvertInv, Typed, RunTyped, TypeOK
<1>3. AcceptedLineRuns
  <2>1. "data" \notin StackFailures
    BY DEF StackFailures
  <2>2. Lazily = LazyOf(run)
    BY DEF Lazily, LazyOf
  <2>. QED
    BY <2>1, <2>2 DEF ConvertInv, Finished, AcceptedLineRuns
<1>4. AnswerIsMeant
  <2>. SUFFICES ASSUME stage = "answered", parser.query # None => InTokenOrder(parser.query.written)
       PROVE  answer.picture = Last(meant.scopes[1].pictures)
    BY DEF AnswerIsMeant
  <2>1. OwnWay(parser, meant) = meant
    BY DEF OwnWay
  <2>. QED
    BY <2>1 DEF ConvertInv, Finished
<1>5. IndicesInStep
  BY <1>1 DEF InStep, IndicesInStep
<1>6. QueryGetsItsFormat
  BY Zenon DEF ConvertInv, Finished, QueryGetsItsFormat, Formatted
<1>. QED
  BY <1>2, <1>3, <1>4, <1>5, <1>6

-----------------------------------------------------------------------------
(* Each step keeps it.                                                     *)
LEMMA StepRefused ==
  ASSUME Refused, run' = NotRun
  PROVE  ConvertInv'
<1>1. stage' = "refused" /\ parser' = NoLine /\ meant' = NothingMeant
  BY DEF Refused
<1>2. Told(NoLine, NothingMeant) /\ NoLine.query = None
  BY TellNothing DEF NoLine
<1>3. Agreed(NoLine, NothingMeant)
  BY <1>2, ToldAgreed DEF Told
<1>4. Typed(NoLine, NothingMeant)
  BY <1>3, AgreedTyped
<1>. QED
  BY <1>1, <1>2, <1>4 DEF ConvertInv, Stages

(* A run fails only for data that do not decode.                           *)
LEMMA StepFails ==
  ASSUME NEW why, Fails(why), why = "data"
  PROVE  ConvertInv'
<1>1. stage' = "failed" /\ parser' = NoLine /\ meant' = NothingMeant /\ run' = NotRun /\ answer' = [as |-> why]
  BY DEF Fails
<1>2. Told(NoLine, NothingMeant) /\ NoLine.query = None
  BY TellNothing DEF NoLine
<1>3. Agreed(NoLine, NothingMeant)
  BY <1>2, ToldAgreed DEF Told
<1>4. Typed(NoLine, NothingMeant)
  BY <1>3, AgreedTyped
<1>. QED
  BY <1>1, <1>2, <1>4 DEF ConvertInv, Stages

(* The output of a line changes no count: one picture and no parenthesis   *)
(* are left.                                                               *)
LEMMA OutputTells ==
  ASSUME NEW p, NEW m, Told(p, m), NEW q, IsParser(q), q.scopes = p.scopes, q.firsts = p.firsts,
         q.steps = p.steps, q.inputs = p.inputs
  PROVE  Len(p.scopes) = 1 /\ Last(p.scopes) = 1 => Agreed(q, m) /\ Len(m.scopes) = 1 /\ Single(m)
<1>. SUFFICES ASSUME Len(p.scopes) = 1, Last(p.scopes) = 1
     PROVE  Agreed(q, m) /\ Len(m.scopes) = 1 /\ Single(m)
  OBVIOUS
<1>1. Agreed(q, m)
  BY ToldAgreed
<1>2. /\ Len(p.scopes) = Len(m.scopes) /\ Last(p.scopes) = Len(m.scopes[Len(m.scopes)].pictures)
      /\ IsSeq(m.scopes)
  BY ToldIs
<1>3. Len(m.scopes) = 1 /\ Len(m.scopes[1].pictures) = 1
  BY <1>2
<1>. DEFINE held == HeldOf(m.scopes)
<1>4. IsSeq(held) /\ Len(held) = Len(m.scopes) /\ \A i \in 1..Len(m.scopes) : held[i] = m.scopes[i].pictures
  BY <1>2, HeldIs
<1>5. PICK t : Follows(t, p.steps, p.inputs, held, p.firsts)
  BY DEF Told
<1>. HIDE DEF held
<1>6. \A i \in 1..Len(held) : IsSeq(held[i])
  BY <1>5, FollowsIs
<1>7. IsSeq(m.scopes[1].pictures)
  <2>1. 1 \in 1..Len(m.scopes) /\ 1 \in 1..Len(held)
    BY <1>3, <1>4
  <2>. QED
    BY <1>4, <1>6, <2>1
<1>. QED
  BY <1>1, <1>3, <1>7 DEF Single

(* A word of a line is read.                                               *)
LEMMA StepReads ==
  ASSUME ConvertInv, Word
  PROVE  ConvertInv'
<1>1. stage = "reading" /\ UNCHANGED <<run, answer>>
  BY DEF Word, Open, Close, Merge, Output, EndOfLine, Option, SourceFile, SourceBrush, Transform, Reading
<1>2. run' = NotRun /\ ReadsOn(parser, meant)
  BY <1>1 DEF ConvertInv
<1>3. CASE Refused
  BY <1>2, <1>3, StepRefused
<1>4. CASE stage' = "reading" /\ ReadsOn(parser', meant')
  <2>. DEFINE p == parser'
              m == meant'
  <2>1. Told(p, m) /\ p.query = None
    BY <1>4 DEF ReadsOn
  <2>. HIDE DEF p, m
  <2>2. Agreed(p, m)
    BY <2>1, ToldAgreed DEF Told
  <2>3. Typed(p, m)
    BY <2>2, AgreedTyped
  <2>4. Typed(parser', meant') /\ parser'.query = None
    BY <2>1, <2>3 DEF p, m
  <2>. QED
    BY <1>2, <1>4, <2>4 DEF ConvertInv, Stages
<1>5. CASE EndOfLine
  BY <1>2, <1>5, StepRefused DEF EndOfLine
<1>6. CASE Output
  <2>1. CASE Refused
    BY <1>2, <2>1, StepRefused
  <2>2. CASE ~Refused
    <3>. DEFINE color == IF Last(parser.steps).kind \in {"nil", "pixpalette"} THEN Last(parser.steps).kind ELSE "any"
                p == [parser EXCEPT !.pending = None, !.outputColor = color]
    <3>1. /\ parser' = p /\ meant' = meant /\ stage' = "parsed"
          /\ Len(parser.scopes) = 1 /\ Last(parser.scopes) = 1
      BY <1>6, <2>2 DEF Output, CanOutput, Pictures
    <3>. HIDE DEF color
    <3>2. Told(parser, meant) /\ parser.query = None /\ IsParser(parser)
      BY <1>2 DEF ReadsOn, Told
    <3>3. /\ IsParser(p) /\ p.scopes = parser.scopes /\ p.firsts = parser.firsts /\ p.steps = parser.steps
          /\ p.inputs = parser.inputs /\ p.query = None
      BY <3>2 DEF IsParser
    <3>. HIDE DEF p
    <3>4. Agreed(p, meant) /\ Len(meant.scopes) = 1 /\ Single(meant)
      BY <3>1, <3>2, <3>3, OutputTells
    <3>5. Typed(p, meant)
      BY <3>4, AgreedTyped
    <3>6. Typed(parser', meant') /\ Agreed(parser', meant') /\ Len(meant'.scopes) = 1 /\ Single(meant')
          /\ parser'.query = None
      BY <3>1, <3>3, <3>4, <3>5
    <3>. QED
      BY <1>2, <3>1, <3>6 DEF ConvertInv, Stages
  <2>. QED
    BY <2>1, <2>2
<1>7. \/ Open \/ Close \/ Merge \/ Output \/ EndOfLine \/ (\E name \in Options : Option(name))
      \/ (\E file \in Files : SourceFile(file)) \/ (\E brush \in Shapes \cup Canvases : SourceBrush(brush))
      \/ (\E kind \in Plain : Transform(kind))
  BY DEF Word
<1>8. CASE ~EndOfLine /\ ~Output
  <2>1. Refused \/ (stage' = "reading" /\ ReadsOn(parser', meant'))
    BY <1>1, <1>2, <1>7, <1>8, ReadWords
  <2>. QED
    BY <1>3, <1>4, <2>1
<1>. QED
  BY <1>5, <1>6, <1>8, SMTT(30)

(* A query is read as tokens of the right types.                           *)
LEMMA QueryTypes ==
  ASSUME NEW p, NEW m, Told(p, m), p.steps = None, Len(p.scopes) = 1,
         NEW q, NEW query, IsQuery(query), q.scopes = p.scopes, q.firsts = p.firsts, q.query = query,
         q.steps = QueryTokens(query.asked, query.wanted), NEW n, NEW x, n.scopes = <<x>>
  PROVE  Typed(q, n)
<1>1. /\ Len(p.scopes) = Len(m.scopes) /\ Len(p.firsts) = Len(m.scopes) /\ IsSeq(p.firsts)
      /\ \A i \in 1..Len(m.scopes) : p.firsts[i] \in Leads /\ p.firsts[i].end <= Len(p.steps)
  BY ToldIs
<1>2. Len(q.steps) \in Nat
  <2>. DEFINE A == Changing(query.asked)
              end == Ending(query)
  <2>1. q.steps = A \/ q.steps = Append(A, end)
    BY TokensAre
  <2>2. IsSeq(A)
    BY ChangingIs DEF Chain
  <2>. HIDE DEF A, end
  <2>3. IsSeq(A) /\ IsSeq(Append(A, end))
    BY <2>2, SeqAppend
  <2>. QED
    BY <2>1, <2>3, SeqShape
<1>3. DOMAIN p.firsts = 1..Len(p.firsts)
  BY <1>1, SeqShape
<1>4. \A i \in DOMAIN q.firsts : q.firsts[i].end <= Len(q.steps)
  <2>1. ASSUME NEW i \in 1..Len(m.scopes) PROVE p.firsts[i].end <= Len(q.steps)
    <3>1. p.firsts[i].end \in Nat /\ p.firsts[i].end <= 0
      BY <1>1, SeqEmpty DEF Leads
    <3>. DEFINE e == p.firsts[i].end
                N == Len(q.steps)
    <3>. HIDE DEF e, N
    <3>2. e <= N
      BY <1>2, <3>1 DEF e, N
    <3>. QED
      BY <3>2 DEF e, N
  <2>. QED
    BY <1>1, <1>3, <2>1
<1>5. Len(n.scopes) = 1 /\ q.query # None
  BY SeqOne, QueryIsOne
<1>. QED
  BY <1>1, <1>4, <1>5 DEF Typed

(* The untouched file is the picture meant, in its own format.             *)
LEMMA FileFinishes ==
  ASSUME NEW query, IsQuery(query), AsItIs(query), NEW file, NEW m, NEW container, NEW color
  PROVE  m.scopes[1].pictures = <<MadeByQuery(file, query.asked)>>
           => Finished(query, m, NotRun, [as |-> "file", container |-> container, color |-> color,
                                          picture |-> Read(file, None)])
<1>. SUFFICES ASSUME m.scopes[1].pictures = <<MadeByQuery(file, query.asked)>>
     PROVE  Finished(query, m, NotRun, [as |-> "file", container |-> container, color |-> color,
                                        picture |-> Read(file, None)])
  OBVIOUS
<1>. DEFINE a == [as |-> "file", container |-> container, color |-> color, picture |-> Read(file, None)]
            x == MadeByQuery(file, query.asked)
<1>1. x = Read(file, None)
  <2>1. Chain(Changing(query.asked), x, query.asked, file, ChangeKeys)
    BY ChangingIs
  <2>2. query.asked \cap ChangeKeys = {}
    BY DEF AsItIs
  <2>. QED
    BY <2>1, <2>2 DEF Chain
<1>2. a.as = "file" /\ a.picture = Read(file, None)
  OBVIOUS
<1>. HIDE DEF a, x
<1>3. Last(m.scopes[1].pictures) = x
  <2>. DEFINE one == <<x>>
  <2>1. Len(one) = 1 /\ one[1] = x
    BY SeqOne
  <2>2. m.scopes[1].pictures = one
    BY DEF x
  <2>. HIDE DEF one
  <2>. QED
    BY <2>1, <2>2 DEF Last
<1>4. Formatted(query, a)
  <2>1. query.asked \subseteq QueryKeys
    BY DEF IsQuery
  <2>2. query.asked \ {"format", "pix_fmt"} = {}
    BY <2>1 DEF AsItIs, ChangeKeys, QueryKeys
  <2>3. "pix_fmt" \notin query.asked /\ query.wanted \in {query.held, "raw"}
    BY DEF AsItIs
  <2>. QED
    BY <1>2, <2>2, <2>3, Zenon DEF Formatted
<1>5. Finished(query, m, NotRun, a)
  BY <1>1, <1>2, <1>3, <1>4, NotRunTyped DEF Finished
<1>. QED
  BY <1>5 DEF a

(* Induction on numbers, as it was proved of the lists. *)
Numbers == INSTANCE LruProofs

(* The keys that come first in a query. *)
Earlier(written, i) == {written[j] : j \in 1..i}

(* A key later than all that were asked is done last of all.               *)
LEMMA OneMoreKey ==
  ASSUME NEW file, NEW asked, NEW m \in 1..4,
         \A n \in 1..4 : TokenOrder[n] \in asked => n < m
  PROVE  MadeByQuery(file, asked \cup {TokenOrder[m]})
           = Changed(Kind(TokenOrder[m]), Named(TokenOrder[m]), MadeByQuery(file, asked))
<1>1. TokenOrder[1] = "crop" /\ TokenOrder[2] = "size" /\ TokenOrder[3] = "resize" /\ TokenOrder[4] = "radius"
  BY DEF TokenOrder
<1>. DEFINE later == asked \cup {TokenOrder[m]}
<1>2. \A n \in 1..4 : TokenOrder[n] \in later <=> TokenOrder[n] \in asked \/ n = m
  BY <1>1
<1>3. \A n \in 1..4 : n > m => TokenOrder[n] \notin later
  BY <1>2
<1>. HIDE DEF later
<1>4. CASE m = 1
  BY <1>1, <1>2, <1>3, <1>4 DEF MadeByQuery, After
<1>5. CASE m = 2
  BY <1>1, <1>2, <1>3, <1>5 DEF MadeByQuery, After
<1>6. CASE m = 3
  BY <1>1, <1>2, <1>3, <1>6 DEF MadeByQuery, After
<1>7. CASE m = 4
  BY <1>1, <1>2, <1>3, <1>7 DEF MadeByQuery, After
<1>. QED
  BY <1>4, <1>5, <1>6, <1>7 DEF later

(* A key that is no transform does not change the picture.                 *)
LEMMA OneKeyLess ==
  ASSUME NEW file, NEW asked, NEW key, key \notin ChangeKeys
  PROVE  MadeByQuery(file, asked \cup {key}) = MadeByQuery(file, asked)
<1>. DEFINE later == asked \cup {key}
<1>1. \A k \in ChangeKeys : k \in later <=> k \in asked
  OBVIOUS
<1>. HIDE DEF later
<1>2. \A k \in ChangeKeys : \A x : After(k, later, x) = After(k, asked, x)
  BY <1>1 DEF After
<1>3. MadeByQuery(file, later) = MadeByQuery(file, asked)
  BY <1>2 DEF MadeByQuery, ChangeKeys
<1>. QED
  BY <1>3 DEF later

(* A query written in the order of its tokens means what they make.        *)
LEMMA OrderedMeans ==
  ASSUME NEW file, NEW written \in Seq(QueryKeys), InTokenOrder(written)
  PROVE  MeantByQuery(file, written) = MadeByQuery(file, ToSet(written))
<1>. DEFINE N == Len(written)
            Meant(h, i) == CASE i = 0 -> Read(file, None)
                             [] i > 0 /\ written[i] \in ChangeKeys ->
                                  Changed(Kind(written[i]), Named(written[i]), h[i - 1])
                             [] OTHER -> h[i - 1]
            g == [i \in 0..N |-> MadeByQuery(file, Earlier(written, i))]
            f == CHOOSE h : h = [i \in 0..N |-> Meant(h, i)]
<1>1. N \in Nat /\ DOMAIN written = 1..N
  OBVIOUS
<1>2. MadeByQuery(file, Earlier(written, 0)) = Read(file, None)
  <2>1. Earlier(written, 0) = {}
    BY DEF Earlier
  <2>. QED
    BY <2>1 DEF MadeByQuery, After
<1>3. ASSUME NEW i \in 1..N
      PROVE  MadeByQuery(file, Earlier(written, i)) =
               IF written[i] \in ChangeKeys
               THEN Changed(Kind(written[i]), Named(written[i]), MadeByQuery(file, Earlier(written, i - 1)))
               ELSE MadeByQuery(file, Earlier(written, i - 1))
  <2>. DEFINE before == Earlier(written, i - 1)
  <2>1. Earlier(written, i) = before \cup {written[i]}
    <3>1. 1..i = (1..(i - 1)) \cup {i}
      BY <1>1
    <3>. QED
      BY <3>1 DEF Earlier
  <2>2. CASE written[i] \in ChangeKeys
    <3>1. PICK m \in 1..4 : written[i] = TokenOrder[m]
      BY <2>2 DEF ChangeKeys, TokenOrder
    <3>2. ASSUME NEW n \in 1..4, TokenOrder[n] \in before PROVE n < m
      <4>1. PICK j \in 1..(i - 1) : written[j] = TokenOrder[n]
        BY <3>2 DEF Earlier
      <4>2. j \in DOMAIN written /\ i \in DOMAIN written /\ j < i /\ DOMAIN TokenOrder = 1..4
        BY <1>1, <4>1 DEF TokenOrder
      <4>. QED
        BY <3>1, <4>1, <4>2 DEF InTokenOrder
    <3>. HIDE DEF before
    <3>3. MadeByQuery(file, before \cup {TokenOrder[m]})
            = Changed(Kind(TokenOrder[m]), Named(TokenOrder[m]), MadeByQuery(file, before))
      BY <3>2, OneMoreKey
    <3>. QED
      BY <2>1, <2>2, <3>1, <3>3 DEF before
  <2>3. CASE written[i] \notin ChangeKeys
    <3>. HIDE DEF before
    <3>1. MadeByQuery(file, before \cup {written[i]}) = MadeByQuery(file, before)
      BY <2>3, OneKeyLess
    <3>. QED
      BY <2>1, <2>3, <3>1 DEF before
  <2>. QED
    BY <2>2, <2>3
<1>4. g = [i \in 0..N |-> Meant(g, i)]
  <2>1. ASSUME NEW i \in 0..N PROVE g[i] = Meant(g, i)
    <3>1. CASE i = 0
      BY <1>2, <3>1
    <3>2. CASE i # 0
      <4>1. i \in 1..N /\ i - 1 \in 0..N /\ i > 0
        BY <1>1, <3>2
      <4>2. g[i] = MadeByQuery(file, Earlier(written, i)) /\ g[i - 1] = MadeByQuery(file, Earlier(written, i - 1))
        BY <4>1
      <4>. HIDE DEF g
      <4>. QED
        BY <1>3, <3>2, <4>1, <4>2
    <3>. QED
      BY <3>1, <3>2
  <2>. QED
    BY <2>1
<1>. HIDE DEF g
<1>5. f = [i \in 0..N |-> Meant(f, i)]
  BY <1>4
<1>6. MeantByQuery(file, written) = f[N]
  BY DEF MeantByQuery
<1>. HIDE DEF f, Meant
<1>. DEFINE S == {i \in Nat : i <= N => f[i] = g[i]}
<1>7. \A i \in 0..N : f[i] = Meant(f, i) /\ g[i] = Meant(g, i)
  BY <1>4, <1>5
<1>8. 0 \in S
  <2>1. Meant(f, 0) = Meant(g, 0)
    BY DEF Meant
  <2>. QED
    BY <1>1, <1>7, <2>1
<1>9. ASSUME NEW i \in S PROVE i + 1 \in S
  <2>1. CASE i + 1 <= N
    <3>1. f[i] = g[i] /\ i + 1 \in 0..N /\ (i + 1) - 1 = i
      BY <1>1, <2>1
    <3>2. Meant(f, i + 1) = Meant(g, i + 1)
      BY <3>1 DEF Meant
    <3>. QED
      BY <1>7, <3>1, <3>2
  <2>2. CASE ~(i + 1 <= N)
    BY <2>2
  <2>. QED
    BY <2>1, <2>2
<1>. HIDE DEF S
<1>10. S \in SUBSET Nat
  BY DEF S
<1>11. S = Nat
  BY <1>8, <1>9, <1>10, Numbers!NatSetInduction
<1>12. f[N] = g[N]
  BY <1>1, <1>11 DEF S
<1>13. g[N] = MadeByQuery(file, Earlier(written, N))
  BY <1>1 DEF g
<1>14. Earlier(written, N) = ToSet(written)
  BY <1>1 DEF Earlier, ToSet
<1>. QED
  BY <1>6, <1>12, <1>13, <1>14

(* The queries considered are keys of a query, one after the other.        *)
LEMMA QueriesAre ==
  ASSUME NEW written \in Queries
  PROVE  written \in Seq(QueryKeys) /\ ToSet(written) \subseteq QueryKeys
<1>1. PICK n \in 0..Cardinality(Keys) : written \in [1..n -> Keys]
  BY DEF Queries, SeqOf
<1>2. n \in Nat
  BY <1>1
<1>3. written \in Seq(QueryKeys)
  BY <1>1, <1>2, ConvertAssumption
<1>. QED
  BY <1>1, <1>3, ConvertAssumption DEF ToSet

(* A query is asked: it is answered with the file, or it runs, on its way   *)
(* to the picture that its tokens make.                                    *)
LEMMA StepAsks ==
  ASSUME ConvertInv, Asks
  PROVE  ConvertInv'
<1>1. PICK file \in Files, held \in {"png", "ppm"}, written \in Queries, wanted \in {"png", "ppm", "raw"} :
        ("format" \notin ToSet(written) => wanted = held) /\ Query(file, held, written, wanted)
  BY DEF Asks
<1>. DEFINE asked == ToSet(written)
            query == [held |-> held, asked |-> asked, wanted |-> wanted, written |-> written]
            tokens == QueryTokens(asked, wanted)
            inputs == <<file>>
            y == [pictures |-> <<MeantByQuery(file, written)>>, shape |-> FALSE]
            x == [pictures |-> <<MadeByQuery(file, asked)>>, shape |-> FALSE]
            scopes == <<x>>
            p == [parser EXCEPT !.steps = tokens, !.inputs = inputs, !.query = query]
            n == [meant EXCEPT !.scopes = <<y>>]
            m == OwnWay(p, n)
            all == Append(Changing(query.asked), Ending(query))
<1>2. /\ stage = "reading" /\ parser.steps = None /\ Len(parser.scopes) = 1
      /\ parser' = p /\ meant' = n
      /\ \/ /\ tokens = None \/ AlreadyWhatWasAsked(tokens, held)
            /\ stage' = "answered" /\ answer' = Whole(file, held) /\ run' = run
         \/ /\ ~(tokens = None \/ AlreadyWhatWasAsked(tokens, held))
            /\ stage' = "running" /\ run' = Running(WithFallback(tokens, held), <<file>>)
  BY <1>1 DEF Asks, Query
<1>3. run = NotRun /\ Told(parser, meant) /\ IsParser(parser) /\ IsMeant(meant)
  BY <1>2 DEF ConvertInv, ReadsOn, Told
<1>4. IsQuery(query) /\ query.held = held /\ query.asked = asked /\ query.wanted = wanted /\ query.written = written
  BY <1>1, QueriesAre DEF IsQuery
<1>. HIDE DEF query, tokens, inputs, scopes, asked
<1>5. /\ p.scopes = parser.scopes /\ p.firsts = parser.firsts /\ p.query = query /\ p.steps = tokens
      /\ p.inputs = inputs
  BY <1>3 DEF IsParser
<1>. HIDE DEF p
<1>6. m.scopes = scopes /\ n.scopes = <<y>>
  <2>1. n.scopes = <<y>> /\ [n EXCEPT !.scopes = scopes].scopes = scopes
    BY <1>3 DEF IsMeant
  <2>2. CASE InTokenOrder(written)
    <3>1. MeantByQuery(file, written) = MadeByQuery(file, asked)
      BY <1>1, <2>2, QueriesAre, OrderedMeans DEF asked
    <3>2. y = x
      BY <3>1
    <3>. HIDE DEF n, x, y
    <3>3. m = n
      BY <1>4, <1>5, <2>2 DEF OwnWay
    <3>. QED
      BY <2>1, <3>2, <3>3 DEF scopes
  <2>3. CASE ~InTokenOrder(written)
    <3>1. p.inputs[1] = file
      BY <1>5 DEF inputs
    <3>2. query # None
      BY DEF query, None
    <3>. HIDE DEF n
    <3>3. m = [n EXCEPT !.scopes = scopes]
      BY <1>4, <1>5, <2>3, <3>1, <3>2 DEF OwnWay, scopes
    <3>. QED
      BY <2>1, <3>3
  <2>. QED
    BY <2>2, <2>3
<1>7. /\ m.scopes[1].pictures = <<MadeByQuery(file, query.asked)>> /\ m.scopes = <<x>>
      /\ tokens = QueryTokens(query.asked, query.wanted)
  <2>1. scopes[1] = x
    BY SeqOne DEF scopes
  <2>2. x.pictures = <<MadeByQuery(file, asked)>>
    OBVIOUS
  <2>. HIDE DEF m, x
  <2>. QED
    BY <1>4, <1>6, <2>1, <2>2 DEF scopes, tokens
<1>. HIDE DEF m, n, x, y
<1>8. Typed(p, n)
  BY <1>2, <1>3, <1>4, <1>5, <1>6, <1>7, QueryTypes
<1>9. (tokens = None \/ AlreadyWhatWasAsked(tokens, held)) <=> AsItIs(query)
  BY <1>4, <1>7, FileAnswers
<1>10. CASE AsItIs(query)
  <2>1. stage' = "answered" /\ answer' = Whole(file, held) /\ run' = NotRun
    BY <1>2, <1>3, <1>9, <1>10
  <2>2. Whole(file, held) = [as |-> "file", container |-> held, color |-> "any", picture |-> Read(file, None)]
    BY DEF Whole
  <2>3. Finished(query, m, NotRun, Whole(file, held))
    BY <1>4, <1>7, <1>10, <2>2, FileFinishes
  <2>4. Finished(parser'.query, OwnWay(parser', meant'), run', answer') /\ Typed(parser', meant')
    BY <1>2, <1>5, <1>8, <2>1, <2>3 DEF m
  <2>. QED
    BY <2>1, <2>4 DEF ConvertInv, Stages
<1>11. CASE ~AsItIs(query)
  <2>1. stage' = "running" /\ run' = Running(WithFallback(tokens, held), <<file>>)
    BY <1>2, <1>9, <1>11
  <2>2. WithFallback(tokens, held) = all
    BY <1>4, <1>7, TokensAre
  <2>. HIDE DEF all
  <2>3. Underway(query, m, Running(all, <<file>>))
    BY <1>4, <1>7, QueryStarts DEF all
  <2>4. RunsQuery(query, Running(all, <<file>>))
    BY <1>4, <1>11, RunningIs DEF RunsQuery, all
  <2>5. Underway(parser'.query, OwnWay(parser', meant'), run') /\ RunsQuery(parser'.query, run') /\ Typed(parser', meant')
    BY <1>2, <1>5, <1>8, <2>1, <2>2, <2>3, <2>4 DEF m
  <2>. QED
    BY <2>1, <2>5 DEF ConvertInv, Stages
<1>. QED
  BY <1>10, <1>11

(* An accepted line is built and starts to run.                            *)
LEMMA StepBuilds ==
  ASSUME ConvertInv, Build
  PROVE  ConvertInv'
<1>1. stage = "parsed" /\ run = NotRun /\ parser.query = None /\ Typed(parser, meant)
      /\ Agreed(parser, meant) /\ Len(meant.scopes) = 1 /\ Single(meant)
  BY DEF Build, ConvertInv
<1>2. CASE Refused /\ UNCHANGED run
  BY <1>1, <1>2, StepRefused
<1>3. CASE ~(Refused /\ UNCHANGED run)
  <2>. DEFINE end == Encode("output", parser.outputColor)
              r == Running(Append(parser.steps, end), parser.inputs)
  <2>1. stage' = "running" /\ run' = r /\ parser' = parser /\ meant' = meant
    BY <1>3 DEF Build
  <2>2. end.kind = "encode"
    BY DEF Encode
  <2>. HIDE DEF end
  <2>3. Underway(None, meant, r)
    BY <1>1, <2>2, LineStarts
  <2>. HIDE DEF r
  <2>4. RunsQuery(None, r)
    BY DEF RunsQuery
  <2>5. OwnWay(parser, meant) = meant
    BY <1>1 DEF OwnWay
  <2>6. Underway(parser'.query, OwnWay(parser', meant'), run') /\ RunsQuery(parser'.query, run') /\ Typed(parser', meant')
    BY <1>1, <2>1, <2>3, <2>4, <2>5
  <2>. QED
    BY <2>1, <2>6 DEF ConvertInv, Stages
<1>. QED
  BY <1>2, <1>3

(* A run that is underway still is: all else is as it was.                 *)
LEMMA StepGoes ==
  ASSUME ConvertInv, stage = "running", UNCHANGED <<stage, parser, meant, answer>>,
         Underway(parser.query, OwnWay(parser, meant), run'), run'.tokens = run.tokens
  PROVE  ConvertInv'
<1>1. RunsQuery(parser.query, run) /\ Typed(parser, meant)
  BY DEF ConvertInv
<1>2. RunsQuery(parser.query, run')
  BY <1>1 DEF RunsQuery
<1>. QED
  BY <1>1, <1>2 DEF ConvertInv, Stages

(* What Goes leaves alone.                                                 *)
LEMMA GoesIs ==
  ASSUME NEW stack, NEW next, IsRun(run), Goes(stack, next)
  PROVE  /\ run' = [run EXCEPT !.at = @ + 1, !.stack = stack, !.next = next] /\ run'.tokens = run.tokens
         /\ UNCHANGED <<stage, parser, meant, answer>>
<1>1. run' = [run EXCEPT !.at = @ + 1, !.stack = stack, !.next = next]
  BY DEF Goes
<1>2. run' = [tokens |-> run.tokens, at |-> run.at + 1, inputs |-> run.inputs, next |-> next, stack |-> stack, scopes |-> run.scopes]
  BY <1>1, GoesTo
<1>3. run'.tokens = run.tokens
  BY <1>2
<1>. QED
  BY <1>1, <1>3 DEF Goes

(* A token of the kind that is looked for is the next of a run underway.   *)
LEMMA RunsIs ==
  ASSUME NEW kinds, ConvertInv, RunsA(kinds)
  PROVE  /\ stage = "running" /\ Underway(parser.query, OwnWay(parser, meant), run) /\ IsRun(run)
         /\ run.at <= Len(run.tokens) /\ run.tokens[run.at].kind \in kinds
BY DEF ConvertInv, RunsA, Token, Underway

(* A token passes by.                                                      *)
LEMMA StepNothing ==
  ASSUME ConvertInv, RunNothing
  PROVE  ConvertInv'
<1>1. /\ stage = "running" /\ Underway(parser.query, OwnWay(parser, meant), run) /\ IsRun(run)
      /\ run.at <= Len(run.tokens) /\ run.tokens[run.at].kind \in {"source", "encode"}
  BY RunsIs DEF RunNothing
<1>2. /\ run' = [run EXCEPT !.at = @ + 1, !.stack = run.stack, !.next = run.next] /\ run'.tokens = run.tokens
      /\ UNCHANGED <<stage, parser, meant, answer>>
  BY <1>1, GoesIs, ZenonT(60) DEF RunNothing
<1>3. Underway(parser.query, OwnWay(parser, meant), run')
  BY <1>1, <1>2, UnderwayRests
<1>. QED
  BY <1>1, <1>2, <1>3, StepGoes

(* A token decodes.                                                        *)
LEMMA StepDecodes ==
  ASSUME ConvertInv, RunDecode
  PROVE  ConvertInv'
<1>1. /\ stage = "running" /\ Underway(parser.query, OwnWay(parser, meant), run) /\ IsRun(run)
      /\ run.at <= Len(run.tokens) /\ run.tokens[run.at].kind = "decode"
  <2>1. RunsA({"decode"})
    BY DEF RunDecode
  <2>2. \A k : k \in {"decode"} => k = "decode"
    BY SMTT(30)
  <2>. QED
    BY <2>1, <2>2, RunsIs
<1>2. ~(run.next > Len(run.inputs))
  BY <1>1, UnderwayDecodes
<1>3. CASE Fails("data")
  BY <1>3, StepFails
<1>4. CASE ~Fails("data")
  <2>. DEFINE p == Native(Read(run.inputs[run.next], run.tokens[run.at].options))
  <2>1. Goes(Append(run.stack, p), run.next + 1)
    BY <1>2, <1>4 DEF RunDecode, Token
  <2>2. /\ run' = [run EXCEPT !.at = @ + 1, !.stack = Append(run.stack, p), !.next = run.next + 1]
        /\ run'.tokens = run.tokens /\ UNCHANGED <<stage, parser, meant, answer>>
    BY <1>1, <2>1, GoesIs, ZenonT(60)
  <2>3. Underway(parser.query, OwnWay(parser, meant), run')
    BY <1>1, <2>2, UnderwayDecodes
  <2>. QED
    BY <1>1, <2>2, <2>3, StepGoes
<1>. QED
  BY <1>3, <1>4

(* A token generates.                                                      *)
LEMMA StepGenerates ==
  ASSUME ConvertInv, RunGenerate
  PROVE  ConvertInv'
<1>1. /\ stage = "running" /\ Underway(parser.query, OwnWay(parser, meant), run) /\ IsRun(run)
      /\ run.at <= Len(run.tokens) /\ run.tokens[run.at].kind = "generate"
  <2>1. RunsA({"generate"})
    BY DEF RunGenerate
  <2>2. \A k : k \in {"generate"} => k = "generate"
    OBVIOUS
  <2>. QED
    BY <2>1, <2>2, RunsIs
<1>3. CASE Fails("data")
  BY <1>3, StepFails
<1>4. CASE ~Fails("data")
  <2>. DEFINE size == IF /\ "size" \notin Names(run.tokens[run.at].options)
                         /\ SizeFallsBack(run.tokens[run.at].brush)
                         /\ Len(run.stack) > Last(run.scopes)
                      THEN Pixels(Last(run.stack)) ELSE None
              p == Native(Paint(run.tokens[run.at].brush, run.tokens[run.at].options, size))
  <2>1. Goes(Append(run.stack, p), run.next)
    BY <1>4 DEF RunGenerate, Token
  <2>2. /\ run' = [run EXCEPT !.at = @ + 1, !.stack = Append(run.stack, p), !.next = run.next]
        /\ run'.tokens = run.tokens /\ UNCHANGED <<stage, parser, meant, answer>>
    BY <1>1, <2>1, GoesIs, ZenonT(60)
  <2>3. Underway(parser.query, OwnWay(parser, meant), run')
    BY <1>1, <2>2, UnderwayGenerates
  <2>. QED
    BY <1>1, <2>2, <2>3, StepGoes
<1>. QED
  BY <1>3, <1>4

(* A token transforms.                                                     *)
LEMMA StepChanges ==
  ASSUME ConvertInv, RunChange
  PROVE  ConvertInv'
<1>1. /\ stage = "running" /\ Underway(parser.query, OwnWay(parser, meant), run) /\ IsRun(run)
      /\ run.at <= Len(run.tokens) /\ run.tokens[run.at].kind \in PlainKinds
  BY RunsIs, ZenonT(60) DEF RunChange
<1>. DEFINE lazy == LazyOf(run)
<1>2. Inside(lazy.stack, run.scopes) # None
  BY <1>1, UnderwayChanges
<1>3. CASE Fails("data")
  BY <1>3, StepFails
<1>4. CASE ~Fails("data")
  <2>0. Lazily = lazy /\ InScope(lazy.stack) = Inside(lazy.stack, run.scopes)
    BY DEF Lazily, LazyOf, InScope, Inside
  <2>. HIDE DEF lazy
  <2>1. PICK p \in ChangesOf(Last(lazy.stack), run.tokens[run.at]) : Goes(SetTop(lazy.stack, p), lazy.next)
    BY <1>2, <1>4, <2>0 DEF RunChange, Token
  <2>2. /\ run' = [run EXCEPT !.at = @ + 1, !.stack = SetTop(lazy.stack, p), !.next = lazy.next]
        /\ run'.tokens = run.tokens /\ UNCHANGED <<stage, parser, meant, answer>>
    BY <1>1, <2>1, GoesIs, ZenonT(60)
  <2>3. Underway(parser.query, OwnWay(parser, meant), run')
    BY <1>1, <2>1, <2>2, UnderwayChanges DEF lazy
  <2>. QED
    BY <1>1, <2>2, <2>3, StepGoes
<1>. QED
  BY <1>3, <1>4

(* A token merges.                                                         *)
LEMMA StepMerges ==
  ASSUME ConvertInv, RunMerge
  PROVE  ConvertInv'
<1>1. /\ stage = "running" /\ Underway(parser.query, OwnWay(parser, meant), run) /\ IsRun(run)
      /\ run.at <= Len(run.tokens) /\ run.tokens[run.at].kind = "composite"
  <2>1. RunsA({"composite"})
    BY DEF RunMerge
  <2>2. \A k : k \in {"composite"} => k = "composite"
    OBVIOUS
  <2>. QED
    BY <2>1, <2>2, RunsIs
<1>. DEFINE lazy == LazyOf(run)
            here == Inside(lazy.stack, run.scopes)
            after == Append(SubSeq(lazy.stack, 1, Last(run.scopes)), Joined(here, run.tokens[run.at].options))
<1>2. here # None /\ Len(here) \in 2..4
  BY <1>1, UnderwayMerges
<1>3. CASE Fails("data")
  BY <1>3, StepFails
<1>4. CASE ~Fails("data")
  <2>0. Lazily = lazy /\ InScope(lazy.stack) = here
    BY DEF Lazily, LazyOf, InScope, Inside
  <2>. HIDE DEF lazy, here
  <2>1. Goes(after, lazy.next)
    BY <1>2, <1>4, <2>0, Zenon DEF RunMerge, Token
  <2>2. /\ run' = [run EXCEPT !.at = @ + 1, !.stack = after, !.next = lazy.next]
        /\ run'.tokens = run.tokens /\ UNCHANGED <<stage, parser, meant, answer>>
    BY <1>1, <2>1, GoesIs
  <2>3. Underway(parser.query, OwnWay(parser, meant), run')
    BY <1>1, <2>2, UnderwayMerges DEF lazy, here
  <2>. QED
    BY <1>1, <2>2, <2>3, StepGoes
<1>. QED
  BY <1>3, <1>4

(* A token opens a scope.                                                  *)
LEMMA StepOpens ==
  ASSUME ConvertInv, RunOpen
  PROVE  ConvertInv'
<1>1. /\ stage = "running" /\ Underway(parser.query, OwnWay(parser, meant), run) /\ IsRun(run)
      /\ run.at <= Len(run.tokens) /\ run.tokens[run.at].kind = "open"
  <2>1. RunsA({"open"})
    BY DEF RunOpen
  <2>2. \A k : k \in {"open"} => k = "open"
    OBVIOUS
  <2>. QED
    BY <2>1, <2>2, RunsIs
<1>2. /\ run' = [run EXCEPT !.at = @ + 1, !.scopes = Append(@, Len(run.stack))]
      /\ UNCHANGED <<stage, parser, meant, answer>>
  BY DEF RunOpen
<1>3. run'.tokens = run.tokens
  BY <1>1, <1>2, ScopesTo, ZenonT(60)
<1>4. Underway(parser.query, OwnWay(parser, meant), run')
  BY <1>1, <1>2, UnderwayOpens
<1>. QED
  BY <1>1, <1>2, <1>3, <1>4, StepGoes

(* A token closes one.                                                     *)
LEMMA StepCloses ==
  ASSUME ConvertInv, RunClose
  PROVE  ConvertInv'
<1>1. /\ stage = "running" /\ Underway(parser.query, OwnWay(parser, meant), run) /\ IsRun(run)
      /\ run.at <= Len(run.tokens) /\ run.tokens[run.at].kind = "close"
  <2>1. RunsA({"close"})
    BY DEF RunClose
  <2>2. \A k : k \in {"close"} => k = "close"
    OBVIOUS
  <2>. QED
    BY <2>1, <2>2, RunsIs
<1>2. Len(run.scopes) # 1
  BY <1>1, UnderwayCloses
<1>3. /\ run' = [run EXCEPT !.at = @ + 1, !.scopes = Front(@)]
      /\ UNCHANGED <<stage, parser, meant, answer>>
  BY <1>2 DEF RunClose
<1>4. run'.tokens = run.tokens
  BY <1>1, <1>3, ScopesTo, ZenonT(60)
<1>5. Underway(parser.query, OwnWay(parser, meant), run')
  BY <1>1, <1>3, UnderwayCloses
<1>. QED
  BY <1>1, <1>3, <1>4, <1>5, StepGoes

(* The format a query ends in.                                             *)
Untouched(query) ==
  query.asked \ {"format", "pix_fmt"} = {} /\ "pix_fmt" \notin query.asked /\ query.wanted \in {query.held, "raw"}
Direct(r) ==
  /\ Last(r.tokens).container = "raw" /\ Last(r.tokens).color = "any" /\ r.stack = None /\ r.next = 1
  /\ Len(r.inputs) = 1

(* The format that a query ends with, and when it is raw pixels as they    *)
(* are.                                                                    *)
LEMMA EndingIs ==
  ASSUME NEW query, IsQuery(query)
  PROVE  /\ Ending(query).container =
              CASE "format" \in query.asked -> query.wanted
                [] "format" \notin query.asked /\ "pix_fmt" \in query.asked -> "raw"
                [] OTHER -> "png"
         /\ Ending(query).container = "raw" /\ Ending(query).color = "any"
              <=> "format" \in query.asked /\ "pix_fmt" \notin query.asked /\ query.wanted = "raw"
<1>. DEFINE end == Ending(query)
<1>0. \A c, k : Encode(c, k).container = c /\ Encode(c, k).color = k
  BY DEF Encode
<1>1. query.held \in {"png", "ppm"}
  BY DEF IsQuery
<1>2. CASE "format" \in query.asked
  <2>1. end = Encode(query.wanted, IF "pix_fmt" \in query.asked THEN "rgb565" ELSE "any")
    BY <1>2 DEF Ending
  <2>. HIDE DEF end
  <2>2. end.container = query.wanted /\ end.color = (IF "pix_fmt" \in query.asked THEN "rgb565" ELSE "any")
    BY <1>0, <2>1
  <2>3. end.container = "raw" /\ end.color = "any" <=> "pix_fmt" \notin query.asked /\ query.wanted = "raw"
    BY <2>2
  <2>. QED
    BY <1>2, <2>2, <2>3, Zenon DEF end
<1>3. CASE "format" \notin query.asked /\ "pix_fmt" \in query.asked
  <2>1. end = Encode("raw", "rgb565")
    BY <1>3 DEF Ending
  <2>. HIDE DEF end
  <2>2. end.container = "raw" /\ end.color = "rgb565" /\ end.color # "any"
    BY <1>0, <2>1
  <2>. QED
    BY <1>3, <2>2, Zenon DEF end
<1>4. CASE "format" \notin query.asked /\ "pix_fmt" \notin query.asked
  <2>1. end = Encode("png", "any")
    BY <1>1, <1>4 DEF Ending
  <2>. HIDE DEF end
  <2>2. end.container = "png" /\ end.container # "raw"
    BY <1>0, <2>1
  <2>. QED
    BY <1>4, <2>2, Zenon DEF end
<1>. QED
  BY <1>2, <1>3, <1>4

(* At the end of a query, raw bytes go out undecoded exactly when raw was  *)
(* asked for and nothing else.                                             *)
LEMMA QueryEnds ==
  ASSUME NEW query, NEW m, NEW r, Underway(query, m, r), r.at > Len(r.tokens), RunsQuery(query, r), query # None
  PROVE  /\ Direct(r) <=> Untouched(query)
         /\ Last(r.tokens).container =
              CASE "format" \in query.asked -> query.wanted
                [] "format" \notin query.asked /\ "pix_fmt" \in query.asked -> "raw"
                [] OTHER -> "png"
<1>. DEFINE A == Changing(query.asked)
            end == Ending(query)
            tokens == r.tokens
<1>1. IsQuery(query) /\ ~AsItIs(query) /\ tokens = Append(A, end)
  BY DEF RunsQuery
<1>2. /\ IsSeq(A) /\ (\A i \in 1..Len(A) : A[i].kind \in {"crop", "resize", "radius"})
      /\ (A = None <=> query.asked \cap ChangeKeys = {})
  <2>1. Chain(A, MadeByQuery(0, query.asked), query.asked, 0, ChangeKeys)
    BY ChangingIs
  <2>. QED
    BY <2>1 DEF Chain
<1>. HIDE DEF A, end
<1>3. /\ IsSeq(tokens) /\ Len(tokens) = Len(A) + 1 /\ (\A i \in 1..Len(A) : tokens[i] = A[i]) /\ tokens[Len(A) + 1] = end
      /\ Len(A) \in Nat /\ (A = None <=> Len(A) = 0)
  <2>1. /\ IsSeq(Append(A, end)) /\ Len(Append(A, end)) = Len(A) + 1
        /\ (\A i \in 1..Len(A) : Append(A, end)[i] = A[i]) /\ Append(A, end)[Len(A) + 1] = end
    BY <1>2, SeqAppend
  <2>2. Len(A) \in Nat /\ (A = None <=> Len(A) = 0)
    BY <1>2, SeqShape
  <2>. QED
    BY <1>1, <2>1, <2>2
<1>4. Last(tokens) = end
  BY <1>3 DEF Last
<1>5. end.kind = "encode"
  BY DEF Ending, Encode, end
<1>6. /\ Len(r.inputs) = 1 /\ (r.stack = None => r.next = 1)
      /\ (r.stack = None <=> \A i \in 1..Len(tokens) : i < r.at => tokens[i].kind = "encode")
  BY DEF Underway, Queried
<1>7. \A i \in 1..Len(tokens) : i < r.at
  <2>1. r.at \in Nat
    <3>1. PICK t : Tracks(query, m, r, t)
      BY DEF Underway
    <3>2. r.at \in 1..Len(tokens) + 1
      BY <3>1 DEF Tracks
    <3>. QED
      BY <1>3, <3>2
  <2>2. Len(tokens) \in Nat
    BY <1>3
  <2>. QED
    BY <2>1, <2>2
<1>8. r.stack = None <=> A = None
  <2>1. CASE A = None
    <3>1. \A i \in 1..Len(tokens) : i = Len(A) + 1
      BY <1>3, <2>1
    <3>2. \A i \in 1..Len(tokens) : tokens[i].kind = "encode"
      BY <1>3, <1>5, <3>1
    <3>. QED
      BY <1>6, <2>1, <3>2
  <2>2. CASE A # None
    <3>1. 1 \in 1..Len(A) /\ 1 \in 1..Len(tokens)
      BY <1>3, <2>2
    <3>2. tokens[1].kind # "encode"
      BY <1>2, <1>3, <3>1
    <3>. QED
      BY <1>6, <1>7, <2>2, <3>1, <3>2
  <2>. QED
    BY <2>1, <2>2
<1>9. A = None <=> query.asked \ {"format", "pix_fmt"} = {}
  <2>1. query.asked \subseteq QueryKeys
    BY <1>1 DEF IsQuery
  <2>2. query.asked \cap ChangeKeys = query.asked \ {"format", "pix_fmt"}
    BY <2>1 DEF QueryKeys, ChangeKeys
  <2>. QED
    BY <1>2, <2>2
<1>10. end.container = "raw" /\ end.color = "any"
         <=> "format" \in query.asked /\ "pix_fmt" \notin query.asked /\ query.wanted = "raw"
  BY <1>1, EndingIs DEF end
<1>11. Direct(r) <=> A = None /\ end.container = "raw" /\ end.color = "any"
  BY <1>4, <1>6, <1>8 DEF Direct
<1>12. query.wanted = query.held => ~(A = None /\ "pix_fmt" \notin query.asked)
  BY <1>1, <1>2 DEF AsItIs
<1>13. ("format" \notin query.asked => query.wanted = query.held) /\ query.held # "raw"
  BY <1>1 DEF IsQuery
<1>14. Direct(r) <=> Untouched(query)
  BY <1>9, <1>10, <1>11, <1>12, <1>13 DEF Untouched
<1>. QED
  BY <1>1, <1>4, <1>14, EndingIs DEF end

(* The answer at the end of a run is finished: in its bounds, of the       *)
(* picture meant and in the format asked for.                              *)
LEMMA EndFinishes ==
  ASSUME NEW query, NEW m, NEW r, Underway(query, m, r), r.at > Len(r.tokens), RunsQuery(query, r),
         NEW a, a.as \in {"file", "pixels", "indices", "picture"}, a.picture = Last(m.scopes[1].pictures),
         a.as = "file" <=> Direct(r), a.as # "file" => a.container = Last(r.tokens).container
  PROVE  Finished(query, m, r, a)
<1>1. RunTyped(r) /\ InStep(r)
  BY UnderwayTyped
<1>2. Len(r.stack) <= 1 /\ LazyOf(r).next = Len(r.inputs) + 1
  BY UnderwayEnds
<1>3. ASSUME query # None PROVE Formatted(query, a)
  <2>1. /\ Direct(r) <=> Untouched(query)
        /\ Last(r.tokens).container =
             CASE "format" \in query.asked -> query.wanted
               [] "format" \notin query.asked /\ "pix_fmt" \in query.asked -> "raw"
               [] OTHER -> "png"
    BY <1>3, QueryEnds
  <2>2. (a.as = "file") = Untouched(query)
    <3>1. (a.as = "file") <=> Untouched(query)
      BY <2>1
    <3>2. Untouched(query) \in BOOLEAN
      BY DEF Untouched
    <3>. QED
      BY <3>1, <3>2
  <2>3. CASE Untouched(query)
    BY <2>2, <2>3, Zenon DEF Formatted, Untouched
  <2>4. CASE ~Untouched(query)
    <3>1. a.container = Last(r.tokens).container
      BY <2>1, <2>4
    <3>. QED
      BY <2>1, <2>2, <2>4, <3>1, Zenon DEF Formatted, Untouched
  <2>. QED
    BY <2>3, <2>4
<1>. QED
  BY <1>1, <1>2, <1>3 DEF Finished

(* The bytes that go out undecoded are those of the picture meant.         *)
LEMMA DirectShows ==
  ASSUME NEW query, NEW m, NEW r, Underway(query, m, r), r.at > Len(r.tokens), Direct(r)
  PROVE  Read(r.inputs[1], None) = Last(m.scopes[1].pictures)
<1>. DEFINE x == Read(r.inputs[1], None)
            stack == <<Native(x)>>
<1>1. Shows(LazyOf(r).stack[1], Last(m.scopes[1].pictures))
  BY UnderwayEnds
<1>2. r.stack = None /\ r.next = 1 /\ r.inputs # None
  <2>1. r.stack = None /\ r.next = 1 /\ Len(r.inputs) = 1
    BY DEF Direct
  <2>2. Len(None) = 0
    BY SeqEmpty
  <2>3. Len(r.inputs) # Len(None)
    BY <2>1, <2>2
  <2>. QED
    BY <2>1, <2>3
<1>3. LazyOf(r).stack = stack
  BY <1>2 DEF LazyOf
<1>4. stack[1] = Native(x)
  BY SeqOne
<1>5. Shows(Native(x), x)
  BY NativeShows, PicturesAre
<1>. QED
  BY <1>1, <1>3, <1>4, <1>5 DEF Shows

(* An answer that is finished keeps the invariant.                         *)
LEMMA StepFinishes ==
  ASSUME ConvertInv, stage = "running", stage' = "answered", UNCHANGED <<run, parser, meant>>,
         Finished(parser.query, OwnWay(parser, meant), run, answer')
  PROVE  ConvertInv'
BY DEF ConvertInv, Stages

(* An answer in pixels, in indices or as a picture.                        *)
LEMMA StepAnswers ==
  ASSUME ConvertInv, stage = "running", run.at > Len(run.tokens), ~Direct(run),
         NEW as \in {"pixels", "indices", "picture"}, NEW color, NEW picture, Answers(as, color, picture),
         picture = Last(OwnWay(parser, meant).scopes[1].pictures)
  PROVE  ConvertInv'
<1>1. Underway(parser.query, OwnWay(parser, meant), run) /\ RunsQuery(parser.query, run)
  BY DEF ConvertInv
<1>. DEFINE a == [as |-> as, container |-> Last(run.tokens).container, color |-> color, picture |-> picture]
<1>2. stage' = "answered" /\ UNCHANGED <<run, parser, meant>> /\ answer' = a
  BY DEF Answers
<1>3. a.as = as /\ a.container = Last(run.tokens).container /\ a.picture = picture /\ as # "file"
  OBVIOUS
<1>. HIDE DEF a
<1>4. Finished(parser.query, OwnWay(parser, meant), run, a)
  <2>1. a.as \in {"file", "pixels", "indices", "picture"} /\ a.as # "file" /\ ~Direct(run)
        /\ a.picture = Last(OwnWay(parser, meant).scopes[1].pictures)
    BY <1>3
  <2>2. a.as = "file" <=> Direct(run)
    BY <2>1
  <2>3. a.as # "file" => a.container = Last(run.tokens).container
    BY <1>3
  <2>. QED
    BY <1>1, <2>1, <2>2, <2>3, EndFinishes
<1>. QED
  BY <1>2, <1>4, StepFinishes

(* A run ends.                                                             *)
LEMMA StepEnds ==
  ASSUME ConvertInv, RunEnd
  PROVE  ConvertInv'
<1>. DEFINE stack == LazyOf(run).stack
            end == Last(run.tokens)
            p == stack[1]
            x == Last(OwnWay(parser, meant).scopes[1].pictures)
<1>1. /\ stage = "running" /\ run.at > Len(run.tokens)
      /\ Underway(parser.query, OwnWay(parser, meant), run) /\ RunsQuery(parser.query, run)
  BY DEF RunEnd, ConvertInv
<1>2. Len(stack) = 1 /\ Shows(p, x) /\ (run.stack = None => parser.query # None)
  BY <1>1, UnderwayEnds
<1>3. Pixels(p) = x /\ (p.indexed # None => p.indexed = x)
  BY <1>2, RgbaIs DEF Shows
<1>4. Lazily.stack = stack
  BY DEF Lazily, LazyOf
<1>5. CASE Direct(run)
  <2>. DEFINE a == Whole(run.inputs[1], parser.query.held)
  <2>1. stage' = "answered" /\ UNCHANGED <<run, parser, meant>> /\ answer' = a
    BY <1>5 DEF RunEnd, Direct
  <2>2. a.as = "file" /\ a.picture = Read(run.inputs[1], None)
    BY DEF Whole
  <2>. HIDE DEF a, x
  <2>3. Read(run.inputs[1], None) = x
    BY <1>1, <1>5, DirectShows DEF x
  <2>4. Finished(parser.query, OwnWay(parser, meant), run, a)
    BY <1>1, <1>5, <2>2, <2>3, EndFinishes DEF x
  <2>. QED
    BY <1>1, <2>1, <2>4, StepFinishes
<1>6. CASE ~Direct(run)
  <2>. HIDE DEF stack, end, x
  <2>1. \/ Fails("data")
        \/ Answers("pixels", IF end.color = "any" THEN "rgba8888" ELSE end.color, Pixels(p))
        \/ AsIndices(p, end.color) /\ Answers("indices", end.color, p.indexed)
        \/ Answers("picture", end.color, Pixels(p))
    BY <1>2, <1>4, <1>6 DEF RunEnd, Direct, end
  <2>2. CASE Fails("data")
    BY <2>2, StepFails
  <2>3. CASE Answers("pixels", IF end.color = "any" THEN "rgba8888" ELSE end.color, Pixels(p))
    BY <1>1, <1>3, <1>6, <2>3, StepAnswers DEF x
  <2>4. CASE AsIndices(p, end.color) /\ Answers("indices", end.color, p.indexed)
    BY <1>1, <1>3, <1>6, <2>4, StepAnswers DEF x, AsIndices
  <2>5. CASE Answers("picture", end.color, Pixels(p))
    BY <1>1, <1>3, <1>6, <2>5, StepAnswers DEF x
  <2>. QED
    BY <2>1, <2>2, <2>3, <2>4, <2>5
<1>. QED
  BY <1>5, <1>6

(* Nothing read yet.                                                       *)
LEMMA InvStarts ==
  ASSUME Init
  PROVE  ConvertInv
<1>1. stage = "reading" /\ parser = NoLine /\ meant = NothingMeant /\ run = NotRun
  BY DEF Init
<1>2. Told(NoLine, NothingMeant) /\ NoLine.query = None
  BY TellNothing DEF NoLine
<1>3. Agreed(NoLine, NothingMeant)
  BY <1>2, ToldAgreed DEF Told
<1>4. Typed(NoLine, NothingMeant)
  BY <1>3, AgreedTyped
<1>. QED
  BY <1>1, <1>2, <1>4 DEF ConvertInv, Stages, ReadsOn

(* Every action keeps the invariant.                                       *)
LEMMA InvSteps ==
  ASSUME ConvertInv, [Next]_vars
  PROVE  ConvertInv'
<1>1. CASE Word
  BY <1>1, StepReads
<1>2. CASE Asks
  BY <1>2, StepAsks
<1>3. CASE Build
  BY <1>3, StepBuilds
<1>4. CASE RunNothing
  BY <1>4, StepNothing
<1>5. CASE RunDecode
  BY <1>5, StepDecodes
<1>6. CASE RunGenerate
  BY <1>6, StepGenerates
<1>7. CASE RunChange
  BY <1>7, StepChanges
<1>8. CASE RunMerge
  BY <1>8, StepMerges
<1>9. CASE RunOpen
  BY <1>9, StepOpens
<1>10. CASE RunClose
  BY <1>10, StepCloses
<1>11. CASE RunEnd
  BY <1>11, StepEnds
<1>12. CASE UNCHANGED vars
  BY <1>12 DEF vars, ConvertInv
<1>. QED
  BY <1>1, <1>2, <1>3, <1>4, <1>5, <1>6, <1>7, <1>8, <1>9, <1>10, <1>11, <1>12 DEF Next, Run

(* The parser's steps are at every word a way to the pictures meant, and   *)
(* runPipeline is at every token where that way is: ConvertInv, whatever   *)
(* is read and whatever runs.                                              *)
THEOREM Invariant == Spec => []ConvertInv
<1>1. Init => ConvertInv
  BY InvStarts
<1>2. ConvertInv /\ [Next]_vars => ConvertInv'
  BY InvSteps
<1>. QED
  BY <1>1, <1>2, PTL DEF Spec

(* The parser's counts and leads are those of the pictures that are meant, *)
(* and the pipeline's scopes and inputs are within what there is: TypeOK,  *)
(* for any words, however many.                                            *)
THEOREM Typing == Spec => []TypeOK
<1>1. ConvertInv => TypeOK
  BY InvHolds
<1>. QED
  BY <1>1, Invariant, PTL

(* A line the parser lets through never meets a pipeline without the       *)
(* pictures it counted: the Reader of parser.cpp, its rewriting of a shape *)
(* into more steps included, and runPipeline agree on every parenthesis.   *)
THEOREM LinesRun == Spec => []AcceptedLineRuns
<1>1. ConvertInv => AcceptedLineRuns
  BY InvHolds
<1>. QED
  BY <1>1, Invariant, PTL

(* What comes out of runPipeline is the picture the words describe, and    *)
(* the picture a query describes whose transforms are written in the order *)
(* that toPipeline always runs them in.  Of the queries written in another *)
(* order this says nothing.                                                *)
THEOREM Meaning == Spec => []AnswerIsMeant
<1>1. ConvertInv => AnswerIsMeant
  BY InvHolds
<1>. QED
  BY <1>1, Invariant, PTL

(* The indices runPipeline keeps beside a picture are that same picture.   *)
THEOREM Indices == Spec => []IndicesInStep
<1>1. ConvertInv => IndicesInStep
  BY InvHolds
<1>. QED
  BY <1>1, Invariant, PTL

(* A query is answered in the format it asked for, or else its file's, and *)
(* with the untouched file only when nothing else was asked of it.         *)
THEOREM Formats == Spec => []QueryGetsItsFormat
<1>1. ConvertInv => QueryGetsItsFormat
  BY InvHolds
<1>. QED
  BY <1>1, Invariant, PTL
=============================================================================
