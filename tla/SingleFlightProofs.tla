------------------------- MODULE SingleFlightProofs -------------------------
(***************************************************************************)
(* Proofs about SingleFlight, for every set of callers, keys and answers,  *)
(* and for producers that may or may not end inline.                       *)
(***************************************************************************)
EXTENDS SingleFlight, SequenceTheorems, FiniteSetTheorems, TLAPS

(* What the map of flights says of the callers, and back. *)
FlightsOk ==
  /\ \A c \in Callers : pc[c] # "idle" => key[c] \in Keys
  /\ \A c \in Callers : pc[c] = "producing" => inFlight[key[c]] = c
  /\ \A k \in Keys : inFlight[k] # None =>
       /\ pc[inFlight[k]] = "producing"
       /\ key[inFlight[k]] = k
       /\ ~pending[inFlight[k]].set

(* A caller waits exactly where it is listed, on the flight of its key. *)
WaitersOk ==
  /\ \A c \in Callers : pc[c] = "waiting" =>
       /\ on[c] \in Callers
       /\ inFlight[key[c]] = on[c]
       /\ c \in Range(pending[on[c]].waiters)
  /\ \A l, c \in Callers : c \in Range(pending[l].waiters) => pc[c] = "waiting" /\ on[c] = l

(* Who is on the stack, and that a woken caller's Pending is still the one
   it was woken by: its leader is not idle, so it cannot lead another. *)
StackOk ==
  /\ \A c \in Callers : pc[c] \in {"woken", "returning"} => c \in Range(ready)
  /\ \A c \in Callers : pc[c] = "woken" =>
       /\ on[c] \in Callers
       /\ pc[on[c]] \in {"returning", "served"}
       /\ key[on[c]] = key[c]

(* Whoever is going to answer c ran while c was asking. *)
HistoryOk ==
  /\ \A c \in Callers : pc[c] \in {"waiting", "woken"} => on[c] \in shared[c]
  /\ \A c \in Callers : pc[c] \in {"producing", "returning"} => c \in shared[c]
  /\ \A c \in Callers : pc[c] = "served" => got[c].by \in shared[c]
  /\ \A c \in Callers : pc[c] # "served" => got[c] = Nothing

IInv == TypeOK /\ FlightsOk /\ WaitersOk /\ StackOk /\ HistoryOk
-----------------------------------------------------------------------------
(* The empty sequence and the sequence of one. *)
LEMMA RangeSmall ==
  ASSUME NEW S, NEW x \in S
  PROVE  Range(<<>>) = {} /\ Range(<<x>>) = {x} /\ <<>> \in Seq(S) /\ <<x>> \in Seq(S)
BY DEF Range

(* Appending adds one element to a sequence's range. *)
LEMMA RangeAppend ==
  ASSUME NEW S, NEW s \in Seq(S), NEW x \in S
  PROVE  Append(s, x) \in Seq(S) /\ Range(Append(s, x)) = Range(s) \cup {x}
<1>1. <<x>> \in Seq(S) /\ Range(<<x>>) = {x}
  BY RangeSmall
<1>2. Range(s \o <<x>>) = Range(s) \cup Range(<<x>>)
  BY <1>1, RangeConcatenation, ZenonT(60)
<1>3. Append(s, x) = s \o <<x>>
  BY AppendIsConcat
<1>5. Append(s, x) \in Seq(S)
  OBVIOUS
<1> QED
  BY <1>1, <1>2, <1>3, <1>5

(* What a sequence holds is its head and what its tail holds. *)
LEMMA RangeHeadTail ==
  ASSUME NEW S, NEW s \in Seq(S), s # <<>>
  PROVE  /\ Head(s) \in S /\ Tail(s) \in Seq(S)
         /\ Range(s) = {Head(s)} \cup Range(Tail(s))
<1>1. Head(s) \in S /\ Tail(s) \in Seq(S) /\ s = <<Head(s)>> \o Tail(s)
  OBVIOUS
<1>2. PICK one \in Seq(S) : one = <<Head(s)>> /\ Range(one) = {Head(s)}
  BY <1>1, RangeSmall
<1>3. PICK rest \in Seq(S) : rest = Tail(s)
  BY <1>1
<1>4. Range(one \o rest) = Range(one) \cup Range(rest)
  BY RangeConcatenation
<1>5. s = one \o rest
  BY <1>1, <1>2, <1>3, Zenon
<1> QED
  BY <1>1, <1>2, <1>3, <1>4, <1>5, Zenon

(* What running x, or a list and then x, before the rest leaves on the stack. *)
LEMMA RangeStack ==
  ASSUME NEW S, NEW x \in S, NEW s \in Seq(S), NEW rest \in Seq(S)
  PROVE  /\ <<x>> \o rest \in Seq(S)
         /\ Range(<<x>> \o rest) = {x} \cup Range(rest)
         /\ s \o <<x>> \o rest \in Seq(S)
         /\ Range(s \o <<x>> \o rest) = Range(s) \cup {x} \cup Range(rest)
<1>1. PICK one \in Seq(S) : one = <<x>> /\ Range(one) = {x}
  BY RangeSmall
<1>2. one \o rest \in Seq(S) /\ Range(one \o rest) = Range(one) \cup Range(rest)
  BY RangeConcatenation
<1>3. Range(s \o one) = Range(s) \cup Range(one) /\ s \o one \in Seq(S)
  BY RangeConcatenation
<1>4. PICK front \in Seq(S) : front = s \o one /\ Range(front) = Range(s) \cup Range(one)
  BY <1>3, Zenon
<1>5. front \o rest \in Seq(S) /\ Range(front \o rest) = Range(front) \cup Range(rest)
  BY RangeConcatenation
<1> QED
  BY <1>1, <1>2, <1>4, <1>5, Zenon
-----------------------------------------------------------------------------
(* Nobody asks, nothing flies. *)
LEMMA InitIInv == Init => IInv
<1> SUFFICES ASSUME Init PROVE IInv
  OBVIOUS
<1>1. Range(<<>>) = {}
  BY DEF Range
<1>2. TypeOK
  BY DEF Init, TypeOK, Fresh, Nothing
<1> QED
  BY <1>1, <1>2, NoneAssumption
  DEF IInv, Init, FlightsOk, WaitersOk, StackOk, HistoryOk, Fresh, Nothing

(* Nobody is listed on the Pending of a caller that does not produce. *)
LEMMA Unlisted ==
  ASSUME IInv, NEW c \in Callers, pc[c] # "producing"
  PROVE  Range(pending[c].waiters) = {}
<1>1. Range(pending[c].waiters) \subseteq Callers
  BY RangeOfSeq DEF IInv, TypeOK
<1>2. ASSUME NEW d \in Range(pending[c].waiters) PROVE FALSE
  BY <1>1, <1>2, NoneAssumption DEF IInv, FlightsOk, WaitersOk
<1> QED
  BY <1>2

(* The loop of run() keeps the invariant, whether a request or a resumed
   waiter goes round it. *)
LEMMA LookIInv ==
  ASSUME IInv, NEW c \in Callers, NEW k \in Keys, NEW rest \in Seq(Callers),
         pc[c] \in {"idle", "woken"}, pc[c] = "woken" => key[c] = k,
         Range(ready) \subseteq {c} \cup Range(rest),
         key' = [key EXCEPT ![c] = k], got' = got, Look(c, k, rest)
  PROVE  IInv'
<1>1. CASE inFlight[k] # None
  <2> DEFINE l == inFlight[k]
  <2>1. l \in Callers /\ pc[l] = "producing" /\ key[l] = k /\ ~pending[l].set /\ l # c
    BY <1>1 DEF IInv, TypeOK, FlightsOk
  <2>2. /\ on' = [on EXCEPT ![c] = l]
        /\ shared' = [shared EXCEPT ![c] = @ \cup Producing(k)]
        /\ missed' = [missed EXCEPT ![c] = @ \ {l}]
        /\ pc' = [pc EXCEPT ![c] = "waiting"]
        /\ pending' = [pending EXCEPT ![l].waiters = Append(@, c)]
        /\ ready' = rest
        /\ inFlight' = inFlight
    BY <1>1, <2>1 DEF Look, Await
  <2>3. /\ Append(pending[l].waiters, c) \in Seq(Callers)
        /\ Range(Append(pending[l].waiters, c)) = Range(pending[l].waiters) \cup {c}
    BY <2>1, RangeAppend DEF IInv, TypeOK
  <2>4. TypeOK'
    BY <2>1, <2>2, <2>3, ZenonT(60) DEF IInv, TypeOK, Producing
  <2>5. FlightsOk'
    BY <2>1, <2>2, <2>3 DEF IInv, TypeOK, FlightsOk
  <2>6. WaitersOk'
    BY <2>1, <2>2, <2>3 DEF IInv, TypeOK, FlightsOk, WaitersOk
  <2>7. StackOk'
    BY <2>1, <2>2, <2>3 DEF IInv, TypeOK, FlightsOk, StackOk
  <2>8. HistoryOk'
    BY <2>1, <2>2, <2>3 DEF IInv, TypeOK, HistoryOk, Producing
  <2> QED
    BY <2>4, <2>5, <2>6, <2>7, <2>8 DEF IInv
<1>2. CASE inFlight[k] = None
  <2>1. Lead(c, k, rest)
    BY <1>2 DEF Look
  <2>2. <<c>> \o rest \in Seq(Callers) /\ Range(<<c>> \o rest) = {c} \cup Range(rest)
    BY RangeStack
  <2>3. /\ Range(pending[c].waiters) = {}
        /\ \A l \in Callers : Range(pending'[l].waiters) = Range(pending[l].waiters)
    <3>1. Range(pending[c].waiters) = {}
      BY Unlisted
    <3>2. Fresh.waiters = <<>> /\ Range(<<>>) = {}
      BY DEF Fresh, Range
    <3>3. \A l \in Callers : pending'[l] = IF l = c THEN Fresh ELSE pending[l]
      BY <2>1 DEF Lead, IInv, TypeOK
    <3> QED
      BY <3>1, <3>2, <3>3, Zenon
  <2>4. TypeOK'
    BY <2>1, <2>2 DEF IInv, TypeOK, Lead, Fresh
  <2>5. FlightsOk'
    BY <1>2, <2>1, <2>2, NoneAssumption DEF IInv, TypeOK, FlightsOk, Lead, Fresh
  <2>6. WaitersOk'
    <3>1. /\ pc' = [pc EXCEPT ![c] = "producing"] /\ on' = [on EXCEPT ![c] = None]
          /\ inFlight' = [inFlight EXCEPT ![k] = c]
      BY <2>1 DEF Lead
    <3>2. ASSUME NEW d \in Callers, pc[d] = "waiting" PROVE d # c /\ key[d] # k /\ key'[d] = key[d]
      BY <1>2, <3>2, NoneAssumption DEF IInv, TypeOK, FlightsOk, WaitersOk
    <3> QED
      BY <2>3, <3>1, <3>2 DEF IInv, TypeOK, FlightsOk, WaitersOk
  <2>7. StackOk'
    BY <2>1, <2>2 DEF IInv, TypeOK, StackOk, Lead
  <2>8. HistoryOk'
    BY <2>1, <2>2 DEF IInv, TypeOK, HistoryOk, Lead
  <2> QED
    BY <2>4, <2>5, <2>6, <2>7, <2>8 DEF IInv
<1> QED
  BY <1>1, <1>2

(* A request that reaches run() keeps the invariant. *)
LEMMA AskIInv ==
  ASSUME IInv, NEW c \in Callers, NEW k \in Keys, Ask(c, k)
  PROVE  IInv'
<1>1. <<>> \in Seq(Callers) /\ Range(ready) \subseteq {c} \cup Range(<<>>)
  BY DEF Ask
<1>2. pc[c] = "idle" /\ key' = [key EXCEPT ![c] = k] /\ got' = got /\ Look(c, k, <<>>)
  BY DEF Ask
<1> QED
  BY <1>1, <1>2, LookIInv

(* So does a waiter resumed by set(), answered or going round again; *)
LEMMA ResumeIInv ==
  ASSUME IInv, NEW c \in Callers, Resume(c)
  PROVE  IInv'
<1> DEFINE l == on[c]
<1>1. /\ Tail(ready) \in Seq(Callers)
      /\ Range(ready) = {c} \cup Range(Tail(ready))
  BY RangeHeadTail DEF Resume, IInv, TypeOK
<1>2. pc[c] = "woken" /\ key' = key /\ key[c] \in Keys
  BY DEF Resume, IInv, FlightsOk
<1>3. CASE pending[l].answer = None
  <2>1. Look(c, key[c], Tail(ready)) /\ got' = got
    BY <1>3 DEF Resume
  <2>2. key' = [key EXCEPT ![c] = key[c]]
    BY <1>2 DEF IInv, TypeOK
  <2> QED
    BY <1>1, <1>2, <2>1, <2>2, LookIInv
<1>4. CASE pending[l].answer # None
  <2>1. /\ pc' = [pc EXCEPT ![c] = "served"]
        /\ got' = [got EXCEPT ![c] = [by |-> l, what |-> pending[l].answer]]
        /\ ready' = Tail(ready)
        /\ UNCHANGED <<key, on, pending, inFlight, shared, missed>>
    BY <1>2, <1>4 DEF Resume
  <2>2. l \in Callers /\ pending[l].answer \in Answers
    BY <1>2, <1>4 DEF IInv, TypeOK, StackOk
  <2>3. TypeOK'
    BY <1>1, <2>1, <2>2 DEF IInv, TypeOK
  <2>4. FlightsOk'
    BY <1>2, <2>1 DEF IInv, TypeOK, FlightsOk
  <2>5. WaitersOk'
    BY <1>2, <2>1 DEF IInv, TypeOK, WaitersOk
  <2>6. StackOk'
    BY <1>1, <1>2, <2>1 DEF IInv, TypeOK, StackOk
  <2>7. HistoryOk'
    BY <1>2, <2>1 DEF IInv, TypeOK, HistoryOk
  <2> QED
    BY <2>3, <2>4, <2>5, <2>6, <2>7 DEF IInv
<1> QED
  BY <1>3, <1>4

(* a producer that suspends; *)
LEMMA SuspendIInv ==
  ASSUME IInv, NEW c \in Callers, Suspend(c)
  PROVE  IInv'
<1>1. /\ Tail(ready) \in Seq(Callers)
      /\ Range(ready) = {c} \cup Range(Tail(ready))
  BY RangeHeadTail DEF Suspend, IInv, TypeOK
<1> QED
  BY <1>1, SMTT(30) DEF Suspend, IInv, TypeOK, FlightsOk, WaitersOk, StackOk, HistoryOk, Nothing

(* a producer that ends and wakes its waiters; *)
LEMMA FinishIInv ==
  ASSUME IInv, NEW c \in Callers, NEW outcome \in Answers \cup {Thrown}, Finish(c, outcome)
  PROVE  IInv'
<1> DEFINE woken == Range(pending[c].waiters)
<1>1. pc[c] = "producing" /\ key[c] \in Keys /\ inFlight[key[c]] = c
  BY DEF Finish, IInv, FlightsOk
<1>2. PICK rest \in Seq(Callers) :
        /\ rest = IF ready = <<>> THEN <<>> ELSE Tail(ready)
        /\ Range(ready) \subseteq {c} \cup Range(rest)
  <2>1. CASE ready = <<>>
    BY <2>1, RangeSmall
  <2>2. CASE ready # <<>>
    BY <2>2, RangeHeadTail DEF Finish, IInv, TypeOK
  <2> QED
    BY <2>1, <2>2
<1>3. /\ inFlight' = [inFlight EXCEPT ![key[c]] = None]
      /\ ready' = pending[c].waiters \o <<c>> \o rest
      /\ pc' = [d \in Callers |-> IF d = c THEN "returning"
                                 ELSE IF d \in woken THEN "woken" ELSE pc[d]]
      /\ UNCHANGED <<key, on, got, shared, missed>>
  BY <1>2 DEF Finish, Wake, Resumed
<1>4. pending[c].waiters \in Seq(Callers) /\ woken \subseteq Callers
  BY RangeOfSeq DEF IInv, TypeOK
<1>5. ready' \in Seq(Callers) /\ Range(ready') = woken \cup {c} \cup Range(rest)
  <2>1. PICK s \in Seq(Callers) : s = pending[c].waiters
    BY <1>4
  <2>2. /\ s \o <<c>> \o rest \in Seq(Callers)
        /\ Range(s \o <<c>> \o rest) = Range(s) \cup {c} \cup Range(rest)
    BY RangeStack
  <2> QED
    BY <1>3, <2>1, <2>2, Zenon
<1>6. /\ pending' \in [Callers -> [set : BOOLEAN, answer : Answers \cup {None}, waiters : Seq(Callers)]]
      /\ \A d \in Callers : d # c => pending'[d] = pending[d]
      /\ Range(pending'[c].waiters) = {}
  BY RangeSmall DEF Finish, IInv, TypeOK
<1>7. ASSUME NEW d \in Callers
      PROVE  d \in woken <=> pc[d] = "waiting" /\ key[d] = key[c]
  BY <1>1, NoneAssumption DEF IInv, TypeOK, FlightsOk, WaitersOk
<1>8. ASSUME NEW d \in woken PROVE d \in Callers /\ pc[d] = "waiting" /\ on[d] = c /\ d # c
  BY <1>1, <1>4 DEF IInv, WaitersOk
<1>9. TypeOK'
  BY <1>3, <1>4, <1>5, <1>6 DEF IInv, TypeOK
<1>10. FlightsOk'
  BY <1>1, <1>3, <1>6, <1>8, NoneAssumption DEF IInv, TypeOK, FlightsOk
<1>11. WaitersOk'
  <2>1. ASSUME NEW d \in Callers, pc'[d] = "waiting"
        PROVE  /\ on'[d] \in Callers /\ inFlight'[key'[d]] = on'[d]
               /\ d \in Range(pending'[on'[d]].waiters)
    <3>1. pc[d] = "waiting" /\ d \notin woken /\ key[d] # key[c] /\ key[d] \in Keys
      BY <1>3, <1>7, <2>1 DEF IInv, TypeOK, FlightsOk
    <3>2. on[d] \in Callers /\ inFlight[key[d]] = on[d] /\ d \in Range(pending[on[d]].waiters)
      BY <3>1 DEF IInv, WaitersOk
    <3>3. on[d] # c
      BY <3>1, <3>2, NoneAssumption DEF IInv, FlightsOk
    <3> QED
      BY <1>1, <1>3, <1>6, <3>1, <3>2, <3>3 DEF IInv, TypeOK
  <2>2. ASSUME NEW m \in Callers, NEW d \in Callers, d \in Range(pending'[m].waiters)
        PROVE  pc'[d] = "waiting" /\ on'[d] = m
    <3>1. m # c /\ d \in Range(pending[m].waiters)
      BY <1>6, <2>2
    <3>2. pc[d] = "waiting" /\ on[d] = m /\ d \notin woken
      BY <1>8, <3>1 DEF IInv, WaitersOk
    <3> QED
      BY <1>1, <1>3, <3>2
  <2> QED
    BY <2>1, <2>2 DEF WaitersOk
<1>12. StackOk'
  BY <1>1, <1>2, <1>3, <1>5, <1>7, <1>8 DEF IInv, TypeOK, StackOk
<1>13. HistoryOk'
  BY <1>1, <1>3, <1>8 DEF IInv, TypeOK, HistoryOk
<1> QED
  BY <1>9, <1>10, <1>11, <1>12, <1>13 DEF IInv

(* the leader whose call returns; *)
LEMMA ReturnIInv ==
  ASSUME IInv, NEW c \in Callers, Return(c)
  PROVE  IInv'
<1>1. /\ Tail(ready) \in Seq(Callers)
      /\ Range(ready) = {c} \cup Range(Tail(ready))
  BY RangeHeadTail DEF Return, IInv, TypeOK
<1>2. pc[c] = "returning" /\ pc' = [pc EXCEPT ![c] = "served"] /\ ready' = Tail(ready)
  BY DEF Return
<1>3. TypeOK'
  BY <1>1, <1>2 DEF Return, IInv, TypeOK
<1>4. FlightsOk'
  BY <1>2 DEF Return, IInv, TypeOK, FlightsOk
<1>5. WaitersOk'
  BY <1>2 DEF Return, IInv, TypeOK, WaitersOk
<1>6. StackOk'
  BY <1>1, <1>2 DEF Return, IInv, TypeOK, StackOk
<1>7. HistoryOk'
  BY <1>2 DEF Return, IInv, TypeOK, HistoryOk
<1> QED
  BY <1>3, <1>4, <1>5, <1>6, <1>7 DEF IInv

(* a caller that is done. *)
LEMMA LeaveIInv ==
  ASSUME IInv, NEW c \in Callers, Leave(c)
  PROVE  IInv'
<1>1. pc[c] = "served" /\ Range(ready) = {} /\ ready' = ready /\ inFlight' = inFlight
  BY DEF Leave, Range
<1>2. /\ Fresh.waiters = <<>> /\ Range(<<>>) = {}
      /\ Range(pending[c].waiters) = {}
  BY <1>1, Unlisted, RangeSmall DEF Fresh
<1>3. \A l \in Callers : Range(pending'[l].waiters) = Range(pending[l].waiters)
  BY <1>2 DEF Leave, IInv, TypeOK
<1>4. TypeOK'
  BY <1>1 DEF Leave, IInv, TypeOK, Fresh, Nothing
<1>5. FlightsOk'
  BY <1>1 DEF Leave, IInv, TypeOK, FlightsOk
<1>6. WaitersOk'
  BY <1>1, <1>3 DEF Leave, IInv, TypeOK, WaitersOk
<1>7. StackOk'
  BY <1>1 DEF Leave, IInv, TypeOK, StackOk
<1>8. HistoryOk'
  BY <1>1 DEF Leave, IInv, TypeOK, HistoryOk
<1> QED
  BY <1>4, <1>5, <1>6, <1>7, <1>8 DEF IInv

(* Every step keeps the invariant. *)
LEMMA NextIInv == IInv /\ [Next]_vars => IInv'
<1> SUFFICES ASSUME IInv, [Next]_vars PROVE IInv'
  OBVIOUS
<1>1. ASSUME NEW c \in Callers, NEW k \in Keys, Ask(c, k) PROVE IInv'
  BY <1>1, AskIInv
<1>2. ASSUME NEW c \in Callers, Run(c) PROVE IInv'
  BY <1>2, ResumeIInv, SuspendIInv, ReturnIInv DEF Run
<1>3. ASSUME NEW c \in Callers, Ends(c) PROVE IInv'
  BY <1>3, FinishIInv DEF Ends
<1>4. ASSUME NEW c \in Callers, Leave(c) PROVE IInv'
  BY <1>4, LeaveIInv
<1>5. CASE UNCHANGED vars
  BY <1>5 DEF vars, IInv, TypeOK, FlightsOk, WaitersOk, StackOk, HistoryOk
<1> QED
  BY <1>1, <1>2, <1>3, <1>4, <1>5 DEF Next

(* The strengthening of the properties below that every step preserves. *)
THEOREM Invariance == Spec => []IInv
  BY InitIInv, NextIInv, PTL DEF Spec

(* Every variable of the coroutine model keeps its type. *)
THEOREM TypeCorrect == Spec => []TypeOK
<1>1. IInv => TypeOK
  BY DEF IInv
<1> QED
  BY <1>1, Invariance, PTL

(* However many callers ask at once, and whether producers suspend or not, a
   key never has two productions running (SingleFlight::run). *)
THEOREM OneProducer == Spec => []OneProducerPerKey
<1>1. IInv => OneProducerPerKey
  BY DEF IInv, FlightsOk, OneProducerPerKey
<1> QED
  BY <1>1, Invariance, PTL

(* Nobody is answered with something produced before it asked. *)
THEOREM Freshness == Spec => []AnswerIsFresh
<1>1. IInv => AnswerIsFresh
  BY DEF IInv, HistoryOk, AnswerIsFresh
<1> QED
  BY <1>1, Invariance, PTL
-----------------------------------------------------------------------------
(* What a step does to whom, for the modules that drive this one. *)

(* Asking moves the caller that asks, and nobody is about to read an answer. *)
LEMMA AskMoves ==
  ASSUME IInv, NEW c \in Callers, NEW k \in Keys, Ask(c, k)
  PROVE  /\ pc[c] = "idle" /\ pc'[c] \in {"waiting", "producing"} /\ key'[c] = k
         /\ \A d \in Callers \ {c} : pc'[d] = pc[d] /\ key'[d] = key[d]
         /\ \A d \in Callers : pc[d] # "woken"
<1>1. Range(ready) = {}
  BY DEF Ask, Range
<1>2. inFlight[k] # None => ~pending[inFlight[k]].set
  BY DEF IInv, FlightsOk
<1> QED
  BY <1>1, <1>2 DEF Ask, Look, Await, Lead, IInv, TypeOK, StackOk

(* A production that ends wakes all who wait on its key, with its answer. *)
LEMMA FinishMoves ==
  ASSUME IInv, NEW c \in Callers, NEW outcome, Finish(c, outcome)
  PROVE  /\ pc[c] = "producing" /\ pc'[c] = "returning" /\ key' = key
         /\ \A d \in Callers \ {c} : pc'[d] = pc[d] \/ (pc[d] = "waiting" /\ pc'[d] = "woken")
         /\ \A d \in Callers : pc[d] = "waiting" /\ key[d] = key[c] =>
              /\ pc'[d] = "woken"
              /\ pending'[on'[d]].answer = IF outcome = Thrown THEN None ELSE outcome
<1>1. pc[c] = "producing" /\ inFlight[key[c]] = c /\ key' = key /\ on' = on
  BY DEF Finish, IInv, FlightsOk
<1>2. pc' = [d \in Callers |-> IF d = c THEN "returning"
                              ELSE IF d \in Range(pending[c].waiters) THEN "woken" ELSE pc[d]]
  BY DEF Finish, Wake, Resumed
<1>3. pending'[c].answer = IF outcome = Thrown THEN None ELSE outcome
  BY DEF Finish, IInv, TypeOK
<1>4. \A d \in Callers : d \in Range(pending[c].waiters) => pc[d] = "waiting"
  BY DEF IInv, WaitersOk
<1>5. \A d \in Callers : pc[d] = "waiting" /\ key[d] = key[c] =>
        on[d] = c /\ d \in Range(pending[c].waiters)
  BY <1>1 DEF IInv, WaitersOk
<1>6. \A d \in Callers : pc[d] = "waiting" /\ key[d] = key[c] =>
        /\ pc'[d] = "woken"
        /\ pending'[on'[d]].answer = IF outcome = Thrown THEN None ELSE outcome
  BY <1>1, <1>2, <1>3, <1>5
<1>7. \A d \in Callers \ {c} : pc'[d] = pc[d] \/ (pc[d] = "waiting" /\ pc'[d] = "woken")
  BY <1>2, <1>4
<1> QED
  BY <1>1, <1>2, <1>6, <1>7

(* Running the stack moves the coroutine on top of it. *)
LEMMA RunMoves ==
  ASSUME IInv, NEW c \in Callers, Run(c)
  PROVE  /\ key' = key
         /\ pc[c] # "idle" /\ pc'[c] # "idle"
         /\ pc[c] = "producing" => pc'[c] = "producing"
         /\ \A d \in Callers \ {c} : pc'[d] = pc[d]
<1>1. CASE Resume(c)
  <2>1. CASE pending[on[c]].answer # None
    BY <1>1, <2>1 DEF Resume, IInv, TypeOK
  <2>2. CASE pending[on[c]].answer = None
    BY <1>1, <2>2 DEF Resume, Look, Await, Lead, IInv, TypeOK
  <2> QED
    BY <2>1, <2>2
<1>2. CASE Suspend(c) \/ Return(c)
  BY <1>2 DEF Suspend, Return, IInv, TypeOK
<1> QED
  BY <1>1, <1>2 DEF Run

(* The answer a woken caller is about to read is there until it reads it. *)
LEMMA AnswersStay ==
  ASSUME IInv, [Next]_vars, NEW d \in Callers,
         pc[d] = "woken", pending[on[d]].answer # None
  PROVE  \/ pc'[d] = "woken" /\ pending'[on'[d]].answer # None
         \/ pc'[d] = "served"
<1> DEFINE l == on[d]
<1>1. /\ l \in Callers /\ pc[l] \in {"returning", "served"} /\ l # d
      /\ d \in Range(ready) /\ ready # <<>>
  BY DEF IInv, StackOk, Range
<1>2. ASSUME NEW c \in Callers, NEW k \in Keys, Ask(c, k) PROVE FALSE
  BY <1>1, <1>2 DEF Ask
<1>3. ASSUME NEW c \in Callers, Leave(c) PROVE FALSE
  BY <1>1, <1>3 DEF Leave
<1>4. ASSUME NEW c \in Callers, Resume(c), c = d PROVE pc'[d] = "served"
  BY <1>4 DEF Resume, IInv, TypeOK
<1>5. ASSUME NEW c \in Callers, NEW k \in Keys, NEW rest, Look(c, k, rest), c # d, c # l
      PROVE  pc'[d] = "woken" /\ on'[d] = l /\ pending'[l].answer = pending[l].answer
  <2>1. CASE inFlight[k] = None
    BY <1>1, <1>5, <2>1 DEF Look, Lead, IInv, TypeOK
  <2>2. CASE inFlight[k] # None
    <3>1. /\ on' = [on EXCEPT ![c] = inFlight[k]] /\ inFlight[k] \in Callers
          /\ \/ pc' = [pc EXCEPT ![c] = "woken"] \/ pc' = [pc EXCEPT ![c] = "waiting"]
          /\ \/ pending' = pending
             \/ pending' = [pending EXCEPT ![inFlight[k]].waiters = Append(@, c)]
      BY <1>5, <2>2 DEF Look, Await, IInv, TypeOK
    <3>2. pc'[d] = "woken" /\ on'[d] = l
      BY <1>1, <1>5, <3>1 DEF IInv, TypeOK
    <3>3. pending'[l].answer = pending[l].answer
      <4>1. CASE pending' = pending
        BY <4>1
      <4>2. CASE pending' = [pending EXCEPT ![inFlight[k]].waiters = Append(@, c)]
        <5>1. PICK w : pending' = [pending EXCEPT ![inFlight[k]].waiters = w]
          BY <4>2
        <5> QED
          BY <1>1, <5>1 DEF IInv, TypeOK
      <4> QED
        BY <3>1, <4>1, <4>2
    <3> QED
      BY <3>2, <3>3
  <2> QED
    BY <2>1, <2>2
<1>6. ASSUME NEW c \in Callers, Resume(c), c # d
      PROVE  pc'[d] = "woken" /\ on'[d] = l /\ pending'[l].answer = pending[l].answer
  BY <1>1, <1>5, <1>6, ZenonT(60) DEF Resume, IInv, TypeOK, FlightsOk
<1>7. ASSUME NEW c \in Callers, Suspend(c) \/ Return(c)
      PROVE  pc'[d] = "woken" /\ on'[d] = l /\ pending'[l].answer = pending[l].answer
  BY <1>1, <1>7 DEF Suspend, Return, IInv, TypeOK
<1>8. ASSUME NEW c \in Callers, NEW outcome, Finish(c, outcome)
      PROVE  pc'[d] = "woken" /\ on'[d] = l /\ pending'[l].answer = pending[l].answer
  BY <1>1, <1>8 DEF Finish, Wake, Resumed, IInv, TypeOK
<1>9. CASE UNCHANGED vars
  BY <1>9 DEF vars
<1> QED
  BY <1>2, <1>3, <1>4, <1>6, <1>7, <1>8, <1>9 DEF Next, Run, Ends
-----------------------------------------------------------------------------
(* A caller looks to Dedup as it did when nothing it reads has changed. *)
LEMMA SameLook ==
  ASSUME NEW d \in Callers, pc'[d] = pc[d], on'[d] = on[d], got'[d] = got[d],
         pc[d] = "woken" => pending'[on[d]].answer = pending[on[d]].answer,
         pc[d] = "returning" => pending'[d].answer = pending[d].answer
  PROVE  Phase(d)' = Phase(d) /\ Outcome(d)' = Outcome(d)
BY DEF Phase, Outcome

(* One turn of run()'s loop is Dedup's Share. *)
LEMMA LookShares ==
  ASSUME IInv, NEW c \in Callers, NEW k \in Keys, NEW rest \in Seq(Callers),
         pc[c] \in {"idle", "woken"}, pc[c] = "woken" => pending[on[c]].answer = None,
         key' = [key EXCEPT ![c] = k], got' = got, Look(c, k, rest)
  PROVE  Promise!Share(c, k)
<1>1. /\ inFlight' = [inFlight EXCEPT ![k] = IF @ = None THEN c ELSE @]
      /\ pc'[c] \in {"waiting", "producing"}
      /\ \A d \in Callers \ {c} : pc'[d] = pc[d] /\ on'[d] = on[d]
      /\ \A d \in Callers \ {c} : pending'[d].answer = pending[d].answer
  <2>1. CASE inFlight[k] # None
    <3>1. ~pending[inFlight[k]].set /\ inFlight[k] \in Callers
      BY <2>1 DEF IInv, TypeOK, FlightsOk
    <3>2. /\ on' = [on EXCEPT ![c] = inFlight[k]]
          /\ pc' = [pc EXCEPT ![c] = "waiting"]
          /\ pending' = [pending EXCEPT ![inFlight[k]].waiters = Append(@, c)]
          /\ inFlight' = inFlight
      BY <2>1, <3>1 DEF Look, Await
    <3> QED
      BY <2>1, <3>1, <3>2 DEF IInv, TypeOK
  <2>2. CASE inFlight[k] = None
    BY <2>2 DEF Look, Lead, IInv, TypeOK
  <2> QED
    BY <2>1, <2>2
<1>2. ASSUME NEW d \in Callers \ {c} PROVE Phase(d)' = Phase(d) /\ Outcome(d)' = Outcome(d)
  <2>1. pc[d] = "woken" => on[d] \in Callers \ {c}
    BY DEF IInv, StackOk
  <2> QED
    BY <1>1, <2>1, SameLook
<1>3. Phase(c)' = "asking" /\ Outcome(c)' = got[c] /\ got[c] = Nothing
  BY <1>1 DEF Phase, Outcome, IInv, HistoryOk
<1>4. Outcome(c) = got[c]
  BY DEF Outcome
<1> QED
  BY <1>1, <1>2, <1>3, <1>4 DEF Promise!Share, PhaseMap, OutcomeMap

LEMMA FinishAnswers ==
  ASSUME IInv, NEW c \in Callers, NEW outcome \in Answers \cup {Thrown}, Finish(c, outcome)
  PROVE  Promise!Next
<1> DEFINE k == key[c]
           woken == Range(pending[c].waiters)
           sharing == woken \cup {c}
<1>1. k \in Keys /\ inFlight[k] = c /\ c # None /\ pc[c] = "producing"
  BY NoneAssumption DEF Finish, IInv, FlightsOk
<1>2. /\ inFlight' = [inFlight EXCEPT ![k] = None]
      /\ pc' = [d \in Callers |-> IF d = c THEN "returning"
                                 ELSE IF d \in woken THEN "woken" ELSE pc[d]]
      /\ UNCHANGED <<key, on, got>>
  BY DEF Finish, Wake, Resumed
<1>3. /\ pending'[c].answer = IF outcome = Thrown THEN None ELSE outcome
      /\ \A d \in Callers \ {c} : pending'[d] = pending[d]
  BY DEF Finish, IInv, TypeOK
<1>4. woken \subseteq Callers
  BY RangeOfSeq DEF IInv, TypeOK
<1>5. ASSUME NEW d \in Callers
      PROVE  d \in woken <=> pc[d] = "waiting" /\ key[d] = k
  BY <1>1, NoneAssumption DEF IInv, TypeOK, FlightsOk, WaitersOk
<1>6. ASSUME NEW d \in Callers \ sharing PROVE Phase(d)' = Phase(d) /\ Outcome(d)' = Outcome(d)
  <2>1. /\ pc[d] = "woken" => on[d] \in Callers \ {c}
        /\ pc'[d] = pc[d] /\ on'[d] = on[d] /\ got'[d] = got[d]
    BY <1>1, <1>2 DEF IInv, StackOk
  <2> QED
    BY <1>3, <2>1, SameLook
<1>7. ASSUME NEW d \in woken PROVE on[d] = c /\ d # c /\ pc'[d] = "woken" /\ on'[d] = c /\ got[d] = Nothing
  BY <1>1, <1>2, <1>4, <1>7 DEF IInv, WaitersOk, HistoryOk
<1>8. ASSUME NEW d \in Callers PROVE (d \in sharing) <=> Phase(d) = "asking" /\ key[d] = k
  <2>1. pc[d] = "producing" /\ key[d] = k => d = c
    BY <1>1 DEF IInv, FlightsOk
  <2> QED
    BY <1>1, <1>5, <2>1 DEF Phase
<1>9. Promise!Sharing(k) = sharing
  BY <1>4, <1>8 DEF Promise!Sharing, PhaseMap
<1>10. pc'[c] = "returning" /\ Phase(c)' = "served" /\ got[c] = Nothing
  BY <1>1, <1>2 DEF Phase, IInv, HistoryOk
<1>11. CASE outcome = Thrown
  <2>1. Outcome(c)' = [by |-> c, what |-> Thrown]
    BY <1>3, <1>10, <1>11 DEF Outcome
  <2>2. ASSUME NEW d \in woken
        PROVE  Phase(d)' = "orphan" /\ Outcome(d)' = Outcome(d)
    <3>1. d \in Callers /\ pc[d] = "waiting"
      BY <1>4, <1>5
    <3> QED
      BY <1>2, <1>3, <1>7, <1>11, <3>1 DEF Phase, Outcome
  <2>3. /\ PhaseMap' = [d \in Callers |-> IF d = c THEN "served"
                                        ELSE IF d \in sharing THEN "orphan" ELSE PhaseMap[d]]
        /\ OutcomeMap' = [OutcomeMap EXCEPT ![c] = [by |-> c, what |-> Thrown]]
    BY <1>6, <1>10, <2>1, <2>2 DEF PhaseMap, OutcomeMap
  <2>4. Promise!Throw(k)
    BY <1>1, <1>2, <1>9, <2>3 DEF Promise!Throw
  <2> QED
    BY <1>1, <2>4 DEF Promise!Next
<1>12. CASE outcome # Thrown
  <2>1. outcome \in Answers /\ outcome # None /\ pending'[c].answer = outcome
    BY <1>3, <1>12, NoneAssumption
  <2>2. Outcome(c)' = [by |-> c, what |-> outcome]
    BY <1>10, <2>1 DEF Outcome
  <2>3. ASSUME NEW d \in woken
        PROVE  Phase(d)' = "served" /\ Outcome(d)' = [by |-> c, what |-> outcome]
    BY <1>7, <2>1, <2>3 DEF Phase, Outcome
  <2>4. Promise!Answer(k, outcome)
    BY <1>1, <1>2, <1>6, <1>9, <1>10, <2>2, <2>3 DEF Promise!Answer, PhaseMap, OutcomeMap
  <2> QED
    BY <1>1, <2>1, <2>4 DEF Promise!Next
<1> QED
  BY <1>11, <1>12

LEMMA NextRefines == IInv /\ [Next]_vars => [Promise!Next]_(Promise!vars)
<1> SUFFICES ASSUME IInv, [Next]_vars PROVE [Promise!Next]_(Promise!vars)
  OBVIOUS
<1> DEFINE Same == \A d \in Callers : Phase(d)' = Phase(d) /\ Outcome(d)' = Outcome(d)
<1>1. ASSUME Same, key' = key, inFlight' = inFlight PROVE UNCHANGED Promise!vars
  BY <1>1 DEF Promise!vars, PhaseMap, OutcomeMap
<1>2. ASSUME NEW c \in Callers, NEW k \in Keys, Ask(c, k) PROVE Promise!Next
  <2>1. pc[c] = "idle" /\ key' = [key EXCEPT ![c] = k] /\ got' = got /\ Look(c, k, <<>>)
        /\ <<>> \in Seq(Callers)
    BY <1>2 DEF Ask
  <2>2. Phase(c) = "idle"
    BY <2>1 DEF Phase
  <2>3. Promise!Share(c, k)
    BY <2>1, LookShares
  <2> QED
    BY <2>2, <2>3 DEF Promise!Next, Promise!Ask, PhaseMap
<1>3. ASSUME NEW c \in Callers, Resume(c) PROVE Promise!Next \/ UNCHANGED Promise!vars
  <2>1. pc[c] = "woken" /\ on[c] \in Callers /\ key' = key /\ key[c] \in Keys
    BY <1>3 DEF Resume, IInv, StackOk, FlightsOk
  <2>2. CASE pending[on[c]].answer # None
    <3>1. /\ pc' = [pc EXCEPT ![c] = "served"]
          /\ got' = [got EXCEPT ![c] = [by |-> on[c], what |-> pending[on[c]].answer]]
          /\ UNCHANGED <<key, on, pending, inFlight>>
      BY <1>3, <2>2 DEF Resume
    <3>2. ASSUME NEW d \in Callers PROVE Phase(d)' = Phase(d) /\ Outcome(d)' = Outcome(d)
      BY <2>1, <2>2, <3>1 DEF Phase, Outcome, IInv, TypeOK
    <3> QED
      BY <1>1, <3>1, <3>2
  <2>3. CASE pending[on[c]].answer = None
    <3>1. Look(c, key[c], Tail(ready)) /\ got' = got /\ Tail(ready) \in Seq(Callers)
      BY <1>3, <2>3, RangeHeadTail DEF Resume, IInv, TypeOK
    <3>2. key' = [key EXCEPT ![c] = key[c]]
      BY <2>1 DEF IInv, TypeOK
    <3>3. Promise!Share(c, key[c])
      BY <2>1, <2>3, <3>1, <3>2, LookShares
    <3>4. Phase(c) = "orphan"
      BY <2>1, <2>3 DEF Phase
    <3> QED
      BY <3>3, <3>4 DEF Promise!Next, Promise!Retry, PhaseMap
  <2> QED
    BY <2>2, <2>3
<1>4. ASSUME NEW c \in Callers, Suspend(c) PROVE UNCHANGED Promise!vars
  <2>1. UNCHANGED <<pc, key, on, pending, inFlight, got>>
    BY <1>4 DEF Suspend
  <2> QED
    BY <1>1, <2>1 DEF Phase, Outcome
<1>5. ASSUME NEW c \in Callers, Return(c) PROVE UNCHANGED Promise!vars
  <2>1. /\ pc[c] = "returning" /\ pc' = [pc EXCEPT ![c] = "served"]
        /\ got' = [got EXCEPT ![c] = [by |-> c, what |-> IF pending[c].answer = None
                                                        THEN Thrown ELSE pending[c].answer]]
        /\ UNCHANGED <<key, on, pending, inFlight>>
    BY <1>5 DEF Return
  <2>2. ASSUME NEW d \in Callers PROVE Phase(d)' = Phase(d) /\ Outcome(d)' = Outcome(d)
    BY <2>1 DEF Phase, Outcome, IInv, TypeOK
  <2> QED
    BY <1>1, <2>1, <2>2
<1>6. ASSUME NEW c \in Callers, Leave(c) PROVE Promise!Next
  <2>1. /\ pc[c] = "served" /\ pc' = [pc EXCEPT ![c] = "idle"]
        /\ key' = [key EXCEPT ![c] = None] /\ got' = [got EXCEPT ![c] = Nothing]
        /\ ready = <<>> /\ inFlight' = inFlight
        /\ \A d \in Callers \ {c} : on'[d] = on[d] /\ pending'[d] = pending[d]
    BY <1>6 DEF Leave, IInv, TypeOK
  <2>2. ASSUME NEW d \in Callers PROVE pc[d] # "woken" /\ pc[d] # "returning"
    BY <2>1, RangeSmall DEF IInv, StackOk
  <2>3. ASSUME NEW d \in Callers
        PROVE  /\ Phase(d)' = IF d = c THEN "idle" ELSE Phase(d)
               /\ Outcome(d)' = IF d = c THEN Nothing ELSE Outcome(d)
    BY <2>1, <2>2 DEF Phase, Outcome, IInv, TypeOK
  <2>4. Phase(c) = "served" /\ Nothing = Promise!Nothing
    BY <2>1 DEF Phase, Nothing, Promise!Nothing
  <2> QED
    BY <2>1, <2>3, <2>4 DEF Promise!Next, Promise!Leave, PhaseMap, OutcomeMap
<1>7. CASE UNCHANGED vars
  <2>1. UNCHANGED <<pc, key, on, pending, inFlight, got>>
    BY <1>7 DEF vars
  <2> QED
    BY <1>1, <2>1 DEF Phase, Outcome
<1> QED
  BY <1>2, <1>3, <1>4, <1>5, <1>6, <1>7, FinishAnswers DEF Next, Run, Ends

(* The coroutines, the event and the map keep Dedup's promise: whoever shares a
   production when it answers is answered by it, and a throw reaches its own
   caller only, whatever order the coroutines are resumed in. *)
THEOREM Implementation == Spec => ImplementsDedup
<1>1. Init => Promise!Init
  BY DEF Init, Promise!Init, PhaseMap, OutcomeMap, Phase, Outcome, Nothing, Promise!Nothing
<1> QED
  BY <1>1, Invariance, NextRefines, PTL DEF Spec, ImplementsDedup, Promise!Spec
-----------------------------------------------------------------------------
(* Nobody is listed twice, and who is on the stack has something to do there:
   what it takes, beyond IInv, for no coroutine to be resumed twice.        *)
Once(s) == \A i, j \in 1..Len(s) : s[i] = s[j] => i = j

ListsOk ==
  /\ Once(ready)
  /\ \A l \in Callers : Once(pending[l].waiters)
  /\ \A c \in Range(ready) : pc[c] \in {"woken", "returning", "producing"}

(* A sequence without its head, with one more, and before another. *)
LEMMA OnceTail ==
  ASSUME NEW S, NEW s \in Seq(S), s # <<>>, Once(s)
  PROVE  Once(Tail(s)) /\ Head(s) \notin Range(Tail(s))
<1>1. /\ Len(s) \in Nat /\ Len(s) >= 1 /\ Head(s) = s[1]
      /\ Tail(s) \in Seq(S) /\ Len(Tail(s)) = Len(s) - 1
      /\ \A i \in 1..Len(s) - 1 : Tail(s)[i] = s[i + 1]
  BY HeadTailProperties, LenProperties, EmptySeq
<1>2. \A i \in 1..Len(Tail(s)) : i + 1 \in 1..Len(s) /\ i + 1 # 1 /\ 1 \in 1..Len(s)
  BY <1>1
<1>3. Once(Tail(s))
  BY <1>1, <1>2 DEF Once
<1>4. ASSUME Head(s) \in Range(Tail(s)) PROVE FALSE
  <2>1. PICK i \in 1..Len(Tail(s)) : Tail(s)[i] = s[1]
    BY <1>1, <1>4 DEF Range
  <2>. QED
    BY <1>1, <1>2, <2>1 DEF Once
<1>. QED
  BY <1>3, <1>4

LEMMA OnceConcat ==
  ASSUME NEW S, NEW s \in Seq(S), NEW t \in Seq(S), Once(s), Once(t), Range(s) \cap Range(t) = {}
  PROVE  Once(s \o t)
<1>1. Len(s) \in Nat /\ Len(t) \in Nat
  BY LenProperties
<1>2. /\ s \o t \in Seq(S) /\ Len(s \o t) = Len(s) + Len(t)
      /\ \A i \in 1..Len(s) + Len(t) : (s \o t)[i] = IF i <= Len(s) THEN s[i] ELSE t[i - Len(s)]
  BY ConcatProperties
<1>3. /\ \A i \in 1..Len(s) : s[i] \in Range(s)
      /\ \A i \in 1..Len(t) : t[i] \in Range(t)
  BY DEF Range
<1>4. ASSUME NEW i \in 1..Len(s) + Len(t), NEW j \in 1..Len(s) + Len(t), (s \o t)[i] = (s \o t)[j]
      PROVE  i = j
  <2>1. CASE i <= Len(s) /\ j <= Len(s)
    <3>1. i \in 1..Len(s) /\ j \in 1..Len(s) /\ s[i] = s[j]
      BY <1>1, <1>2, <1>4, <2>1
    <3>. QED
      BY <3>1 DEF Once
  <2>2. CASE i > Len(s) /\ j > Len(s)
    <3>1. i - Len(s) \in 1..Len(t) /\ j - Len(s) \in 1..Len(t) /\ t[i - Len(s)] = t[j - Len(s)]
      BY <1>1, <1>2, <1>4, <2>2
    <3>2. i - Len(s) = j - Len(s)
      BY <3>1 DEF Once
    <3>. QED
      BY <1>1, <3>2
  <2>3. CASE i <= Len(s) /\ j > Len(s)
    <3>1. i \in 1..Len(s) /\ j - Len(s) \in 1..Len(t) /\ s[i] = t[j - Len(s)]
      BY <1>1, <1>2, <1>4, <2>3
    <3>. QED
      BY <1>3, <3>1
  <2>4. CASE i > Len(s) /\ j <= Len(s)
    <3>1. j \in 1..Len(s) /\ i - Len(s) \in 1..Len(t) /\ s[j] = t[i - Len(s)]
      BY <1>1, <1>2, <1>4, <2>4
    <3>. QED
      BY <1>3, <3>1
  <2>. QED
    BY <1>1, <2>1, <2>2, <2>3, <2>4
<1>. QED
  BY <1>2, <1>4 DEF Once

LEMMA OnceSmall ==
  ASSUME NEW S, NEW x \in S
  PROVE  Once(<<>>) /\ Once(<<x>>)
BY DEF Once

LEMMA OnceAppend ==
  ASSUME NEW S, NEW s \in Seq(S), NEW x \in S, Once(s), x \notin Range(s)
  PROVE  Once(Append(s, x))
<1>1. PICK one \in Seq(S) : one = <<x>> /\ Range(one) = {x} /\ Once(one)
  BY RangeSmall, OnceSmall
<1>2. Once(s \o one)
  BY <1>1, OnceConcat
<1>3. Append(s, x) = s \o <<x>>
  BY AppendIsConcat
<1>. QED
  BY <1>1, <1>2, <1>3

(* Look lists c once: it was on no list, and not on the rest of the stack. *)
LEMMA LookLists ==
  ASSUME IInv, ListsOk, NEW c \in Callers, NEW k \in Keys, NEW rest \in Seq(Callers),
         pc[c] \in {"idle", "woken"}, Once(rest), c \notin Range(rest), Range(rest) \subseteq Range(ready),
         Look(c, k, rest)
  PROVE  ListsOk'
<1>1. CASE inFlight[k] # None
  <2>. DEFINE l == inFlight[k]
  <2>1. l \in Callers /\ pc[l] = "producing" /\ key[l] = k /\ ~pending[l].set /\ l # c
    BY <1>1 DEF IInv, TypeOK, FlightsOk
  <2>2. /\ pc' = [pc EXCEPT ![c] = "waiting"]
        /\ pending' = [pending EXCEPT ![l].waiters = Append(@, c)]
        /\ ready' = rest
    BY <1>1, <2>1 DEF Look, Await
  <2>3. pending[l].waiters \in Seq(Callers) /\ Once(pending[l].waiters) /\ c \notin Range(pending[l].waiters)
    BY <2>1 DEF IInv, TypeOK, WaitersOk, ListsOk
  <2>4. Once(Append(pending[l].waiters, c))
    BY <2>3, OnceAppend
  <2>5. ASSUME NEW m \in Callers PROVE Once(pending'[m].waiters)
    <3>1. pending'[m].waiters = IF m = l THEN Append(pending[l].waiters, c) ELSE pending[m].waiters
      BY <2>1, <2>2 DEF IInv, TypeOK
    <3>. QED
      BY <2>4, <3>1 DEF ListsOk
  <2>6. ASSUME NEW d \in Range(rest) PROVE pc'[d] \in {"woken", "returning", "producing"}
    <3>1. d \in Callers /\ d # c
      BY RangeOfSeq
    <3>. QED
      BY <2>2, <3>1 DEF ListsOk, IInv, TypeOK
  <2>. QED
    BY <2>2, <2>5, <2>6 DEF ListsOk
<1>2. CASE inFlight[k] = None
  <2>1. /\ pc' = [pc EXCEPT ![c] = "producing"]
        /\ pending' = [pending EXCEPT ![c] = Fresh]
        /\ ready' = <<c>> \o rest
    BY <1>2 DEF Look, Lead
  <2>2. PICK one \in Seq(Callers) : one = <<c>> /\ Range(one) = {c} /\ Once(one) /\ Once(<<>>)
    BY RangeSmall, OnceSmall
  <2>3. Once(one \o rest) /\ Range(one \o rest) = {c} \cup Range(rest)
    <3>1. Range(one) \cap Range(rest) = {}
      BY <2>2
    <3>2. Once(one \o rest)
      BY <2>2, <3>1, OnceConcat
    <3>3. Range(one \o rest) = Range(one) \cup Range(rest)
      BY RangeConcatenation
    <3>. QED
      BY <2>2, <3>2, <3>3, Zenon
  <2>4. ASSUME NEW m \in Callers PROVE Once(pending'[m].waiters)
    <3>1. pending'[m].waiters = IF m = c THEN <<>> ELSE pending[m].waiters
      BY <2>1 DEF IInv, TypeOK, Fresh
    <3>. QED
      BY <2>2, <3>1 DEF ListsOk
  <2>5. ASSUME NEW d \in {c} \cup Range(rest) PROVE pc'[d] \in {"woken", "returning", "producing"}
    <3>1. d \in Callers
      BY RangeOfSeq
    <3>. QED
      BY <2>1, <3>1 DEF ListsOk, IInv, TypeOK
  <2>. QED
    BY <2>1, <2>2, <2>3, <2>4, <2>5 DEF ListsOk
<1>. QED
  BY <1>1, <1>2

(* What is left on the stack when its head has had its turn. *)
LEMMA TailLists ==
  ASSUME IInv, ListsOk, ready # <<>>, NEW c \in Callers, Head(ready) = c
  PROVE  /\ Tail(ready) \in Seq(Callers) /\ Once(Tail(ready)) /\ c \notin Range(Tail(ready))
         /\ Range(Tail(ready)) \subseteq Range(ready)
<1>1. ready \in Seq(Callers) /\ Once(ready)
  BY DEF IInv, TypeOK, ListsOk
<1>. QED
  BY <1>1, OnceTail, RangeHeadTail

LEMMA NextLists == IInv /\ ListsOk /\ [Next]_vars => ListsOk'
<1>. SUFFICES ASSUME IInv, ListsOk, [Next]_vars PROVE ListsOk'
  OBVIOUS
<1>0. Range(<<>>) = {} /\ <<>> \in Seq(Callers) /\ Once(<<>>)
  BY DEF Range, Once
<1>1. ASSUME NEW c \in Callers, NEW k \in Keys, Ask(c, k) PROVE ListsOk'
  <2>1. pc[c] = "idle" /\ Look(c, k, <<>>)
    BY <1>1 DEF Ask
  <2>. QED
    BY <1>0, <2>1, LookLists
<1>2. ASSUME NEW c \in Callers, Resume(c) PROVE ListsOk'
  <2>1. /\ Tail(ready) \in Seq(Callers) /\ Once(Tail(ready)) /\ c \notin Range(Tail(ready))
        /\ Range(Tail(ready)) \subseteq Range(ready)
    BY <1>2, TailLists DEF Resume
  <2>2. CASE pending[on[c]].answer # None
    <3>1. pc' = [pc EXCEPT ![c] = "served"] /\ ready' = Tail(ready) /\ pending' = pending
      BY <1>2, <2>2 DEF Resume
    <3>2. ASSUME NEW d \in Range(Tail(ready)) PROVE pc'[d] \in {"woken", "returning", "producing"}
      <4>1. d \in Callers /\ d # c
        BY <2>1, RangeOfSeq
      <4>. QED
        BY <2>1, <3>1, <4>1 DEF ListsOk, IInv, TypeOK
    <3>. QED
      BY <2>1, <3>1, <3>2 DEF ListsOk
  <2>3. CASE pending[on[c]].answer = None
    <3>1. Look(c, key[c], Tail(ready)) /\ pc[c] = "woken" /\ key[c] \in Keys
      BY <1>2, <2>3 DEF Resume, IInv, FlightsOk
    <3>. QED
      BY <2>1, <3>1, LookLists
  <2>. QED
    BY <2>2, <2>3
<1>3. ASSUME NEW c \in Callers, Suspend(c) PROVE ListsOk'
  <2>1. Once(Tail(ready)) /\ Range(Tail(ready)) \subseteq Range(ready)
    BY <1>3, TailLists DEF Suspend
  <2>. QED
    BY <1>3, <2>1 DEF Suspend, ListsOk
<1>4. ASSUME NEW c \in Callers, Return(c) PROVE ListsOk'
  <2>1. /\ Tail(ready) \in Seq(Callers) /\ Once(Tail(ready)) /\ c \notin Range(Tail(ready))
        /\ Range(Tail(ready)) \subseteq Range(ready)
    BY <1>4, TailLists DEF Return
  <2>2. pc' = [pc EXCEPT ![c] = "served"] /\ ready' = Tail(ready) /\ pending' = pending
    BY <1>4 DEF Return
  <2>3. ASSUME NEW d \in Range(Tail(ready)) PROVE pc'[d] \in {"woken", "returning", "producing"}
    <3>1. d \in Callers /\ d # c
      BY <2>1, RangeOfSeq
    <3>. QED
      BY <2>1, <2>2, <3>1 DEF ListsOk, IInv, TypeOK
  <2>. QED
    BY <2>1, <2>2, <2>3 DEF ListsOk
<1>5. ASSUME NEW c \in Callers, NEW outcome \in Answers \cup {Thrown}, Finish(c, outcome) PROVE ListsOk'
  <2>. DEFINE w == pending[c].waiters
  <2>1. PICK rest \in Seq(Callers) :
          /\ rest = IF ready = <<>> THEN <<>> ELSE Tail(ready)
          /\ Once(rest) /\ c \notin Range(rest) /\ Range(rest) \subseteq Range(ready)
    <3>1. CASE ready = <<>>
      BY <1>0, <3>1
    <3>2. CASE ready # <<>>
      <4>1. Head(ready) = c
        BY <1>5, <3>2 DEF Finish
      <4>. QED
        BY <3>2, <4>1, TailLists
    <3>. QED
      BY <3>1, <3>2
  <2>2. /\ ready' = w \o <<c>> \o rest
        /\ pc' = [d \in Callers |-> IF d = c THEN "returning" ELSE IF d \in Range(w) THEN "woken" ELSE pc[d]]
        /\ pc[c] = "producing"
    BY <1>5, <2>1 DEF Finish, Wake, Resumed
  <2>3. w \in Seq(Callers) /\ Range(w) \subseteq Callers /\ Once(w)
    BY RangeOfSeq DEF IInv, TypeOK, ListsOk
  <2>4. \A d \in Range(w) : pc[d] = "waiting"
    BY <2>3 DEF IInv, WaitersOk
  <2>5. ASSUME NEW m \in Callers PROVE Once(pending'[m].waiters)
    <3>1. pending'[m].waiters = IF m = c THEN <<>> ELSE pending[m].waiters
      BY <1>5 DEF Finish, IInv, TypeOK
    <3>. QED
      BY <1>0, <3>1 DEF ListsOk
  <2>. HIDE DEF w
  <2>6. Once(w \o <<c>> \o rest) /\ Range(w \o <<c>> \o rest) = Range(w) \cup {c} \cup Range(rest)
    <3>1. PICK one \in Seq(Callers) : one = <<c>> /\ Range(one) = {c} /\ Once(one)
      BY RangeSmall, OnceSmall
    <3>2. Range(w) \cap Range(one) = {}
      BY <2>2, <2>4, <3>1
    <3>3. Once(w \o one) /\ Range(w \o one) = Range(w) \cup Range(one) /\ w \o one \in Seq(Callers)
      <4>1. Once(w \o one)
        BY <2>3, <3>1, <3>2, OnceConcat
      <4>. QED
        BY <2>3, <4>1, RangeConcatenation
    <3>4. PICK front \in Seq(Callers) :
            front = w \o one /\ Once(front) /\ Range(front) = Range(w) \cup Range(one)
      BY <3>3, Zenon
    <3>5. Range(front) \cap Range(rest) = {}
      BY <2>1, <2>4, <3>1, <3>4 DEF ListsOk
    <3>6. Once(front \o rest) /\ Range(front \o rest) = Range(front) \cup Range(rest)
      <4>1. Once(front \o rest)
        BY <2>1, <3>4, <3>5, OnceConcat
      <4>. QED
        BY <4>1, RangeConcatenation
    <3>. QED
      BY <3>1, <3>4, <3>6, Zenon
  <2>7. ASSUME NEW d \in Range(ready') PROVE pc'[d] \in {"woken", "returning", "producing"}
    <3>1. d \in Range(w) \/ d = c \/ d \in Range(rest)
      BY <2>2, <2>6, <2>7
    <3>2. Range(rest) \subseteq Callers
      BY RangeOfSeq
    <3>. QED
      BY <2>1, <2>2, <2>3, <3>1, <3>2 DEF ListsOk
  <2>. QED
    BY <2>2, <2>5, <2>6, <2>7 DEF ListsOk
<1>6. ASSUME NEW c \in Callers, Leave(c) PROVE ListsOk'
  <2>1. ready' = ready /\ ready = <<>>
    BY <1>6 DEF Leave
  <2>2. ASSUME NEW m \in Callers PROVE Once(pending'[m].waiters)
    <3>1. pending'[m].waiters = IF m = c THEN <<>> ELSE pending[m].waiters
      BY <1>6 DEF Leave, Fresh, IInv, TypeOK
    <3>. QED
      BY <1>0, <3>1 DEF ListsOk
  <2>. QED
    BY <1>0, <2>1, <2>2 DEF ListsOk
<1>7. CASE UNCHANGED vars
  BY <1>7 DEF vars, ListsOk
<1>. QED
  BY <1>1, <1>2, <1>3, <1>4, <1>5, <1>6, <1>7 DEF Next, Run, Ends

LEMMA InitLists == Init => ListsOk
<1>1. Range(<<>>) = {} /\ Once(<<>>)
  BY DEF Range, Once
<1>. QED
  BY <1>1 DEF Init, ListsOk, Fresh

LEMMA ListsInvariance == Spec => [](IInv /\ ListsOk)
BY InitIInv, InitLists, NextIInv, NextLists, PTL DEF Spec

(* No coroutine is resumed twice or forgotten (Event::set, haio_task.hpp): a
   caller is on the stack or on one flight's list, once.                    *)
THEOREM Resumptions == Spec => []NoLostWaiter
<1>1. ASSUME IInv, ListsOk PROVE NoLostWaiter
  <2>1. ASSUME NEW c \in Callers
        PROVE  Cardinality(Running(c)) + Cardinality(Parked(c)) <= 1
    <3>1. ready \in Seq(Callers) /\ DOMAIN ready = 1..Len(ready)
      BY <1>1, LenProperties DEF IInv, TypeOK
    <3>2. \A p, q \in Running(c) : p = q
      BY <1>1, <3>1 DEF Running, ListsOk, Once
    <3>3. ASSUME NEW p \in Parked(c)
          PROVE  /\ p = <<p[1], p[2]>> /\ p[1] \in Callers /\ p[1] = on[c] /\ pc[c] = "waiting"
                 /\ p[2] \in 1..Len(pending[p[1]].waiters) /\ pending[p[1]].waiters[p[2]] = c
      <4>1. /\ p = <<p[1], p[2]>> /\ p[1] \in Callers
            /\ p[2] \in DOMAIN pending[p[1]].waiters /\ pending[p[1]].waiters[p[2]] = c
        BY DEF Parked
      <4>2. pending[p[1]].waiters \in Seq(Callers)
        BY <1>1, <4>1 DEF IInv, TypeOK
      <4>3. DOMAIN pending[p[1]].waiters = 1..Len(pending[p[1]].waiters)
        BY <4>2, LenProperties
      <4>4. c \in Range(pending[p[1]].waiters)
        BY <4>1 DEF Range
      <4>. QED
        BY <1>1, <4>1, <4>3, <4>4 DEF IInv, WaitersOk
    <3>4. \A p, q \in Parked(c) : p = q
      BY <1>1, <3>3 DEF ListsOk, Once
    <3>5. Running(c) # {} => Parked(c) = {}
      <4>1. Running(c) # {} => c \in Range(ready)
        BY DEF Running, Range
      <4>. QED
        BY <1>1, <3>3, <4>1 DEF ListsOk
    <3>6. ASSUME NEW T, \A p, q \in T : p = q
          PROVE  (T = {} /\ Cardinality(T) = 0) \/ Cardinality(T) = 1
      <4>1. CASE T = {}
        BY <4>1, FS_EmptySet
      <4>2. CASE T # {}
        <5>1. PICK p \in T : T = {p}
          BY <3>6, <4>2
        <5>. QED
          BY <5>1, FS_Singleton
      <4>. QED
        BY <4>1, <4>2
    <3>7. Cardinality({}) = 0
      BY FS_EmptySet
    <3>. QED
      BY <3>2, <3>4, <3>5, <3>6, <3>7
  <2>. QED
    BY <1>1, <2>1 DEF NoLostWaiter, IInv, WaitersOk, StackOk
<1>. QED
  BY <1>1, ListsInvariance, PTL
-----------------------------------------------------------------------------
(* Who has missed whom: a woken caller at most the flight it will wait on.  *)
HeirOk ==
  /\ \A c \in Callers : pc[c] \in {"idle", "waiting", "producing"} => missed[c] = {}
  /\ \A c \in Callers : pc[c] = "woken" => missed[c] \subseteq {inFlight[key[c]]}

(* What Ask and Resume do to the caller's key before they look. *)
Asks(c, k) == key' = [key EXCEPT ![c] = k]

LEMMA LookHeirs ==
  ASSUME IInv, HeirOk, NEW c \in Callers, NEW k \in Keys, NEW rest,
         pc[c] = "idle" \/ (pc[c] = "woken" /\ key[c] = k),
         Asks(c, k), Look(c, k, rest)
  PROVE  HeirOk'
<1>0. missed[c] \subseteq {inFlight[k]} /\ \A d \in Callers : missed[d] \subseteq Callers
  BY DEF HeirOk, IInv, TypeOK
<1>1. CASE inFlight[k] # None
  <2>. DEFINE l == inFlight[k]
  <2>1. l \in Callers /\ pc[l] = "producing" /\ ~pending[l].set
    BY <1>1 DEF IInv, TypeOK, FlightsOk
  <2>2. /\ missed' = [missed EXCEPT ![c] = @ \ {l}]
        /\ pc' = [pc EXCEPT ![c] = "waiting"]
        /\ inFlight' = inFlight
    BY <1>1, <2>1 DEF Look, Await
  <2>. QED
    BY <1>0, <2>2 DEF Asks, HeirOk, IInv, TypeOK
<1>2. CASE inFlight[k] = None
  <2>. DEFINE others == {d \in Asking \ {c} : key[d] = k}
  <2>1. /\ inFlight' = [inFlight EXCEPT ![k] = c]
        /\ pc' = [pc EXCEPT ![c] = "producing"]
        /\ missed' = [d \in Callers |-> IF d \in others THEN missed[d] \cup {c} ELSE missed[d]]
    BY <1>2 DEF Look, Lead
  <2>2. ASSUME NEW d \in others PROVE d \in Callers /\ d # c /\ pc[d] = "woken" /\ key[d] = k
    BY <1>2, NoneAssumption DEF Asking, IInv, FlightsOk, WaitersOk
  <2>3. ASSUME NEW d \in others PROVE missed[d] = {}
    BY <1>0, <1>2, <2>2, NoneAssumption DEF HeirOk
  <2>4. missed[c] = {}
    BY <1>0, <1>2, NoneAssumption
  <2>5. ASSUME NEW d \in Callers, pc'[d] \in {"idle", "waiting", "producing"} PROVE missed'[d] = {}
    <3>1. d \notin others
      BY <2>1, <2>2, <2>5 DEF IInv, TypeOK
    <3>. HIDE DEF others
    <3>. QED
      BY <2>1, <2>4, <2>5, <3>1 DEF HeirOk, IInv, TypeOK
  <2>6. ASSUME NEW d \in Callers, pc'[d] = "woken" PROVE missed'[d] \subseteq {inFlight'[key'[d]]}
    <3>1. d # c /\ pc[d] = "woken" /\ key'[d] = key[d] /\ key[d] \in Keys
      BY <2>1, <2>6 DEF Asks, IInv, TypeOK, FlightsOk
    <3>2. CASE key[d] = k
      <4>1. d \in others
        BY <3>1, <3>2 DEF Asking
      <4>2. inFlight'[k] = c
        BY <2>1 DEF IInv, TypeOK
      <4>. HIDE DEF others
      <4>. QED
        BY <2>1, <2>3, <3>1, <3>2, <4>1, <4>2
    <3>3. CASE key[d] # k
      <4>1. d \notin others
        BY <3>3
      <4>. HIDE DEF others
      <4>. QED
        BY <2>1, <3>1, <3>3, <4>1 DEF HeirOk, IInv, TypeOK
    <3>. QED
      BY <3>2, <3>3
  <2>. QED
    BY <2>5, <2>6 DEF HeirOk
<1>. QED
  BY <1>1, <1>2

LEMMA NextHeirs ==
  ASSUME ~InlineProducers, IInv, HeirOk, [Next]_vars
  PROVE  HeirOk'
<1>1. ASSUME NEW c \in Callers, NEW k \in Keys, Ask(c, k) PROVE HeirOk'
  <2>1. pc[c] = "idle" /\ Asks(c, k) /\ Look(c, k, <<>>)
    BY <1>1 DEF Ask, Asks
  <2>. QED
    BY <2>1, LookHeirs
<1>2. ASSUME NEW c \in Callers, Resume(c) PROVE HeirOk'
  <2>1. pc[c] = "woken" /\ key' = key /\ key[c] \in Keys /\ Asks(c, key[c])
    BY <1>2 DEF Asks, Resume, IInv, TypeOK, FlightsOk
  <2>2. CASE pending[on[c]].answer # None
    <3>1. pc' = [pc EXCEPT ![c] = "served"] /\ inFlight' = inFlight /\ missed' = missed
      BY <1>2, <2>2 DEF Resume
    <3>. QED
      BY <2>1, <3>1 DEF HeirOk, IInv, TypeOK
  <2>3. CASE pending[on[c]].answer = None
    <3>1. Look(c, key[c], Tail(ready))
      BY <1>2, <2>3 DEF Resume
    <3>. QED
      BY <2>1, <3>1, LookHeirs
  <2>. QED
    BY <2>2, <2>3
<1>3. ASSUME NEW c \in Callers, Suspend(c) PROVE HeirOk'
  BY <1>3 DEF Suspend, HeirOk
<1>4. ASSUME NEW c \in Callers, Return(c) PROVE HeirOk'
  BY <1>4 DEF Return, HeirOk, IInv, TypeOK
<1>5. ASSUME NEW c \in Callers, NEW outcome \in Answers \cup {Thrown}, Finish(c, outcome) PROVE HeirOk'
  <2>. DEFINE w == pending[c].waiters
  <2>1. ready = <<>>
    BY <1>5 DEF Finish
  <2>2. Range(ready) = {}
    BY <2>1 DEF Range
  <2>3. \A d \in Callers : pc[d] # "woken"
    BY <2>2 DEF IInv, StackOk
  <2>4. /\ pc' = [d \in Callers |-> IF d = c THEN "returning" ELSE IF d \in Range(w) THEN "woken" ELSE pc[d]]
        /\ missed' = missed
    BY <1>5 DEF Finish, Wake, Resumed
  <2>5. \A d \in Callers : d \in Range(w) => pc[d] = "waiting"
    BY DEF IInv, WaitersOk
  <2>. HIDE DEF w
  <2>. QED
    BY <2>3, <2>4, <2>5 DEF HeirOk
<1>6. ASSUME NEW c \in Callers, Leave(c) PROVE HeirOk'
  BY <1>6 DEF Leave, HeirOk, IInv, TypeOK
<1>7. CASE UNCHANGED vars
  BY <1>7 DEF vars, HeirOk
<1>. QED
  BY <1>1, <1>2, <1>3, <1>4, <1>5, <1>6, <1>7 DEF Next, Run, Ends

(* "The first waiter to wake takes over while the rest wait on it instead"
   (deduplication.cpp:20-21), as long as no producer ends in place.         *)
THEOREM Heirs ==
  ASSUME ~InlineProducers
  PROVE  Spec => []RestWaitOnTheHeir
<1>1. Init => HeirOk
  BY DEF Init, HeirOk
<1>2. IInv /\ HeirOk /\ [Next]_vars => HeirOk'
  BY NextHeirs
<1>3. HeirOk => RestWaitOnTheHeir
  BY DEF HeirOk, RestWaitOnTheHeir
<1>. QED
  BY <1>1, <1>2, <1>3, Invariance, PTL DEF Spec
=============================================================================
