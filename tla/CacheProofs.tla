----------------------------- MODULE CacheProofs -----------------------------
(***************************************************************************)
(* Proofs about Cache, for every set of callers and keys and every store.  *)
(* What holds of the flight is taken from SingleFlightProofs.              *)
(***************************************************************************)
EXTENDS Cache, SequenceTheorems, TLAPS

Proved == INSTANCE SingleFlightProofs

(* What Cache adds to the flight's variables keeps its type. *)
FetchTypeOK ==
  /\ store \in Stores
  /\ stage \in [Callers -> {"out", "looking", "flying", "storing", "hit"}]
  /\ wants \in [Callers -> Keys \cup {None}]
  /\ wire \in Seq([op : {"get", "put"}, by : Callers])
  /\ stored \subseteq Keys
  /\ answered \subseteq Callers
  /\ orphaned \subseteq kept /\ kept \subseteq Callers

(* Where c stands in fetch and where it stands in the flight agree. *)
StagesOk ==
  \A c \in Callers :
    /\ stage[c] # "out" => wants[c] \in Keys
    /\ stage[c] \in {"out", "looking", "hit"} => pc[c] = "idle"
    /\ pc[c] # "idle" => key[c] = wants[c]
    /\ stage[c] = "storing" => pc[c] = "producing"

(* What is on the wire says who waits for redis, and for what. *)
OnWire ==
  \A c \in Callers :
    /\ \A i, j \in DOMAIN wire : wire[i].by = c /\ wire[j].by = c => i = j
    /\ stage[c] = "looking" <=> \E i \in DOMAIN wire : wire[i].by = c /\ wire[i].op = "get"
    /\ stage[c] = "storing" <=> \E i \in DOMAIN wire : wire[i].by = c /\ wire[i].op = "put"

(* An entry stored while c was asking is still there, and c is about to find
   it, or has been answered by the production that stored it, or was loose. *)
KeptOk ==
  \A c \in kept :
    /\ wants[c] \in stored
    /\ \/ stage[c] \in {"looking", "hit"}
       \/ stage[c] = "flying" /\ pc[c] = "woken" /\ pending[on[c]].answer # None
       \/ stage[c] = "flying" /\ pc[c] = "served"
       \/ c \in orphaned

(* Those a throw had woken are on their own, and only where nothing suspends. *)
OrphansOk ==
  /\ \A c \in orphaned : stage[c] = "flying"
  /\ orphaned # {} => store = "inline" /\ InlineProducers

CInv == FetchTypeOK /\ StagesOk /\ OnWire /\ KeptOk /\ OrphansOk
-----------------------------------------------------------------------------
(* Every step of fetch is a step of the flight, or leaves it alone. *)
LEMMA StepKeepsFlight == CInv /\ [Next]_vars => [Flight!Next]_(Flight!vars)
<1> SUFFICES ASSUME CInv, [Next]_vars PROVE Flight!Next \/ UNCHANGED flight
  BY DEF Flight!vars, flight
<1>1. ASSUME NEW c \in Callers, NEW k \in Keys, Fetch(c, k) PROVE Flight!Next \/ UNCHANGED flight
  BY <1>1 DEF Fetch, Enter, Hit, Flight!Next
<1>2. ASSUME NEW c \in Callers, NEW outcome, NEW put, End(c, outcome, put),
             outcome \in Answers \cup {Thrown}
      PROVE  Flight!Next
  BY <1>2 DEF End, Flight!Next, Flight!Ends
<1>3. ASSUME NEW c \in Callers, Replies(c) PROVE Flight!Next \/ UNCHANGED flight
  <2>1. ASSUME NEW failed \in BOOLEAN, GetReply(c, failed) PROVE Flight!Next \/ UNCHANGED flight
    <3>1. 1 \in DOMAIN wire /\ wire[1].by = c /\ wire[1].op = "get"
      BY <2>1 DEF GetReply, CInv, FetchTypeOK
    <3>2. wants[c] \in Keys
      BY <3>1 DEF CInv, OnWire, StagesOk
    <3> QED
      BY <2>1, <3>2 DEF GetReply, Enter, Hit, Flight!Next
  <2>2. ASSUME NEW failed \in BOOLEAN, PutReply(c, failed) PROVE Flight!Next
    BY <1>2, <2>2 DEF PutReply, Answers
  <2> QED
    BY <1>3, <2>1, <2>2 DEF Replies
<1>4. ASSUME NEW c \in Callers, Produces(c) PROVE Flight!Next \/ UNCHANGED flight
  BY <1>2, <1>4 DEF Produces, Made, Flight!Next, Flight!Run
<1>5. ASSUME NEW c \in Callers, Run(c) \/ Leave(c) PROVE Flight!Next \/ UNCHANGED flight
  BY <1>5 DEF Run, Leave, Flight!Next
<1>6. ASSUME NEW k \in Keys, Drop(k) PROVE UNCHANGED flight
  BY <1>6 DEF Drop
<1> QED
  BY <1>1, <1>3, <1>4, <1>5, <1>6 DEF Next, vars

(* The flight of Cache is the one the proofs are about. *)
LEMMA SameFlight ==
  /\ Flight!Init => Proved!Init
  /\ [Flight!Next]_(Flight!vars) => [Proved!Next]_(Proved!vars)
  /\ \A c \in Callers :
       /\ \A k \in Keys : Flight!Ask(c, k) => Proved!Ask(c, k)
       /\ \A outcome : Flight!Finish(c, outcome) => Proved!Finish(c, outcome)
       /\ Flight!Run(c) => Proved!Run(c)
<1> USE DEF Flight!Fresh, Proved!Fresh, Flight!Nothing, Proved!Nothing
<1>1. Flight!Init => Proved!Init
  BY DEF Flight!Init, Proved!Init
<1>2. ASSUME NEW c, NEW k, NEW rest, Flight!Look(c, k, rest) PROVE Proved!Look(c, k, rest)
  BY <1>2 DEF Flight!Look, Proved!Look, Flight!Await, Proved!Await, Flight!Lead, Proved!Lead,
              Flight!Asking, Proved!Asking, Flight!Producing, Proved!Producing
<1>3. ASSUME NEW c, NEW k, Flight!Ask(c, k) PROVE Proved!Ask(c, k)
  BY <1>2, <1>3 DEF Flight!Ask, Proved!Ask
<1>4. ASSUME NEW c, Flight!Run(c) PROVE Proved!Run(c)
  BY <1>2, <1>4 DEF Flight!Run, Proved!Run, Flight!Resume, Proved!Resume,
                    Flight!Suspend, Proved!Suspend, Flight!Return, Proved!Return
<1>5. ASSUME NEW c, NEW outcome, Flight!Finish(c, outcome) PROVE Proved!Finish(c, outcome)
  BY <1>5 DEF Flight!Finish, Proved!Finish, Flight!Wake, Proved!Wake,
              Flight!Resumed, Proved!Resumed, Flight!Range, Proved!Range
<1>6. ASSUME NEW c, Flight!Leave(c) PROVE Proved!Leave(c)
  BY <1>6 DEF Flight!Leave, Proved!Leave
<1>7. Flight!Next => Proved!Next
  BY <1>3, <1>4, <1>5, <1>6 DEF Flight!Next, Proved!Next, Flight!Ends, Proved!Ends
<1> QED
  BY <1>1, <1>3, <1>4, <1>5, <1>7 DEF Flight!vars, Proved!vars
-----------------------------------------------------------------------------
(* A request of c joins the wire. *)
LEMMA Sends ==
  ASSUME FetchTypeOK, OnWire, NEW c \in Callers, NEW op \in {"get", "put"},
         stage[c] \notin {"looking", "storing"},
         wire' = Append(wire, [op |-> op, by |-> c]),
         stage' = [stage EXCEPT ![c] = IF op = "get" THEN "looking" ELSE "storing"]
  PROVE  OnWire' /\ wire' \in Seq([op : {"get", "put"}, by : Callers])
<1>1. PICK r \in [op : {"get", "put"}, by : Callers] : r = [op |-> op, by |-> c]
  OBVIOUS
<1>2. wire' = Append(wire, r) /\ r.op = op /\ r.by = c
  BY <1>1
<1>3. /\ DOMAIN wire = 1..Len(wire) /\ DOMAIN wire' = 1..(Len(wire) + 1) /\ Len(wire) \in Nat
      /\ wire'[Len(wire) + 1] = r /\ \A i \in 1..Len(wire) : wire'[i] = wire[i]
  BY <1>2 DEF FetchTypeOK
<1>4. ASSUME NEW i \in DOMAIN wire PROVE wire[i].by # c
  <2>1. wire[i] \in [op : {"get", "put"}, by : Callers]
    BY <1>3, ElementOfSeq, ZenonT(60) DEF FetchTypeOK
  <2>2. wire[i].op \in {"get", "put"}
    BY <2>1
  <2> QED
    BY <2>2 DEF OnWire
<1>5. wire' \in Seq([op : {"get", "put"}, by : Callers])
  BY <1>2 DEF FetchTypeOK
<1>6. ASSUME NEW d \in Callers
      PROVE  /\ \A i, j \in DOMAIN wire' : wire'[i].by = d /\ wire'[j].by = d => i = j
             /\ stage'[d] = "looking" <=> \E i \in DOMAIN wire' : wire'[i].by = d /\ wire'[i].op = "get"
             /\ stage'[d] = "storing" <=> \E i \in DOMAIN wire' : wire'[i].by = d /\ wire'[i].op = "put"
  <2>1. CASE d = c
    BY <1>2, <1>3, <1>4, <2>1, SMTT(30) DEF FetchTypeOK
  <2>2. CASE d # c
    <3>1. stage'[d] = stage[d] /\ \A i \in DOMAIN wire' : wire'[i].by = d => i \in DOMAIN wire /\ wire'[i] = wire[i]
      BY <1>2, <1>3, <2>2 DEF FetchTypeOK
    <3>2. \A i \in DOMAIN wire : i \in DOMAIN wire' /\ wire'[i] = wire[i]
      BY <1>3
    <3> QED
      BY <3>1, <3>2 DEF OnWire
  <2> QED
    BY <2>1, <2>2
<1> QED
  BY <1>5, <1>6 DEF OnWire

(* redis answers the oldest request, which is c's only one. *)
LEMMA Answered ==
  ASSUME FetchTypeOK, OnWire, NEW c \in Callers, NEW next \in {"flying", "hit"},
         wire # <<>>, Head(wire).by = c, wire' = Tail(wire), stage' = [stage EXCEPT ![c] = next]
  PROVE  OnWire' /\ wire' \in Seq([op : {"get", "put"}, by : Callers])
<1>1. /\ DOMAIN wire = 1..Len(wire) /\ DOMAIN wire' = 1..(Len(wire) - 1)
      /\ Len(wire) \in Nat \ {0} /\ wire[1].by = c
      /\ \A i \in 1..(Len(wire) - 1) : wire'[i] = wire[i + 1]
  BY DEF FetchTypeOK
<1>2. wire' \in Seq([op : {"get", "put"}, by : Callers])
  BY DEF FetchTypeOK
<1>3. ASSUME NEW i \in DOMAIN wire' PROVE wire'[i].by # c /\ i + 1 \in DOMAIN wire
  BY <1>1 DEF OnWire
<1>4. ASSUME NEW d \in Callers
      PROVE  /\ \A i, j \in DOMAIN wire' : wire'[i].by = d /\ wire'[j].by = d => i = j
             /\ stage'[d] = "looking" <=> \E i \in DOMAIN wire' : wire'[i].by = d /\ wire'[i].op = "get"
             /\ stage'[d] = "storing" <=> \E i \in DOMAIN wire' : wire'[i].by = d /\ wire'[i].op = "put"
  <2>1. CASE d = c
    BY <1>3, <2>1 DEF FetchTypeOK
  <2>2. CASE d # c
    <3>1. stage'[d] = stage[d]
      BY <2>2 DEF FetchTypeOK
    <3>2. \A i \in DOMAIN wire : wire[i].by = d => i - 1 \in DOMAIN wire' /\ wire'[i - 1] = wire[i]
      BY <1>1, <2>2
    <3>3. \A i, j \in DOMAIN wire' : wire'[i].by = d /\ wire'[j].by = d => i = j
      BY <1>1, <1>3 DEF OnWire
    <3>4. ASSUME NEW op
          PROVE  (\E i \in DOMAIN wire' : wire'[i].by = d /\ wire'[i].op = op)
                 <=> (\E i \in DOMAIN wire : wire[i].by = d /\ wire[i].op = op)
      <4>1. \A i \in DOMAIN wire' : i + 1 \in DOMAIN wire /\ wire'[i] = wire[i + 1]
        BY <1>1
      <4> QED
        BY <3>2, <4>1
    <3>5. /\ stage[d] = "looking" <=> \E i \in DOMAIN wire : wire[i].by = d /\ wire[i].op = "get"
          /\ stage[d] = "storing" <=> \E i \in DOMAIN wire : wire[i].by = d /\ wire[i].op = "put"
      BY DEF OnWire
    <3>6. /\ stage[d] = "looking" <=> \E i \in DOMAIN wire' : wire'[i].by = d /\ wire'[i].op = "get"
          /\ stage[d] = "storing" <=> \E i \in DOMAIN wire' : wire'[i].by = d /\ wire'[i].op = "put"
      BY <3>4, <3>5
    <3> QED
      BY <3>1, <3>3, <3>6, Zenon
  <2> QED
    BY <2>1, <2>2
<1> QED
  BY <1>2, <1>4 DEF OnWire

(* Nothing is sent or answered, and nobody starts or stops waiting for redis. *)
LEMMA WireStays ==
  ASSUME FetchTypeOK, OnWire, wire' = wire,
         \A c \in Callers : stage'[c] = stage[c] \/ {stage[c], stage'[c]} \subseteq {"out", "flying", "hit"}
  PROVE  OnWire'
BY DEF OnWire
-----------------------------------------------------------------------------
-----------------------------------------------------------------------------
(* A caller goes from the store to the flight. *)
LEMMA Enters ==
  ASSUME CInv, Proved!IInv, NEW c \in Callers, NEW k \in Keys, Enter(c, k),
         stage[c] \in {"out", "looking"}, c \notin kept', kept' \subseteq kept,
         wants'[c] = k, \A d \in Callers \ {c} : wants'[d] = wants[d], stored' = stored,
         orphaned' = orphaned
  PROVE  StagesOk' /\ KeptOk'
<1>1. /\ stage' = [stage EXCEPT ![c] = "flying"] /\ Proved!Ask(c, k)
  BY SameFlight DEF Enter
<1>2. /\ pc[c] = "idle" /\ pc'[c] \in {"waiting", "producing"} /\ key'[c] = k
      /\ \A d \in Callers \ {c} : pc'[d] = pc[d] /\ key'[d] = key[d]
      /\ \A d \in Callers : pc[d] # "woken"
  BY <1>1, Proved!AskMoves, NamesAssumption DEF Answers
<1>3. StagesOk'
  BY <1>1, <1>2 DEF CInv, FetchTypeOK, StagesOk
<1>4. ASSUME NEW d \in kept'
      PROVE  /\ wants'[d] \in stored'
             /\ \/ stage'[d] \in {"looking", "hit"}
                \/ (stage'[d] = "flying" /\ pc'[d] = "served")
                \/ d \in orphaned'
  <2>1. d \in kept /\ d \in Callers /\ d # c
    BY DEF CInv, FetchTypeOK
  <2>2. /\ wants[d] \in stored
        /\ \/ stage[d] \in {"looking", "hit"}
           \/ (stage[d] = "flying" /\ pc[d] = "served")
           \/ d \in orphaned
    BY <1>2, <2>1 DEF CInv, KeptOk
  <2> QED
    BY <1>1, <1>2, <2>1, <2>2 DEF CInv, FetchTypeOK
<1> QED
  BY <1>3, <1>4 DEF KeptOk

(* The store answers a caller that only waits for it. *)
LEMMA Hits ==
  ASSUME CInv, NEW c \in Callers, Hit(c), stage[c] \in {"out", "looking"},
         kept' = kept, orphaned' = orphaned, stored' = stored, wants'[c] \in Keys,
         \A d \in Callers \ {c} : wants'[d] = wants[d],
         c \in kept => wants'[c] = wants[c]
  PROVE  StagesOk' /\ KeptOk'
BY DEF CInv, FetchTypeOK, StagesOk, KeptOk, Hit, flight

(* A request looks in the store, and goes on if that answers at once. *)
LEMMA FetchCInv ==
  ASSUME CInv, Proved!IInv, NEW c \in Callers, NEW k \in Keys, Fetch(c, k)
  PROVE  CInv'
<1>1. /\ stage[c] = "out" /\ c \notin kept
      /\ wants' = [wants EXCEPT ![c] = k] /\ wants'[c] = k
      /\ \A d \in Callers \ {c} : wants'[d] = wants[d]
      /\ UNCHANGED <<store, stored, answered, kept, orphaned>>
  BY DEF Fetch, CInv, KeptOk, OrphansOk, FetchTypeOK
<1>2. CASE store = "remote"
  <2>1. /\ stage' = [stage EXCEPT ![c] = "looking"] /\ UNCHANGED flight
        /\ wire' = Append(wire, [op |-> "get", by |-> c])
    BY <1>2 DEF Fetch
  <2>2. OnWire' /\ wire' \in Seq([op : {"get", "put"}, by : Callers])
    BY <1>1, <2>1, Sends DEF CInv
  <2> QED
    BY <1>1, <2>1, <2>2 DEF CInv, FetchTypeOK, StagesOk, KeptOk, OrphansOk, flight
<1>3. CASE store # "remote"
  <2>1. wire' = wire /\ (Hit(c) \/ Enter(c, k))
    BY <1>3 DEF Fetch
  <2>2. \E next \in {"hit", "flying"} : stage' = [stage EXCEPT ![c] = next]
    BY <2>1 DEF Hit, Enter
  <2>3. FetchTypeOK'
    BY <1>1, <2>1, <2>2 DEF CInv, FetchTypeOK
  <2>4. OnWire'
    BY <1>1, <2>1, <2>2, WireStays DEF CInv, FetchTypeOK
  <2>5. StagesOk' /\ KeptOk'
    BY <1>1, <2>1, Hits, Enters
  <2>6. OrphansOk'
    BY <1>1, <2>2 DEF CInv, FetchTypeOK, OrphansOk
  <2> QED
    BY <2>3, <2>4, <2>5, <2>6 DEF CInv
<1> QED
  BY <1>2, <1>3

(* The answer of redis, or its failure, moves the caller on. *)
LEMMA GetReplyCInv ==
  ASSUME CInv, Proved!IInv, NEW c \in Callers, NEW failed \in BOOLEAN, GetReply(c, failed)
  PROVE  CInv'
<1>1. /\ wire # <<>> /\ Head(wire).by = c /\ wire' = Tail(wire)
      /\ UNCHANGED <<store, wants, stored, answered, orphaned>>
      /\ kept' = IF failed THEN kept \ {c} ELSE kept
  BY DEF GetReply
<1>2. stage[c] = "looking"
  <2>1. 1 \in DOMAIN wire /\ wire[1].by = c /\ wire[1].op = "get"
    BY DEF GetReply, CInv, FetchTypeOK
  <2> QED
    BY <2>1 DEF CInv, OnWire
<1>3. wants[c] \in Keys
  BY <1>2 DEF CInv, StagesOk
<1>4. \E next \in {"hit", "flying"} : stage' = [stage EXCEPT ![c] = next]
  BY DEF GetReply, Hit, Enter
<1>5. OnWire' /\ wire' \in Seq([op : {"get", "put"}, by : Callers])
  BY <1>1, <1>4, Answered DEF CInv
<1>6. FetchTypeOK' /\ OrphansOk'
  BY <1>1, <1>2, <1>4, <1>5 DEF CInv, FetchTypeOK, OrphansOk
<1>7. StagesOk' /\ KeptOk'
  <2>1. CASE wants[c] \in stored /\ ~failed
    BY <1>1, <1>2, <1>3, <2>1, Hits DEF GetReply
  <2>2. CASE ~(wants[c] \in stored /\ ~failed)
    <3>1. Enter(c, wants[c])
      BY <2>2 DEF GetReply
    <3>2. c \notin kept'
      BY <1>1, <2>2 DEF CInv, KeptOk
    <3> QED
      BY <1>1, <1>2, <1>3, <3>1, <3>2, Enters
  <2> QED
    BY <2>1, <2>2
<1> QED
  BY <1>5, <1>6, <1>7 DEF CInv

(* A production ends: whoever still looks or waits for the key is kept if its
   entry is, and those who wait have just been handed that entry.  Somebody is
   loose only while the stack runs. *)
LEMMA EndCInv ==
  ASSUME CInv, Proved!IInv, [Next]_vars, NEW c \in Callers, NEW outcome,
         NEW put \in BOOLEAN, End(c, outcome, put), put => outcome = Entry,
         put => store = "inline" \/ ready = <<>>, UNCHANGED <<store, wants>>
  PROVE  /\ StagesOk' /\ KeptOk' /\ OrphansOk'
         /\ stage' = [stage EXCEPT ![c] = "flying"]
         /\ stored' \subseteq Keys /\ answered' \subseteq Callers
         /\ orphaned' \subseteq kept' /\ kept' \subseteq Callers
<1>1. /\ Proved!Finish(c, outcome)
      /\ stage' = [stage EXCEPT ![c] = "flying"]
  BY SameFlight DEF End
<1>2. /\ pc[c] = "producing" /\ pc'[c] = "returning" /\ key' = key
      /\ \A d \in Callers \ {c} : pc'[d] = pc[d] \/ (pc[d] = "waiting" /\ pc'[d] = "woken")
      /\ \A d \in Callers : pc[d] = "waiting" /\ key[d] = key[c] =>
           /\ pc'[d] = "woken"
           /\ pending'[on'[d]].answer = IF outcome = Thrown THEN None ELSE outcome
  BY <1>1, Proved!FinishMoves, NamesAssumption DEF Answers
<1>3. stage[c] \in {"flying", "storing"} /\ wants[c] \in Keys /\ key[c] = wants[c]
  BY <1>2 DEF CInv, FetchTypeOK, StagesOk
<1>4. /\ stored' \subseteq Keys /\ answered' \subseteq Callers
      /\ orphaned' \subseteq kept' /\ kept' \subseteq Callers
      /\ stored \subseteq stored'
  BY <1>3 DEF End, CInv, FetchTypeOK, Fetching
<1>5. StagesOk'
  BY <1>1, <1>2, <1>3 DEF CInv, FetchTypeOK, StagesOk
<1> DEFINE Others == Fetching(wants[c])
<1>6. ASSUME NEW d \in kept', ~(put /\ d \in Others)
      PROVE  /\ wants'[d] \in stored'
             /\ \/ stage'[d] \in {"looking", "hit"}
                \/ (stage'[d] = "flying" /\ pc'[d] = "woken" /\ pending'[on'[d]].answer # None)
                \/ (stage'[d] = "flying" /\ pc'[d] = "served")
                \/ d \in orphaned'
  <2>1. d \in kept /\ d \in Callers /\ wants'[d] \in stored'
    BY <1>4, <1>6 DEF End, CInv, FetchTypeOK, KeptOk
  <2>2. CASE d \in orphaned
    BY <1>6, <2>1, <2>2 DEF End
  <2>3. CASE stage[d] \in {"looking", "hit"}
    BY <1>1, <1>3, <2>1, <2>3 DEF CInv, FetchTypeOK
  <2>4. CASE stage[d] = "flying" /\ pc[d] = "woken" /\ pending[on[d]].answer # None
    <3>1. [Proved!Next]_(Proved!vars)
      BY StepKeepsFlight, SameFlight
    <3>2. \/ (pc'[d] = "woken" /\ pending'[on'[d]].answer # None)
          \/ pc'[d] = "served"
      BY <2>1, <2>4, <3>1, Proved!AnswersStay, NamesAssumption DEF Answers
    <3> QED
      BY <1>1, <2>1, <2>4, <3>2 DEF CInv, FetchTypeOK
  <2>5. CASE stage[d] = "flying" /\ pc[d] = "served"
    BY <1>1, <1>2, <2>1, <2>5 DEF CInv, FetchTypeOK
  <2> QED
    BY <2>1, <2>2, <2>3, <2>4, <2>5 DEF CInv, KeptOk
<1>7. ASSUME NEW d \in Others, put
      PROVE  /\ wants'[d] \in stored'
             /\ \/ stage'[d] \in {"looking", "hit"}
                \/ (stage'[d] = "flying" /\ pc'[d] = "woken" /\ pending'[on'[d]].answer # None)
                \/ (stage'[d] = "flying" /\ pc'[d] = "served")
                \/ d \in orphaned'
  <2>1. /\ d \in Callers /\ wants[d] = wants[c]
        /\ stage[d] = "looking" \/ pc[d] = "waiting" \/ Loose(d)
        /\ stored' = stored \cup {wants[c]}
    BY <1>7 DEF End, Fetching
  <2>2. d # c /\ stage'[d] = stage[d] /\ wants'[d] \in stored'
    BY <1>1, <1>2, <1>3, <2>1 DEF CInv, FetchTypeOK, Loose
  <2>3. CASE pc[d] = "waiting"
    <3>1. stage[d] = "flying" /\ key[d] = key[c]
      BY <1>3, <2>1, <2>3 DEF CInv, FetchTypeOK, StagesOk
    <3>2. outcome = Entry /\ Entry # Thrown /\ Entry # None
      BY <1>7, NamesAssumption DEF Answers
    <3> QED
      BY <1>2, <2>1, <2>2, <2>3, <3>1, <3>2
  <2>4. CASE Loose(d)
    BY <1>7, <2>2, <2>4 DEF End
  <2> QED
    BY <2>1, <2>2, <2>3, <2>4
<1>8. KeptOk'
  BY <1>6, <1>7 DEF KeptOk
<1>9. OrphansOk'
  <2>1. ASSUME NEW d \in orphaned' PROVE stage'[d] = "flying"
    <3>1. CASE d \in orphaned
      BY <1>1, <3>1 DEF CInv, FetchTypeOK, OrphansOk
    <3>2. CASE d \notin orphaned
      <4>1. d \in Callers /\ Loose(d)
        BY <2>1, <3>2 DEF End, Fetching
      <4> QED
        BY <1>1, <1>2, <4>1 DEF CInv, FetchTypeOK, StagesOk, Loose
    <3> QED
      BY <3>1, <3>2
  <2>2. ASSUME NEW d \in Callers, Loose(d), put PROVE store = "inline" /\ InlineProducers
    <3>1. ready # <<>>
      BY <2>2 DEF Loose, Proved!IInv, Proved!StackOk, Proved!Range
    <3> QED
      BY <1>1, <2>2, <3>1 DEF Proved!Finish
  <2>3. ASSUME orphaned' # {} PROVE store' = "inline" /\ InlineProducers
    <3>1. CASE orphaned # {}
      BY <3>1 DEF CInv, OrphansOk
    <3>2. CASE orphaned = {}
      <4>1. PICK d \in orphaned' : TRUE
        BY <2>3
      <4>2. d \in Callers /\ Loose(d) /\ put
        BY <3>2, <4>1 DEF End, Fetching
      <4> QED
        BY <2>2, <4>2
    <3> QED
      BY <3>1, <3>2
  <2> QED
    BY <2>1, <2>3 DEF OrphansOk
<1> QED
  BY <1>1, <1>4, <1>5, <1>8, <1>9

(* What produce() made goes to the store, or ends the flight. *)
LEMMA MadeCInv ==
  ASSUME CInv, Proved!IInv, [Next]_vars, NEW c \in Callers, NEW outcome \in Answers \cup {Thrown},
         NEW allowed \in BOOLEAN, NEW fits \in BOOLEAN, Made(c, outcome, allowed, fits)
  PROVE  CInv'
<1> DEFINE keep == outcome = Entry /\ store # "none" /\ allowed
<1>1. stage[c] = "flying" /\ UNCHANGED <<store, wants>>
  BY DEF Made
<1>2. CASE keep /\ store = "remote"
  <2>1. /\ pc[c] = "producing"
        /\ stage' = [stage EXCEPT ![c] = "storing"]
        /\ wire' = Append(wire, [op |-> "put", by |-> c])
        /\ UNCHANGED <<stored, answered, kept, orphaned>>
        /\ UNCHANGED flight \/ Flight!Suspend(c)
    BY <1>2 DEF Made
  <2>2. pc' = pc /\ key' = key /\ on' = on /\ pending' = pending
    BY <2>1 DEF flight, Flight!Suspend
  <2>3. OnWire' /\ wire' \in Seq([op : {"get", "put"}, by : Callers])
    BY <1>1, <2>1, Sends DEF CInv
  <2>4. FetchTypeOK'
    BY <1>1, <2>1, <2>3 DEF CInv, FetchTypeOK
  <2>5. StagesOk'
    BY <1>1, <2>1, <2>2 DEF CInv, FetchTypeOK, StagesOk
  <2>6. KeptOk' /\ OrphansOk'
    BY <1>1, <2>1, <2>2, <1>2 DEF CInv, FetchTypeOK, KeptOk, OrphansOk
  <2> QED
    BY <2>3, <2>4, <2>5, <2>6 DEF CInv
<1>3. CASE ~(keep /\ store = "remote")
  <2>1. End(c, outcome, keep /\ fits) /\ wire' = wire
    BY <1>3 DEF Made
  <2>2. /\ StagesOk' /\ KeptOk' /\ OrphansOk'
        /\ stage' = [stage EXCEPT ![c] = "flying"]
        /\ stored' \subseteq Keys /\ answered' \subseteq Callers
        /\ orphaned' \subseteq kept' /\ kept' \subseteq Callers
    <3>1. keep /\ fits => outcome = Entry /\ store = "inline"
      BY <1>3, StoresAssumption DEF CInv, FetchTypeOK
    <3>2. (keep /\ fits) \in BOOLEAN
      OBVIOUS
    <3> HIDE DEF keep
    <3> QED
      BY <1>1, <2>1, <3>1, <3>2, EndCInv
  <2>3. FetchTypeOK'
    BY <1>1, <2>1, <2>2 DEF CInv, FetchTypeOK
  <2>4. OnWire'
    BY <1>1, <2>1, <2>2, WireStays DEF CInv, FetchTypeOK
  <2> QED
    BY <2>2, <2>3, <2>4 DEF CInv
<1> QED
  BY <1>2, <1>3

(* redis has taken the entry, or failed to. *)
LEMMA PutReplyCInv ==
  ASSUME CInv, Proved!IInv, [Next]_vars, NEW c \in Callers, NEW failed \in BOOLEAN, PutReply(c, failed)
  PROVE  CInv'
<1>1. /\ wire # <<>> /\ Head(wire).by = c /\ wire' = Tail(wire)
      /\ End(c, Entry, ~failed) /\ UNCHANGED <<store, wants>>
  BY DEF PutReply
<1>2. /\ StagesOk' /\ KeptOk' /\ OrphansOk'
      /\ stage' = [stage EXCEPT ![c] = "flying"]
      /\ stored' \subseteq Keys /\ answered' \subseteq Callers
      /\ orphaned' \subseteq kept' /\ kept' \subseteq Callers
  BY <1>1, EndCInv DEF PutReply
<1>3. OnWire' /\ wire' \in Seq([op : {"get", "put"}, by : Callers])
  BY <1>1, <1>2, Answered DEF CInv
<1>4. FetchTypeOK'
  BY <1>1, <1>2, <1>3 DEF CInv, FetchTypeOK
<1> QED
  BY <1>2, <1>3, <1>4 DEF CInv

(* The stack runs. *)
LEMMA RunCInv ==
  ASSUME CInv, Proved!IInv, [Next]_vars, NEW c \in Callers, Run(c)
  PROVE  CInv'
<1>1. /\ stage[c] = "flying" /\ Proved!Run(c)
      /\ UNCHANGED <<store, stage, wants, wire, stored, answered, kept, orphaned>>
  BY SameFlight DEF Run
<1>2. /\ key' = key
      /\ pc[c] # "idle" /\ pc'[c] # "idle"
      /\ \A d \in Callers \ {c} : pc'[d] = pc[d]
  BY <1>1, Proved!RunMoves, NamesAssumption DEF Answers
<1>3. FetchTypeOK' /\ OnWire'
  BY <1>1 DEF CInv, FetchTypeOK, OnWire
<1>4. StagesOk'
  BY <1>1, <1>2 DEF CInv, FetchTypeOK, StagesOk
<1>5. ASSUME NEW d \in kept
      PROVE  \/ stage[d] \in {"looking", "hit"}
             \/ (stage[d] = "flying" /\ pc'[d] = "woken" /\ pending'[on'[d]].answer # None)
             \/ (stage[d] = "flying" /\ pc'[d] = "served")
             \/ d \in orphaned
  <2>1. d \in Callers
    BY DEF CInv, FetchTypeOK
  <2>2. CASE stage[d] = "flying" /\ pc[d] = "woken" /\ pending[on[d]].answer # None
    <3>1. [Proved!Next]_(Proved!vars)
      BY StepKeepsFlight, SameFlight
    <3>2. \/ (pc'[d] = "woken" /\ pending'[on'[d]].answer # None)
          \/ pc'[d] = "served"
      BY <2>1, <2>2, <3>1, Proved!AnswersStay, NamesAssumption DEF Answers
    <3> QED
      BY <2>2, <3>2
  <2>3. CASE stage[d] = "flying" /\ pc[d] = "served"
    <3>1. pc[c] # "served"
      BY <1>1 DEF Proved!Run, Proved!Resume, Proved!Suspend, Proved!Return
    <3> QED
      BY <1>2, <2>1, <2>3, <3>1
  <2> QED
    BY <2>2, <2>3 DEF CInv, KeptOk
<1>6. KeptOk' /\ OrphansOk'
  BY <1>1, <1>5 DEF CInv, KeptOk, OrphansOk
<1> QED
  BY <1>3, <1>4, <1>6 DEF CInv

(* A caller that is done is no longer anybody's business. *)
LEMMA LeaveCInv ==
  ASSUME CInv, Proved!IInv, NEW c \in Callers, Leave(c)
  PROVE  CInv'
<1>1. /\ stage[c] \in {"hit", "flying"} /\ ready = <<>>
      /\ stage' = [stage EXCEPT ![c] = "out"] /\ wants' = [wants EXCEPT ![c] = None]
      /\ kept' = kept \ {c} /\ orphaned' = orphaned \ {c} /\ answered' = answered \ {c}
      /\ UNCHANGED <<store, wire, stored>>
  BY DEF Leave, Flight!Leave
<1>2. /\ pc'[c] = "idle"
      /\ \A d \in Callers \ {c} : pc'[d] = pc[d] /\ key'[d] = key[d]
  BY <1>1 DEF Leave, Flight!Leave, flight, CInv, StagesOk, Proved!IInv, Proved!TypeOK
<1>3. \A d \in Callers : pc[d] # "woken"
  BY <1>1 DEF Proved!IInv, Proved!StackOk, Proved!Range
<1>4. FetchTypeOK'
  BY <1>1 DEF CInv, FetchTypeOK
<1>5. OnWire'
  BY <1>1, WireStays DEF CInv, FetchTypeOK
<1>6. StagesOk'
  BY <1>1, <1>2 DEF CInv, FetchTypeOK, StagesOk
<1>7. KeptOk' /\ OrphansOk'
  BY <1>1, <1>2, <1>3 DEF CInv, FetchTypeOK, KeptOk, OrphansOk
<1> QED
  BY <1>4, <1>5, <1>6, <1>7 DEF CInv

(* The invariant of fetch, together with that of the flight, is kept. *)
LEMMA NextCInv == CInv /\ Proved!IInv /\ [Next]_vars => CInv' /\ Proved!IInv'
<1> SUFFICES ASSUME CInv, Proved!IInv, [Next]_vars PROVE CInv' /\ Proved!IInv'
  OBVIOUS
<1>1. Proved!IInv'
  BY StepKeepsFlight, SameFlight, Proved!NextIInv, NamesAssumption DEF Answers
<1>2. ASSUME NEW c \in Callers, NEW k \in Keys, Fetch(c, k) PROVE CInv'
  BY <1>2, FetchCInv
<1>3. ASSUME NEW c \in Callers, Replies(c) PROVE CInv'
  BY <1>3, GetReplyCInv, PutReplyCInv DEF Replies
<1>4. ASSUME NEW c \in Callers, Produces(c) PROVE CInv'
  BY <1>4, MadeCInv DEF Produces
<1>5. ASSUME NEW c \in Callers, Run(c) \/ Leave(c) PROVE CInv'
  BY <1>5, RunCInv, LeaveCInv
<1>6. ASSUME NEW k \in Keys, Drop(k) PROVE CInv'
  <2>1. FetchTypeOK' /\ StagesOk' /\ OnWire'
    BY <1>6 DEF Drop, CInv, FetchTypeOK, StagesOk, OnWire, flight
  <2>2. KeptOk' /\ OrphansOk'
    BY <1>6 DEF Drop, CInv, FetchTypeOK, KeptOk, OrphansOk, flight
  <2> QED
    BY <2>1, <2>2 DEF CInv
<1>7. CASE UNCHANGED vars
  <2>1. UNCHANGED <<pc, key, on, pending, store, stage, wants, wire, stored, answered, kept, orphaned>>
    BY <1>7 DEF vars, flight
  <2>2. FetchTypeOK' /\ StagesOk'
    BY <2>1 DEF CInv, FetchTypeOK, StagesOk
  <2>3. OnWire'
    BY <2>1 DEF CInv, OnWire
  <2>4. KeptOk' /\ OrphansOk'
    BY <2>1 DEF CInv, KeptOk, OrphansOk
  <2> QED
    BY <1>1, <2>2, <2>3, <2>4 DEF CInv
<1> QED
  BY <1>1, <1>2, <1>3, <1>4, <1>5, <1>6, <1>7 DEF Next

(* Nobody fetches, nothing flies, nothing is on the wire. *)
LEMMA InitCInv == Init => CInv /\ Proved!IInv
<1> SUFFICES ASSUME Init PROVE CInv /\ Proved!IInv
  OBVIOUS
<1>1. Proved!IInv
  BY SameFlight, Proved!InitIInv, NamesAssumption DEF Init, Answers
<1>2. CInv
  BY DEF Init, Flight!Init, CInv, FetchTypeOK, StagesOk, OnWire, KeptOk, OrphansOk
<1> QED
  BY <1>1, <1>2
-----------------------------------------------------------------------------
(* The inductive invariant of fetch, and of the flight under it. *)
THEOREM Invariance == Spec => []CInv /\ []Proved!IInv
<1>1. Init => CInv /\ Proved!IInv
  BY InitCInv
<1>2. CInv /\ Proved!IInv /\ [Next]_vars => CInv' /\ Proved!IInv'
  BY NextCInv
<1> QED
  BY <1>1, <1>2, PTL DEF Spec

(* While a production stores its entry it is still the key's flight, and
   redis hears of each caller at most once at a time. *)
THEOREM WireOurs == Spec => []WireIsOurs
<1>1. CInv /\ Proved!IInv => WireIsOurs
  <2> SUFFICES ASSUME CInv, Proved!IInv PROVE WireIsOurs
    OBVIOUS
  <2>1. ASSUME NEW c \in Callers, stage[c] = "storing" PROVE inFlight[wants[c]] = c
    BY <2>1 DEF CInv, StagesOk, Proved!IInv, Proved!FlightsOk
  <2>2. ASSUME NEW c \in Callers
        PROVE  LET mine == {i \in DOMAIN wire : wire[i].by = c} IN
               /\ \A i, j \in mine : i = j
               /\ stage[c] = "looking" <=> \E i \in mine : wire[i].op = "get"
               /\ stage[c] = "storing" <=> \E i \in mine : wire[i].op = "put"
    <3> DEFINE mine == {i \in DOMAIN wire : wire[i].by = c}
    <3>1. \A i, j \in mine : i = j
      BY DEF CInv, OnWire
    <3>2. stage[c] = "looking" <=> \E i \in mine : wire[i].op = "get"
      BY DEF CInv, OnWire
    <3>3. stage[c] = "storing" <=> \E i \in mine : wire[i].op = "put"
      BY DEF CInv, OnWire
    <3> QED
      BY <3>1, <3>2, <3>3
  <2> QED
    BY <2>1, <2>2, Zenon DEF WireIsOurs
<1> QED
  BY <1>1, Invariance, PTL

(* Every variable keeps its type. *)
THEOREM TypeCorrect == Spec => []TypeOK
<1>1. Proved!IInv => Flight!TypeOK
  BY DEF Proved!IInv, Proved!TypeOK, Flight!TypeOK
<1>2. CInv /\ Proved!IInv => TypeOK
  BY <1>1 DEF CInv, FetchTypeOK, TypeOK
<1> QED
  BY <1>2, Invariance, PTL

(* Nobody who was asking when a production stored its entry produces the key
   again while the store holds it, but where the store and the producers end
   in place, and then only a caller a throw had woken. *)
THEOREM StoredOnce == Spec => []StoredBurstProducesOnce
<1>1. CInv => StoredBurstProducesOnce
  <2> SUFFICES ASSUME CInv, NEW c \in kept, pc[c] = "producing"
               PROVE  store = "inline" /\ InlineProducers /\ c \in orphaned
    BY DEF StoredBurstProducesOnce
  <2>1. c \in Callers /\ stage[c] \notin {"looking", "hit"}
    BY DEF CInv, FetchTypeOK, StagesOk
  <2>2. c \in orphaned
    BY <2>1 DEF CInv, KeptOk
  <2> QED
    BY <2>2 DEF CInv, OrphansOk
<1> QED
  BY <1>1, Invariance, PTL
=============================================================================
