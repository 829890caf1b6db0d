---------------------------- MODULE LocalStores ----------------------------
(***************************************************************************)
(* The stores that answer in this process: storeFor makes a MemoryStore    *)
(* when the cache has no url, and a FileStore for a "file" one.  Whichever *)
(* it is implements EntryStore.                                            *)
(***************************************************************************)
EXTENDS Naturals, Sequences, FiniteSets, Functions

CONSTANTS Keys, Entries, None, Ttl, MaxUsage, SizeOf(_), Cuts, Mangled,
          MaxTime,   \* bound: the last tick
          MaxFaults  \* bound: how often the disk fails or the process stops

ASSUME KeysAssumption == IsFiniteSet(Keys)     \* a key is a digest
ASSUME TtlAssumption == Ttl \in Nat \ {0}     \* a ttl of zero makes no store
ASSUME SizesAssumption == \A e \in Entries : SizeOf(e) \in Nat \ {0}
ASSUME BudgetAssumption == MaxUsage \in Nat
ASSUME CutsAssumption == Cuts \subseteq {"head", "body"}
ASSUME EntriesAssumption == None \notin Entries /\ Mangled \notin Entries \cup {None}
ASSUME BoundsAssumption == MaxTime \in Nat /\ MaxFaults \in Nat

VARIABLES store,   \* what storeFor made: memory or file
          now, memory, files, temps, counted, stopped, answer,
          faults   \* how often the disk has failed or the process stopped

Memory == INSTANCE MemoryStore
File == INSTANCE FileStore

vars == <<store, now, memory, files, temps, counted, stopped, answer, faults>>

Init == /\ store \in {"memory", "file"}
        /\ now = 0
        /\ answer = None
        /\ faults = 0
        /\ Memory!Init /\ File!Init

Get(k) == /\ \/ store = "memory" /\ Memory!Get(k) /\ UNCHANGED <<files, temps, counted, stopped>>
             \/ store = "file" /\ File!Get(k) /\ UNCHANGED memory
          /\ UNCHANGED <<store, faults>>

Put(k, e) == /\ \/ store = "memory" /\ Memory!Put(k, e) /\ UNCHANGED <<files, temps, counted, stopped>>
                \/ store = "file" /\ File!Put(k, e) /\ UNCHANGED memory
             /\ UNCHANGED <<store, faults>>

(* The disk fails a put, or the process ends, at rest or in a put, and starts
   again on its directory. *)
Fault == /\ store = "file"
         /\ faults < MaxFaults
         /\ faults' = faults + 1
         /\ \/ File!Restart
            \/ \E k \in Keys : File!PowerCut(k)
            \/ \E k \in Keys, e \in Entries :
                 \/ File!PutFails(k, e) \/ File!PutShort(k, e)
                 \/ File!StopWriting(k, e) \/ File!StopRenamed(k, e)
         /\ UNCHANGED <<store, memory>>

Tick == /\ now < MaxTime
        /\ now' = now + 1
        /\ answer' = None
        /\ UNCHANGED <<store, memory, files, temps, counted, stopped, faults>>

Next == \/ Tick \/ Fault
        \/ \E k \in Keys : Get(k) \/ \E e \in Entries : Put(k, e)

Spec == Init /\ [][Next]_vars
-----------------------------------------------------------------------------
(* Every variable holds what the code's member can: sizes and counts do not
   go below zero, so the unsigned arithmetic of held_ never wraps. *)
TypeOK ==
  /\ store \in {"memory", "file"}
  /\ now \in 0..MaxTime
  /\ DOMAIN memory.node \subseteq Keys
  /\ memory.order \in Seq(Keys) /\ memory.held \in Nat
  /\ \A k \in DOMAIN files : k \in Keys /\ files[k] \in
       [entry : Entries, cut : {"no"} \cup Cuts, written : 0..MaxTime, size : Nat]
  /\ DOMAIN temps \subseteq Keys
  /\ counted \in Nat
  /\ stopped \in BOOLEAN
  /\ answer \in Entries \cup {None, Mangled}
  /\ faults \in 0..MaxFaults

Entry(k) == IF store = "memory" THEN Memory!Entry(k) ELSE File!Entry(k)
Used(k) == IF store = "memory" THEN Memory!Used(k) ELSE File!Used(k)
Size(k) == IF store = "memory" THEN Memory!Size(k) ELSE File!Size(k)
Usage == SumFunction([k \in Keys |-> Size(k)])

(* The order, the index and the count of the memory store are one list: each
   key is in the order once, with a node, and the count is what they weigh.
   A splice or an eviction that misses one would leave an iterator dangling. *)
ListIsWhole ==
  /\ \A i, j \in DOMAIN memory.order : memory.order[i] = memory.order[j] => i = j
  /\ {memory.order[i] : i \in DOMAIN memory.order} = DOMAIN memory.node
  /\ store = "memory" => memory.held = Usage

(* The file store never thinks it holds less than the directory does, so no
   put that goes over the budget goes unnoticed (file.cpp:87-88).  It may
   think it holds more: what a ".tmp" weighed that a put has since replaced,
   or the end of a file that did not reach the disk. *)
NeverUndercounts == store = "file" => counted >= File!Bytes(files)

(* A store holds its budget, except between a process that stopped after the
   rename and before the sweep (file.cpp:81-88) and the next put that is kept. *)
WithinBudget == ~stopped => Usage <= MaxUsage

(* What a put evicts to make room is what was wanted longest ago, and no more
   than it takes: an unexpired entry that goes was last used before every one
   that stays, and the last to go would not have fitted.  That last one may be
   the new entry itself, or a file that has lost its end: the sweep knows the
   files of one age no order, and does not read them. *)
Alive(k) == IF store = "memory" THEN Memory!Found(k)
            ELSE k \in DOMAIN files /\ ~File!Expired(files, k)

Fresh == {k \in Keys : Alive(k) /\ Entry(k) # None}

OldestGo(k, e) ==
  LET gone == {j \in Fresh \ {k} : Entry(j)' = None}
      stay == {j \in Fresh \ {k} : Entry(j)' # None}
      last == {j \in Keys : (j = k \/ Alive(j)) /\ ~Alive(j)'}
      size(j) == IF j = k THEN SizeOf(e) ELSE Size(j) IN
  gone # {} =>
    /\ \A j \in gone, i \in stay : Used(j) <= Used(i)
    /\ \E j \in last : Usage' + size(j) > MaxUsage

EvictsOldest == [][\A k \in Keys, e \in Entries : Put(k, e) => OldestGo(k, e)]_vars

(* "A truncated or corrupt entry reads as a miss rather than as a bad
   response" (key.cpp:57). *)
TruncatedIsMiss == answer # Mangled

EntryMap == [k \in Keys |-> Entry(k)]
UsedMap == [k \in Keys |-> Used(k)]

(* Either store, through failing disks, stops and restarts, answers with what
   was last put under the key, if that was put or read within the ttl, or with
   nothing (haio_cache.hpp:40-44). *)
Promise == INSTANCE EntryStore WITH entry <- EntryMap, used <- UsedMap
ImplementsPromise == Promise!Spec
=============================================================================
