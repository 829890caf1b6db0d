----------------------------- MODULE FileStore -----------------------------
(***************************************************************************)
(* The cache's store in a directory: one file per key, written beside it   *)
(* and renamed into place, its modification time the clock of the ttl and  *)
(* of the sweep.  Nothing suspends, so get and put are each one step; but  *)
(* the disk may fill up, and the process or the machine may stop in the    *)
(* middle of a put: the next process starts from what is in the directory. *)
(***************************************************************************)
EXTENDS Naturals, FiniteSets, FiniteSetsExt

CONSTANTS None, Ttl, MaxUsage, SizeOf(_),
          Cuts,      \* where a file may lose its end: in the head, in the body
          Mangled    \* what decodeEntry makes of an entry whose body is cut

VARIABLES now,     \* the file clock
          files,   \* the files of the directory, by key
          temps,   \* what the ".tmp" files left behind weigh, by key
          counted, \* held_
          stopped, \* history: a put stopped before it swept, and none has been kept since
          answer   \* what a get has just answered

Nothing == [k \in {} |-> 0]
Init == files = Nothing /\ temps = Nothing /\ counted = 0 /\ stopped = FALSE

Without(f, gone) == [k \in DOMAIN f \ gone |-> f[k]]
And(f, k, x) == [j \in DOMAIN f \cup {k} |-> IF j = k THEN x ELSE f[j]]

Bytes(f) == MapThenSumSet(LAMBDA k : f[k].size, DOMAIN f)
TempBytes(t) == MapThenSumSet(LAMBDA k : t[k], DOMAIN t)

Expired(f, k) == now - f[k].written >= Ttl

(* decodeEntry: only the content type and the name carry their length. *)
Decoded(file) == CASE file.cut = "head" -> None
                   [] file.cut = "body" -> Mangled
                   [] OTHER -> file.entry

(* forget: the file goes and its size is given back. *)
Forget(k) ==
  /\ files' = Without(files, {k})
  /\ counted' = counted - (IF files[k].size > counted THEN counted ELSE files[k].size)

(* get: what has expired or does not decode is removed, a hit is touched. *)
Get(k) ==
  /\ IF k \notin DOMAIN files
     THEN answer' = None /\ UNCHANGED <<files, counted>>
     ELSE IF Expired(files, k) \/ Decoded(files[k]) = None
     THEN answer' = None /\ Forget(k)
     ELSE /\ answer' = Decoded(files[k])
          /\ files' = [files EXCEPT ![k].written = now]
          /\ UNCHANGED counted
  /\ UNCHANGED <<now, temps, stopped>>

(* What a sweep of f keeps: what has expired goes, then one file after the
   other in the order of Before until the rest fits. *)
Swept(f, Before(_, _)) ==
  LET live == {k \in DOMAIN f : ~Expired(f, k)}
      rest(gone) == Without(f, (DOMAIN f \ live) \cup gone)
  IN {rest(gone) : gone \in
        {g \in SUBSET live :
           /\ Bytes(rest(g)) <= MaxUsage
           /\ g # {} => \E last \in g :
                /\ Bytes(rest(g \ {last})) > MaxUsage
                /\ \A k \in g : Before(k, last)
                /\ \A k \in live \ g : Before(last, k)}}

(* Mutants of Sweeps: the newest files go first; what is left is not counted
   again, but forgotten. *)
SweepsNewest(f) ==
  LET newer(j, k) == f[j].written >= f[k].written IN
  \E kept \in Swept(f, newer) : files' = kept /\ counted' = Bytes(kept)

SweepsUncounted(f) ==
  LET older(j, k) == f[j].written <= f[k].written IN
  \E kept \in Swept(f, older) : files' = kept /\ counted' = 0

(* sweep: the oldest go first, and files of one age in any order. *)
Sweeps(f) ==
  LET older(j, k) == f[j].written <= f[k].written IN
  \E kept \in Swept(f, older) : files' = kept /\ counted' = Bytes(kept)

(* What is left of a file that has lost its end: in its body, the head at least. *)
Left(cut, size) == (IF cut = "head" THEN 0 ELSE 1)..(size - 1)

(* A file whose end could not be written when the stream was closed, which
   nothing checks, is renamed into place all the same. *)
Whole(e) == [entry |-> e, cut |-> "no", written |-> now, size |-> SizeOf(e)]
Short(e) == UNION {[entry : {e}, cut : {cut}, written : {now}, size : Left(cut, SizeOf(e))] :
                     cut \in Cuts}

(* Mutant of Replace: the file that is replaced is taken off twice, once as
   if it had been forgotten. *)
ReplaceForgotten(k, e, file) ==
  LET f == And(files, k, file)
      previous == IF k \in DOMAIN files THEN files[k].size ELSE 0
      total == counted + SizeOf(e) - 2 * previous
  IN /\ IF total > MaxUsage
        THEN Sweeps(f) /\ temps' = Nothing
        ELSE files' = f /\ temps' = Without(temps, {k}) /\ counted' = total
     /\ stopped' = FALSE

(* put, once the ".tmp" is written: it replaces the key's file, and the
   directory is swept if what it is thought to hold is over the budget. *)
Replace(k, e, file) ==
  LET f == And(files, k, file)
      previous == IF k \in DOMAIN files THEN files[k].size ELSE 0
      total == counted - previous + SizeOf(e)
  IN /\ IF total > MaxUsage
        THEN Sweeps(f) /\ temps' = Nothing
        ELSE files' = f /\ temps' = Without(temps, {k}) /\ counted' = total
     /\ stopped' = FALSE

(* put *)
Put(k, e) ==
  /\ IF SizeOf(e) > MaxUsage
     THEN UNCHANGED <<files, temps, counted, stopped>>
     ELSE Replace(k, e, Whole(e))
  /\ answer' = None
  /\ UNCHANGED now

PutShort(k, e) ==
  /\ SizeOf(e) <= MaxUsage
  /\ \E file \in Short(e) : Replace(k, e, file)
  /\ answer' = None
  /\ UNCHANGED now

(* The ".tmp" cannot be opened, or it cannot be written or renamed and is
   removed. *)
PutFails(k, e) ==
  /\ SizeOf(e) <= MaxUsage
  /\ temps' \in {temps, Without(temps, {k})}
  /\ answer' = None
  /\ UNCHANGED <<now, files, counted, stopped>>

(* The store is made: the directory is the state. *)
Measured(f, t) == /\ files' = f /\ temps' = t
                  /\ counted' = Bytes(f) + TempBytes(t)
                  /\ answer' = None
                  /\ UNCHANGED now

(* The process stops while it writes the ".tmp", or right after the rename;
   then, or at any other time, a new one starts. *)
StopWriting(k, e) ==
  /\ SizeOf(e) <= MaxUsage
  /\ \E size \in 0..SizeOf(e) : Measured(files, And(temps, k, size))
  /\ UNCHANGED stopped

StopRenamed(k, e) ==
  /\ SizeOf(e) <= MaxUsage
  /\ Measured(And(files, k, Whole(e)), Without(temps, {k}))
  /\ stopped' = TRUE

Restart == Measured(files, temps) /\ UNCHANGED stopped

(* The machine stops: the end of a file was not on the disk yet. *)
PowerCut(k) ==
  /\ k \in DOMAIN files /\ files[k].cut = "no"
  /\ \E cut \in Cuts : \E size \in Left(cut, files[k].size) :
       Measured([files EXCEPT ![k].cut = cut, ![k].size = size], temps)
  /\ UNCHANGED stopped

Entry(k) == IF k \in DOMAIN files THEN Decoded(files[k]) ELSE None
Used(k) == IF Entry(k) # None THEN files[k].written ELSE 0
Size(k) == IF k \in DOMAIN files THEN files[k].size ELSE 0
=============================================================================
