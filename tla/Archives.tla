------------------------------ MODULE Archives ------------------------------
(***************************************************************************)
(* One file out of an archive, and out of an archive inside that one       *)
(* (library/common/source/archive).  A path is its segments.  A file is a  *)
(* record: what it is, its size, and, of an archive, its members as they   *)
(* follow one another in it.                                               *)
(***************************************************************************)
EXTENDS LruBySize

CONSTANTS
  MaxUnzip,     \* security.max_unzip: the size of one extracted file, and of all that is kept
  MaxRatio,     \* maxExpansionRatio
  ArchiveNames, \* the segments that end like an archive
  DottedNames,  \* the segments with ".." in them, ".." itself the first
  Files         \* every file there is, those inside others included

ASSUME LimitsAssumption == MaxUnzip \in Nat /\ MaxRatio \in Nat \ {0}
ASSUME NamesAssumption == ".." \in DottedNames
ASSUME FilesAssumption ==
  \A file \in Files :
    /\ file.is # "error" /\ file.size \in Nat
    /\ file.is = "gzip" => file.content \in Files
    /\ file.is \in {"zip", "tar", "ar"} =>
         file.members \in Seq([name : Seq(STRING), content : Files, packed : Nat])

Nothing == <<>>
Error(code) == [is |-> "error", code |-> code]
Erred(result) == result.is = "error"

(* The first segment named like an archive, when something follows it.     *)
SplitArchivePath(path) ==
  LET named == {i \in DOMAIN path : path[i] \in ArchiveNames}
      at == CHOOSE i \in named : \A j \in named : i <= j
  IN  IF named = {} \/ at = Len(path) \/ SubSeq(path, at + 1, Len(path)) = <<"">> THEN Nothing
      ELSE [archive |-> SubSeq(path, 1, at), inside |-> SubSeq(path, at + 1, Len(path))]

-----------------------------------------------------------------------------
(* An index says where every file of an archive sits.  A directory, with   *)
(* nothing after its last slash, is no file.  A name that climbs is not    *)
(* read at all: a zip looks for ".." anywhere in a name, the others for a  *)
(* segment.  An ar names files only, and "./a" and "/a" of a tar are "a".  *)

Climbs(name) == \E i \in DOMAIN name : name[i] = ".."
HasDots(name) == \E i \in DOMAIN name : name[i] \in DottedNames
Nameless(name) == name[Len(name)] = ""

Normalised(name) ==
  LET stays == {i \in DOMAIN name : name[i] \notin {".", ""} \/ i = Len(name)}
  IN  SubSeq(name, CHOOSE i \in stays : \A j \in stays : i <= j, Len(name))

ZipName(name) == IF HasDots(name) \/ Nameless(name) THEN Nothing ELSE name
TarName(name) == IF Climbs(name) \/ Nameless(name) THEN Nothing ELSE Normalised(name)
ArName(name) == IF Len(name) # 1 \/ Climbs(name) \/ Nameless(name) THEN Nothing ELSE name

NameIn(kind, name) ==
  CASE kind = "zip" -> ZipName(name) [] kind = "tar" -> TarName(name) [] OTHER -> ArName(name)

(* Two members of one name: a zip answers with the first, the others with  *)
(* the last.                                                               *)
Entries(file) ==
  LET named(i) == NameIn(file.is, file.members[i].name)
      of(name) == {i \in DOMAIN file.members : named(i) = name}
      wins(name, i) == \A j \in of(name) : IF file.is = "zip" THEN i <= j ELSE j <= i
  IN  [name \in {named(i) : i \in DOMAIN file.members} \ {Nothing} |->
         file.members[CHOOSE i \in of(name) : wins(name, i)]]

(* An archive and its index; one that is damaged has none.  The bytes say  *)
(* which archive it is, and all that says tar is that its header adds up.  *)
Indexed(file) ==
  IF file.whole THEN [is |-> "archive", size |-> file.size, entries |-> Entries(file), zip |-> file.is = "zip"]
  ELSE Error(IF file.is = "tar" THEN "UnsupportedFormat" ELSE "InvalidInput")

TooFar(size, packed) == packed > 0 /\ size \div packed > MaxRatio

(* A gzip is undone whole, up to the limit, and may not hold another.      *)
Gunzip(file) ==
  IF ~file.whole \/ file.content.size > MaxUnzip \/ TooFar(file.content.size, file.size)
  THEN Error("InvalidInput") ELSE file.content

OpenAs(file) == IF file.is \in {"zip", "ar", "tar"} THEN Indexed(file) ELSE Error("UnsupportedFormat")

OpenArchive(file) ==
  IF file.is # "gzip" THEN OpenAs(file)
  ELSE LET undone == Gunzip(file) IN IF Erred(undone) THEN undone ELSE OpenAs(undone)

ReadEntry(archive, entry) ==
  IF entry.content.size > MaxUnzip \/ (archive.zip /\ TooFar(entry.content.size, entry.packed))
  THEN Error("InvalidInput") ELSE entry.content

-----------------------------------------------------------------------------
(* The archives kept in memory, each level on its own.                     *)

Key(bucket, archive) == <<bucket>> \o archive

(* Mutant of ChildKey: an archive inside another is kept by its own name. *)
ChildKeyBare(key, name) == name

ChildKey(key, name) == key \o name

(* What an entry holds, as an archive to go on in.                         *)
Opened(archive, name) ==
  LET data == ReadEntry(archive, archive.entries[name])
  IN  IF Erred(data) THEN data ELSE OpenArchive(data)

(* The path inside is walked a segment at a time.  The first name that is  *)
(* an entry, with more of the path after it, is an archive to go on in;    *)
(* one that cannot be opened ends the walk with its error.                 *)
WalkFrom(kept, archive, key) == [kept |-> kept, archive |-> archive, key |-> key, from |-> 1]

Walked(walk, inside, n) ==
  LET name == SubSeq(inside, walk.from, n)
      child == ChildKey(walk.key, name)
      opened == Opened(walk.archive, name)
      into(kept, archive) == [kept |-> kept, archive |-> archive, key |-> child, from |-> n + 1]
  IN  IF Erred(walk.archive) \/ name \notin DOMAIN walk.archive.entries THEN walk
      ELSE IF Holds(walk.kept, child) THEN into(Promoted(walk.kept, child), walk.kept.node[child].value)
      ELSE IF Erred(opened) THEN into(walk.kept, opened)
      ELSE into(Kept(walk.kept, child, opened, opened.size, MaxUnzip), opened)

(* What is left of the path is the name of the file.                       *)
FileAt(walk, inside) ==
  LET name == SubSeq(inside, walk.from, Len(inside))
  IN  IF Erred(walk.archive) THEN walk.archive
      ELSE IF name \notin DOMAIN walk.archive.entries THEN Error("NotFound")
      ELSE ReadEntry(walk.archive, walk.archive.entries[name])

Walk(kept, archive, key, inside) ==
  LET walk[n \in 0 .. Len(inside)] ==
        IF n = 0 THEN WalkFrom(kept, archive, key) ELSE Walked(walk[n - 1], inside, n)
  IN  walk

(* What is kept and what is answered, once it has been walked.             *)
Dug(walk, inside) == [kept |-> walk.kept, answer |-> FileAt(walk, inside)]

DigArchive(kept, archive, key, inside) == Dug(Walk(kept, archive, key, inside)[Len(inside) - 1], inside)

(* The archive a bucket held, once it was fetched.                         *)
OpenAndDig(kept, file, key, inside) ==
  LET opened == OpenArchive(file)
  IN  IF Erred(opened) THEN [kept |-> kept, answer |-> opened]
      ELSE DigArchive(Kept(kept, key, opened, opened.size, MaxUnzip), opened, key, inside)

(* The same walk with no archives to keep any in.                          *)
Descended(at, inside, n) ==
  LET name == SubSeq(inside, at.from, n)
  IN  IF Erred(at.archive) \/ name \notin DOMAIN at.archive.entries THEN at
      ELSE [archive |-> Opened(at.archive, name), from |-> n + 1]

Descent(file, inside) ==
  LET at[n \in 0 .. Len(inside)] ==
        IF n = 0 THEN [archive |-> OpenArchive(file), from |-> 1] ELSE Descended(at[n - 1], inside, n)
  IN  at

ReadInside(file, inside) == FileAt(Descent(file, inside)[Len(inside) - 1], inside)
=============================================================================
