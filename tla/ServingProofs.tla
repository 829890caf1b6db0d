--------------------------- MODULE ServingProofs ---------------------------
(***************************************************************************)
(* Proofs about Serving, for any connections, requests, buckets, files and *)
(* limits: what a session owes, has asked for and may send, and that it is *)
(* answered from what its own path has held, whatever archives sessions    *)
(* keep between them.  The first part is of sessions, the second of        *)
(* archives and the walk into them, the third of both.                     *)
(***************************************************************************)
EXTENDS Serving, LruProofs

Fields == {"phase", "request", "owed", "asked", "hop", "answer", "source"}

(* What a session is made of; requests, hops and files are what they are.  *)
IsSession(s) == s = [f \in Fields |-> s[f]]

(* A request nothing refuses before its bucket is asked.                   *)
Accepted(request) ==
  /\ request.method \in {"GET", "HEAD"} /\ request.bucket \in DOMAIN Buckets
  /\ request.query # "no such encoding"

(* A session that has read no request owes nothing and has asked nobody.   *)
Idle(s) == ~s.owed /\ s.asked = 0 /\ s.answer = 0 /\ ~s.hop.signed

(* What a session's phase says of the rest of it.                          *)
SessionOk(s) ==
  /\ IsSession(s)
  /\ s.phase \in {"none", "posted", "reading"} => Idle(s)
  /\ s.phase = "fetching" => s.owed /\ s.answer = 0 /\ Accepted(s.request)
  /\ s.asked # 0 => Accepted(s.request) /\ s.answer \notin {405, 429}
  /\ s.hop.signed => s.phase = "fetching" /\ s.hop.host = s.request.bucket
  /\ s.phase = "gone" /\ s.owed => s.request.query = "unreadable"

IInv == /\ session = [c \in Sessions |-> session[c]]
        /\ \A c \in Sessions : SessionOk(session[c])

(* A session in the middle of an accepted request, with no hop any more.   *)
Serves(s) ==
  IsSession(s) /\ s.owed /\ s.answer = 0 /\ ~s.hop.signed /\ Accepted(s.request)
-----------------------------------------------------------------------------
(* One session changes, to one that is as it should be.                    *)
LEMMA OneChanges ==
  ASSUME IInv, NEW c \in Sessions, NEW s, SessionOk(s), session' = [session EXCEPT ![c] = s]
  PROVE  IInv'
<1>1. session' = [d \in Sessions |-> IF d = c THEN s ELSE session[d]]
  BY DEF IInv
<1>2. session' = [d \in Sessions |-> session'[d]]
  BY <1>1
<1>3. ASSUME NEW d \in Sessions PROVE SessionOk(session'[d])
  <2>1. CASE d = c
    BY <1>1, <2>1
  <2>2. CASE d # c
    <3>1. session'[d] = session[d]
      BY <1>1, <2>2
    <3>. QED
      BY <3>1 DEF IInv
  <2>. QED
    BY <2>1, <2>2
<1>. QED
  BY <1>2, <1>3 DEF IInv

LEMMA FreshOk ==
  ASSUME NEW phase \in {"none", "posted", "reading", "gone"}
  PROVE  SessionOk(Fresh(phase))
BY DEF SessionOk, IsSession, Fields, Idle, Fresh, NoRequest, NoHop

(* Whatever is answered is answered.                                       *)
LEMMA AnsweredOk ==
  ASSUME NEW s, Serves(s), NEW status \in {200, 400, 404, 415, 500, 502, 504}
  PROVE  SessionOk(Answers(s, status))
<1>1. IsSession(s)
  BY DEF Serves
<1>. DEFINE t == Answers(s, status)
<1>2. IsSession(t) /\ t.phase = "writing" /\ t.answer = status /\ t.request = s.request /\ t.hop = s.hop
  BY <1>1, ZenonT(60) DEF Answers, IsSession, Fields
<1>. HIDE DEF t
<1>3. ~t.hop.signed /\ Accepted(t.request) /\ t.answer \notin {405, 429}
  BY <1>2 DEF Serves
<1>. QED
  BY <1>2, <1>3 DEF SessionOk, t

(* A conversion is answered, or throws for a query that says nothing.      *)
LEMMA ConvertedOk ==
  ASSUME NEW s, Serves(s), NEW file, NEW done \in Converted(s, file)
  PROVE  SessionOk(done)
<1>1. CASE s.request.query = "unreadable" /\ done = Throws(s)
  <2>1. IsSession(s)
    BY DEF Serves
  <2>2. IsSession(done) /\ done.phase = "gone" /\ done.answer = s.answer
        /\ done.request = s.request /\ done.hop = s.hop
    BY <1>1, <2>1 DEF Throws, IsSession, Fields
  <2>. QED
    BY <1>1, <2>2 DEF SessionOk, Serves
<1>2. CASE \E status \in {200, 400, 415, 500} : done = Answers(s, status)
  BY <1>2, AnsweredOk
<1>3. CASE file.is # "picture"
  <2>1. Converted(s, file) = {Answers(s, StatusFor("UnsupportedFormat"))}
    BY <1>3, ZenonT(60) DEF Converted
  <2>. QED
    BY <1>2, <2>1 DEF StatusFor
<1>4. CASE file.is = "picture"
  <2>. DEFINE query == s.request.query
  <2>1. CASE query = "unreadable"
    BY <1>1, <1>4, <2>1 DEF Converted
  <2>2. CASE query = "too big"
    <3>1. Converted(s, file) = {Answers(s, StatusFor("InvalidInput"))}
      BY <1>4, <2>2, ZenonT(60) DEF Converted
    <3>. QED
      BY <1>2, <3>1 DEF StatusFor
  <2>3. CASE query = "none"
    BY <1>2, <1>4, <2>3 DEF Converted
  <2>4. CASE query \notin {"unreadable", "too big", "none"}
    BY <1>2, <1>4, <2>4, ZenonT(60) DEF Converted
  <2>. QED
    BY <2>1, <2>2, <2>3, <2>4
<1>. QED
  BY <1>3, <1>4

LEMMA FetchedOk ==
  ASSUME NEW s, Serves(s), NEW file, NEW done \in Fetched(s, file)
  PROVE  SessionOk(done)
<1>1. CASE Erred(file)
  <2>1. StatusFor(file.code) \in {200, 400, 404, 415, 500, 502, 504}
    BY DEF StatusFor
  <2>. QED
    BY <1>1, <2>1, AnsweredOk DEF Fetched
<1>2. CASE ~Erred(file)
  BY <1>2, ConvertedOk DEF Fetched
<1>. QED
  BY <1>1, <1>2

(* A request that was accepted stays so whatever its fetch ends with.      *)
LEMMA ArrivesOk ==
  ASSUME IInv, NEW c \in Sessions, NEW s, NEW file, Arrives(c, s, file),
         IsSession(s), s.owed, s.answer = 0, Accepted(s.request)
  PROVE  IInv'
<1>1. PICK source : \E done \in Fetched([s EXCEPT !.source = source, !.hop = NoHop], source) :
                       session' = [session EXCEPT ![c] = done]
  BY DEF Arrives, Settles
<1>. DEFINE t == [s EXCEPT !.source = source, !.hop = NoHop]
<1>2. Serves(t)
  BY DEF Serves, IsSession, Fields, Accepted, NoHop
<1>. HIDE DEF t
<1>3. PICK done \in Fetched(t, source) : session' = [session EXCEPT ![c] = done]
  BY <1>1 DEF t
<1>. QED
  BY <1>2, <1>3, FetchedOk, OneChanges

(* A fetch begins for a request that was accepted and has asked nobody yet. *)
LEMMA FetchesOk ==
  ASSUME IInv, NEW c \in Sessions, NEW s, NEW path, Fetches(c, s, path), Serves(s), s.asked = 0
  PROVE  IInv'
<1>. DEFINE asked == [s EXCEPT !.asked = @ + 1]
            out(signed) == [s EXCEPT !.asked = @ + 1, !.phase = "fetching",
                              !.hop = [number |-> 0, host |-> s.request.bucket, signed |-> signed]]
<1>1. asked = [s EXCEPT !.asked = 1]
  BY DEF Serves
<1>2. \A signed : out(signed) = [s EXCEPT !.asked = 1, !.phase = "fetching",
                                  !.hop = [number |-> 0, host |-> s.request.bucket, signed |-> signed]]
  BY DEF Serves
<1>3. CASE FetchFile(c, s, path)
  <2>1. IsSession(asked) /\ asked.owed /\ asked.answer = 0 /\ Accepted(asked.request)
    BY <1>1 DEF Serves, IsSession, Fields
  <2>2. IsSession(s) /\ s.owed /\ s.answer = 0 /\ Accepted(s.request)
    BY DEF Serves
  <2>3. Arrives(c, s, Error("InvalidInput")) \/ Arrives(c, asked, Held(s.request.bucket, path))
    BY <1>3 DEF FetchFile
  <2>. HIDE DEF asked
  <2>. QED
    BY <2>1, <2>2, <2>3, ArrivesOk
<1>4. ASSUME NEW signed \in BOOLEAN, Asks(c, s, signed) PROVE IInv'
  <2>. DEFINE t == out(signed)
  <2>1. IsSession(s)
    BY DEF Serves
  <2>2. IsSession(t) /\ t.phase = "fetching" /\ t.answer = s.answer /\ t.request = s.request
        /\ t.owed = s.owed /\ t.hop.host = s.request.bucket
    BY <1>2, <2>1 DEF IsSession, Fields
  <2>3. session' = [session EXCEPT ![c] = t]
    BY <1>4 DEF Asks
  <2>. HIDE DEF t
  <2>4. SessionOk(t)
    BY <2>2 DEF Serves, SessionOk
  <2>. QED
    BY <2>3, <2>4, OneChanges
<1>5. Buckets[s.request.bucket].signs \in BOOLEAN
  BY SignsAssumption DEF Serves, Accepted
<1>6. \/ FetchFile(c, s, path) \/ Asks(c, s, FALSE) \/ Asks(c, s, Buckets[s.request.bucket].signs)
  BY DEF Fetches, FetchS3, FetchHttp
<1>. QED
  BY <1>3, <1>4, <1>5, <1>6

(* A fetch, or an archive that is kept already.                            *)
LEMMA ProducesOk ==
  ASSUME IInv, NEW c \in Sessions, NEW s, Produces(c, s), Serves(s), s.asked = 0
  PROVE  IInv'
<1>1. CASE \E path : Fetches(c, s, path)
  BY <1>1, FetchesOk
<1>2. CASE session' = [session EXCEPT ![c] = Answers(s, 400)]
  <2>1. SessionOk(Answers(s, 400))
    BY AnsweredOk
  <2>. QED
    BY <1>2, <2>1, OneChanges, ZenonT(60)
<1>3. CASE \E file : \E next \in Fetched([s EXCEPT !.source = file], file) : session' = [session EXCEPT ![c] = next]
  <2>1. PICK file : \E next \in Fetched([s EXCEPT !.source = file], file) : session' = [session EXCEPT ![c] = next]
    BY <1>3
  <2>. DEFINE t == [s EXCEPT !.source = file]
  <2>2. IsSession(s)
    BY DEF Serves
  <2>3. /\ IsSession(t) /\ t.owed = s.owed /\ t.answer = s.answer
        /\ t.hop = s.hop /\ t.request = s.request
    BY <2>2 DEF IsSession, Fields
  <2>4. PICK next \in Fetched(t, file) : session' = [session EXCEPT ![c] = next]
    BY <2>1
  <2>. HIDE DEF t
  <2>5. Serves(t)
    BY <2>3 DEF Serves
  <2>. QED
    BY <2>4, <2>5, FetchedOk, OneChanges
<1>4. <1>1!1 \/ <1>2!1 \/ <1>3!1
  BY ZenonT(60) DEF Produces
<1>. QED
  BY <1>1, <1>2, <1>3, <1>4

(* A request is refused, or accepted and produced.                         *)
LEMMA HandlesOk ==
  ASSUME IInv, NEW c \in Sessions, NEW s, Handles(c, s),
         IsSession(s), s.owed, s.asked = 0, s.answer = 0, ~s.hop.signed
  PROVE  IInv'
<1>1. ASSUME NEW status \in {400, 404, 405, 429}, session' = [session EXCEPT ![c] = Answers(s, status)]
      PROVE  IInv'
  <2>. DEFINE t == Answers(s, status)
  <2>1. IsSession(t) /\ t.phase = "writing" /\ t.asked = s.asked /\ t.hop = s.hop
    <3>. HIDE <1>1
    <3>. QED
      BY ZenonT(60) DEF Answers, IsSession, Fields
  <2>. HIDE DEF t
  <2>2. SessionOk(t)
    BY <2>1 DEF SessionOk
  <2>. QED
    BY <1>1, <2>2, OneChanges, ZenonT(60) DEF t
<1>2. CASE Accepted(s.request) /\ Produces(c, s)
  BY <1>2, ProducesOk DEF Serves
<1>. DEFINE refused(status) == session' = [session EXCEPT ![c] = Answers(s, status)]
<1>3. \/ refused(400) \/ refused(404) \/ refused(405) \/ refused(429)
      \/ Accepted(s.request) /\ Produces(c, s)
  BY ZenonT(60) DEF Handles, Accepted
<1>. QED
  BY <1>1, <1>2, <1>3

LEMMA ReadOk ==
  ASSUME IInv, NEW c \in Sessions, NEW request, Read(c, request)
  PROVE  IInv'
<1>. DEFINE s == session[c]
            t == [s EXCEPT !.request = request, !.owed = TRUE]
<1>1. IsSession(s) /\ Idle(s) /\ Handles(c, t)
  BY DEF Read, Does, IInv, SessionOk
<1>2. /\ IsSession(t) /\ t.owed = TRUE /\ t.asked = s.asked
      /\ t.answer = s.answer /\ t.hop = s.hop
  BY <1>1 DEF IsSession, Fields
<1>. HIDE DEF t
<1>. QED
  BY <1>1, <1>2, HandlesOk DEF Idle

(* A hop is answered, or leads on without the signature.                   *)
LEMMA HopStepOk ==
  ASSUME IInv, NEW c \in Sessions, Hop(c)
  PROVE  IInv'
<1>. DEFINE s == session[c]
<1>1. SessionOk(s) /\ s.phase = "fetching"
  BY DEF Hop, Does, IInv
<1>2. IsSession(s) /\ s.owed /\ s.answer = 0 /\ Accepted(s.request)
  BY <1>1 DEF SessionOk
<1>3. CASE \E file : Arrives(c, s, file)
  BY <1>2, <1>3, ArrivesOk
<1>4. CASE \E host : session' = [session EXCEPT ![c].hop = Redirected(s.hop, host)]
  <2>1. PICK host : session' = [session EXCEPT ![c].hop = Redirected(s.hop, host)]
    BY <1>4
  <2>. DEFINE t == [s EXCEPT !.hop = Redirected(s.hop, host)]
  <2>2. IsSession(s)
    BY <1>2
  <2>3. /\ IsSession(t) /\ t.phase = s.phase /\ t.owed = s.owed /\ t.answer = s.answer
        /\ t.request = s.request /\ ~t.hop.signed
    <3>. HIDE <1>2
    <3>. QED
      BY <2>2 DEF IsSession, Fields, Redirected
  <2>4. session' = [session EXCEPT ![c] = t]
    BY <2>1
  <2>. HIDE DEF t
  <2>5. SessionOk(t)
    BY <1>1, <2>3 DEF SessionOk
  <2>. QED
    BY <2>4, <2>5, OneChanges
<1>5. <1>3!1 \/ <1>4!1
  BY DEF Hop, FetchFails
<1>. QED
  BY <1>3, <1>4, <1>5

(* Nothing is known of a session before its client asks again.             *)
LEMMA ConnectionOk ==
  ASSUME IInv, NEW c \in Sessions, Accept(c) \/ Start(c) \/ HangUp(c) \/ Write(c)
  PROVE  IInv'
<1>1. CASE Accept(c) \/ Write(c)
  <2>1. PICK phase \in {"none", "posted", "reading", "gone"} : session' = [session EXCEPT ![c] = Fresh(phase)]
    BY <1>1 DEF Accept, Write
  <2>. QED
    BY <2>1, FreshOk, OneChanges
<1>2. CASE Start(c) \/ HangUp(c)
  <2>. DEFINE s == session[c]
  <2>1. PICK phase \in {"reading", "gone"} : session' = [session EXCEPT ![c].phase = phase]
    BY <1>2 DEF Start, HangUp
  <2>2. IsSession(s) /\ Idle(s)
    BY <1>2 DEF Start, HangUp, Does, IInv, SessionOk
  <2>. DEFINE t == [s EXCEPT !.phase = phase]
  <2>3. /\ IsSession(t) /\ t.phase = phase /\ t.owed = s.owed /\ t.asked = s.asked
        /\ t.answer = s.answer /\ t.hop = s.hop
    BY <2>2 DEF IsSession, Fields
  <2>4. session' = [session EXCEPT ![c] = t]
    BY <2>1
  <2>. HIDE DEF t
  <2>5. SessionOk(t)
    BY <2>2, <2>3 DEF SessionOk, Idle
  <2>. QED
    BY <2>4, <2>5, OneChanges
<1>. QED
  BY <1>1, <1>2

LEMMA Initially == Init => IInv
<1>. SUFFICES ASSUME Init PROVE IInv
  OBVIOUS
<1>1. session = [c \in Sessions |-> Fresh("none")]
  BY DEF Init
<1>. QED
  BY <1>1, FreshOk DEF IInv

LEMMA Inductive == IInv /\ [Next]_vars => IInv'
<1>. SUFFICES ASSUME IInv, [Next]_vars PROVE IInv'
  OBVIOUS
<1>1. CASE UNCHANGED session
  BY <1>1 DEF IInv
<1>2. ASSUME NEW c \in Sessions, Accept(c) \/ Start(c) \/ HangUp(c) \/ Write(c) PROVE IInv'
  BY <1>2, ConnectionOk
<1>3. ASSUME NEW c \in Sessions, NEW request, Read(c, request) PROVE IInv'
  BY <1>3, ReadOk
<1>4. ASSUME NEW c \in Sessions, Hop(c) PROVE IInv'
  BY <1>4, HopStepOk
<1>. QED
  BY <1>1, <1>2, <1>3, <1>4 DEF Next, vars, Bind, AcceptFails, Signal, Republish

LEMMA Always == Spec => []IInv
BY Initially, Inductive, PTL DEF Spec

(* However a host redirects, the signature made for it goes to it alone.   *)
THEOREM Signatures == Spec => []SignedOnFirstHop
<1>1. IInv => SignedOnFirstHop
  BY DEF IInv, SessionOk, SignedOnFirstHop
<1>. QED
  BY <1>1, Always, PTL

(* No exception but a query's reaches a session that owes an answer.       *)
THEOREM Drops == Spec => []DropsOnlyBadQueries
<1>1. IInv => DropsOnlyBadQueries
  BY DEF IInv, SessionOk, DropsOnlyBadQueries
<1>. QED
  BY <1>1, Always, PTL

(* A request that is refused before its fetch has not fetched.             *)
THEOREM Refusals == Spec => []RefusedCostsNothing
<1>. DEFINE refused(s) == \/ s.answer \in {405, 429} \/ s.request.method \notin {"GET", "HEAD"}
                         \/ s.request.bucket \notin DOMAIN Buckets \/ s.request.query = "no such encoding"
<1>1. ASSUME IInv, NEW c \in Sessions, session[c].asked # 0
      PROVE  ~refused(session[c])
  <2>1. Accepted(session[c].request) /\ session[c].answer \notin {405, 429}
    BY <1>1 DEF IInv, SessionOk
  <2>. QED
    BY <2>1, ZenonT(60) DEF Accepted
<1>2. (\A c \in Sessions : session[c].owed /\ refused(session[c]) => session[c].asked = 0) => RefusedCostsNothing
  BY Zenon DEF RefusedCostsNothing
<1>3. IInv => RefusedCostsNothing
  <2>. HIDE DEF refused
  <2>. QED
    BY <1>1, <1>2
<1>. QED
  BY <1>3, Always, PTL
-----------------------------------------------------------------------------
(* What an archive may be once it is opened.                               *)
Openable == {OpenArchive(file) : file \in Files}

(* The archives there are, or the error of one that cannot be had.         *)
IsArchive(archive) ==
  /\ archive \in Openable /\ ~Erred(archive) /\ archive.size \in Nat
  /\ \A name \in DOMAIN archive.entries : archive.entries[name].content \in Files
-----------------------------------------------------------------------------
(* Of the places of a name one is the first, and one the last.             *)
LEMMA FirstOf ==
  ASSUME NEW n \in Nat, NEW places \in SUBSET (1..n), places # {}
  PROVE  \E i \in places : \A j \in places : i <= j
<1>1. places \in SUBSET Nat
  OBVIOUS
<1>. QED
  BY <1>1, NatLeast

LEMMA LastOf ==
  ASSUME NEW n \in Nat, NEW places \in SUBSET (1..n), places # {}
  PROVE  \E i \in places : \A j \in places : j <= i
<1>. DEFINE T == {n - i : i \in places}
<1>1. T \in SUBSET Nat /\ T # {}
  <2>1. \A i \in places : n - i \in Nat
    OBVIOUS
  <2>. QED
    BY <2>1
<1>2. PICK x \in T : \A y \in T : x <= y
  <2>. HIDE DEF T
  <2>. QED
    BY <1>1, NatLeast
<1>3. PICK i \in places : x = n - i
  BY <1>2
<1>4. ASSUME NEW j \in places PROVE j <= i
  <2>1. n - i <= n - j
    BY <1>2, <1>3
  <2>. QED
    BY <2>1
<1>. QED
  BY <1>4

(* An entry of an index is a member, and what it holds a file.             *)
LEMMA EntriesOk ==
  ASSUME NEW file \in Files, file.is \in {"zip", "tar", "ar"}, NEW name \in DOMAIN Entries(file)
  PROVE  Entries(file)[name].content \in Files
<1>. DEFINE n == Len(file.members)
            named(i) == NameIn(file.is, file.members[i].name)
            of(x) == {i \in DOMAIN file.members : named(i) = x}
            wins(x, i) == \A j \in of(x) : IF file.is = "zip" THEN i <= j ELSE j <= i
            at == CHOOSE i \in of(name) : wins(name, i)
<1>1. n \in Nat /\ DOMAIN file.members = 1..n /\ \A i \in 1..n : file.members[i].content \in Files
  <2>. DEFINE Members == [name : Seq(STRING), content : Files, packed : Nat]
  <2>1. file.members \in Seq(Members)
    BY FilesAssumption
  <2>2. \A member \in Members : member.content \in Files
    OBVIOUS
  <2>. HIDE DEF Members
  <2>3. n \in Nat /\ DOMAIN file.members = 1..n /\ \A i \in 1..n : file.members[i] \in Members
    BY <2>1
  <2>. QED
    BY <2>2, <2>3
<1>2. /\ name \in {named(i) : i \in DOMAIN file.members}
      /\ Entries(file)[name] = file.members[at]
  BY DEF Entries
<1>3. of(name) \in SUBSET (1..n) /\ of(name) # {}
  BY <1>1, <1>2
<1>4. \E i \in of(name) : wins(name, i)
  <2>. HIDE DEF of, n
  <2>1. CASE file.is = "zip"
    BY <1>1, <1>3, <2>1, FirstOf
  <2>2. CASE file.is # "zip"
    BY <1>1, <1>3, <2>2, LastOf
  <2>. QED
    BY <2>1, <2>2
<1>5. at \in of(name)
  BY <1>4
<1>. HIDE DEF at
<1>. QED
  BY <1>1, <1>2, <1>5

LEMMA IndexedOk ==
  ASSUME NEW file \in Files, file.is \in {"zip", "tar", "ar"}, ~Erred(Indexed(file))
  PROVE  /\ Indexed(file).size \in Nat
         /\ \A name \in DOMAIN Indexed(file).entries : Indexed(file).entries[name].content \in Files
<1>1. Indexed(file).size = file.size /\ Indexed(file).entries = Entries(file)
  BY DEF Indexed, Erred, Error
<1>2. file.size \in Nat
  BY FilesAssumption
<1>. QED
  BY <1>1, <1>2, EntriesOk

(* A file that opens is an archive of files.                               *)
LEMMA OpenedOk ==
  ASSUME NEW file \in Files, ~Erred(OpenArchive(file))
  PROVE  IsArchive(OpenArchive(file))
<1>1. ASSUME NEW inner \in Files, ~Erred(OpenAs(inner))
      PROVE  /\ OpenAs(inner).size \in Nat
             /\ \A name \in DOMAIN OpenAs(inner).entries : OpenAs(inner).entries[name].content \in Files
  <2>1. inner.is \in {"zip", "tar", "ar"} /\ OpenAs(inner) = Indexed(inner)
    BY <1>1 DEF OpenAs, Erred, Error
  <2>. QED
    BY <1>1, <2>1, IndexedOk
<1>2. PICK inner \in Files : OpenArchive(file) = OpenAs(inner)
  <2>1. CASE file.is # "gzip"
    BY <2>1 DEF OpenArchive
  <2>2. CASE file.is = "gzip"
    <3>1. ~Erred(Gunzip(file)) /\ OpenArchive(file) = OpenAs(Gunzip(file))
      BY <2>2 DEF OpenArchive
    <3>2. Gunzip(file) = file.content
      BY <3>1 DEF Gunzip, Erred, Error
    <3>. QED
      BY <2>2, <3>1, <3>2, FilesAssumption
  <2>. QED
    BY <2>1, <2>2
<1>. QED
  BY <1>1, <1>2 DEF IsArchive, Openable
-----------------------------------------------------------------------------
(* A walk, segment by segment. *)
LEMMA WalkIs ==
  ASSUME NEW lru, NEW archive, NEW key, NEW inside, Len(inside) \in Nat
  PROVE  /\ Walk(lru, archive, key, inside)[0] = WalkFrom(lru, archive, key)
         /\ \A n \in 1..Len(inside) : Walk(lru, archive, key, inside)[n] = Walked(Walk(lru, archive, key, inside)[n - 1], inside, n)
<1>. DEFINE Nth(f, i) == Walked(f[i - 1], inside, i)
            Is(f, n) == f = [i \in 0..n |-> IF i = 0 THEN WalkFrom(lru, archive, key) ELSE Nth(f, i)]
            Ends == {n \in Nat : \E f : Is(f, n)}
<1>1. 0 \in Ends
  <2>1. Is([i \in 0..0 |-> WalkFrom(lru, archive, key)], 0)
    OBVIOUS
  <2>. QED
    BY <2>1
<1>2. ASSUME NEW n \in Ends PROVE n + 1 \in Ends
  <2>1. PICK f : Is(f, n)
    OBVIOUS
  <2>. DEFINE g == [i \in 0..n + 1 |-> IF i = n + 1 THEN Nth(f, n + 1) ELSE f[i]]
  <2>2. n \in Nat /\ n + 1 # 0 /\ (n + 1) - 1 = n
    OBVIOUS
  <2>3. \A i \in 0..n : g[i] = f[i]
    BY <2>2
  <2>4. g[n + 1] = Nth(f, n + 1)
    BY <2>2
  <2>5. DOMAIN g = 0..n + 1 /\ g = [i \in 0..n + 1 |-> g[i]]
    OBVIOUS
  <2>. HIDE DEF g
  <2>6. g[0] = WalkFrom(lru, archive, key)
    BY <2>1, <2>2, <2>3
  <2>7. ASSUME NEW i \in 1..n + 1 PROVE g[i] = Nth(g, i)
    <3>1. i - 1 \in 0..n /\ g[i - 1] = f[i - 1]
      BY <2>2, <2>3
    <3>2. CASE i = n + 1
      BY <2>4, <3>1, <3>2
    <3>3. CASE i # n + 1
      <4>1. i \in 0..n /\ i # 0
        BY <2>2, <3>3
      <4>. QED
        BY <2>1, <2>3, <3>1, <4>1
    <3>. QED
      BY <3>2, <3>3
  <2>. HIDE DEF Nth
  <2>8. \A i \in 0..n + 1 : g[i] = IF i = 0 THEN WalkFrom(lru, archive, key) ELSE Nth(g, i)
    BY <2>2, <2>6, <2>7
  <2>9. Is(g, n + 1)
    BY <2>5, <2>8
  <2>. QED
    BY <2>2, <2>9
<1>3. Ends = Nat
  <2>. HIDE DEF Ends
  <2>1. Ends \in SUBSET Nat
    BY DEF Ends
  <2>. QED
    BY <1>1, <1>2, <2>1, NatSetInduction
<1>4. PICK f : Is(f, Len(inside))
  BY <1>3
<1>5. Walk(lru, archive, key, inside) = CHOOSE g : Is(g, Len(inside))
  BY DEF Walk
<1>. HIDE DEF Nth
<1>6. Is(Walk(lru, archive, key, inside), Len(inside))
  <2>. HIDE DEF Is
  <2>. QED
    BY <1>4, <1>5
<1>7. \A n \in 0..Len(inside) : Walk(lru, archive, key, inside)[n] = IF n = 0 THEN WalkFrom(lru, archive, key) ELSE Nth(Walk(lru, archive, key, inside), n)
  BY <1>6
<1>. QED
  BY <1>7 DEF Nth

(* And a walk that keeps nothing. *)
LEMMA DescentIs ==
  ASSUME NEW file, NEW inside, Len(inside) \in Nat
  PROVE  /\ Descent(file, inside)[0] = [archive |-> OpenArchive(file), from |-> 1]
         /\ \A n \in 1..Len(inside) : Descent(file, inside)[n] = Descended(Descent(file, inside)[n - 1], inside, n)
<1>. DEFINE Nth(f, i) == Descended(f[i - 1], inside, i)
            Is(f, n) == f = [i \in 0..n |-> IF i = 0 THEN [archive |-> OpenArchive(file), from |-> 1] ELSE Nth(f, i)]
            Ends == {n \in Nat : \E f : Is(f, n)}
<1>1. 0 \in Ends
  <2>1. Is([i \in 0..0 |-> [archive |-> OpenArchive(file), from |-> 1]], 0)
    OBVIOUS
  <2>. QED
    BY <2>1
<1>2. ASSUME NEW n \in Ends PROVE n + 1 \in Ends
  <2>1. PICK f : Is(f, n)
    OBVIOUS
  <2>. DEFINE g == [i \in 0..n + 1 |-> IF i = n + 1 THEN Nth(f, n + 1) ELSE f[i]]
  <2>2. n \in Nat /\ n + 1 # 0 /\ (n + 1) - 1 = n
    OBVIOUS
  <2>3. \A i \in 0..n : g[i] = f[i]
    BY <2>2
  <2>4. g[n + 1] = Nth(f, n + 1)
    BY <2>2
  <2>5. DOMAIN g = 0..n + 1 /\ g = [i \in 0..n + 1 |-> g[i]]
    OBVIOUS
  <2>. HIDE DEF g
  <2>6. g[0] = [archive |-> OpenArchive(file), from |-> 1]
    BY <2>1, <2>2, <2>3
  <2>7. ASSUME NEW i \in 1..n + 1 PROVE g[i] = Nth(g, i)
    <3>1. i - 1 \in 0..n /\ g[i - 1] = f[i - 1]
      BY <2>2, <2>3
    <3>2. CASE i = n + 1
      BY <2>4, <3>1, <3>2
    <3>3. CASE i # n + 1
      <4>1. i \in 0..n /\ i # 0
        BY <2>2, <3>3
      <4>. QED
        BY <2>1, <2>3, <3>1, <4>1
    <3>. QED
      BY <3>2, <3>3
  <2>. HIDE DEF Nth
  <2>8. \A i \in 0..n + 1 : g[i] = IF i = 0 THEN [archive |-> OpenArchive(file), from |-> 1] ELSE Nth(g, i)
    BY <2>2, <2>6, <2>7
  <2>9. Is(g, n + 1)
    BY <2>5, <2>8
  <2>. QED
    BY <2>2, <2>9
<1>3. Ends = Nat
  <2>. HIDE DEF Ends
  <2>1. Ends \in SUBSET Nat
    BY DEF Ends
  <2>. QED
    BY <1>1, <1>2, <2>1, NatSetInduction
<1>4. PICK f : Is(f, Len(inside))
  BY <1>3
<1>5. Descent(file, inside) = CHOOSE g : Is(g, Len(inside))
  BY DEF Descent
<1>. HIDE DEF Nth
<1>6. Is(Descent(file, inside), Len(inside))
  <2>. HIDE DEF Is
  <2>. QED
    BY <1>4, <1>5
<1>7. \A n \in 0..Len(inside) : Descent(file, inside)[n] = IF n = 0 THEN [archive |-> OpenArchive(file), from |-> 1] ELSE Nth(Descent(file, inside), n)
  BY <1>6
<1>. QED
  BY <1>7 DEF Nth

(* A walk is as far as some segment, and a shorter path leads as far.      *)
LEMMA PrefixIs ==
  ASSUME NEW S, NEW path \in Seq(S), NEW m \in 0..Len(path)
  PROVE  /\ SubSeq(path, 1, m) \in Seq(S) /\ Len(SubSeq(path, 1, m)) = m
         /\ \A from \in 1..m : \A n \in from..m : SubSeq(SubSeq(path, 1, m), from, n) = SubSeq(path, from, n)
<1>1. Len(path) \in Nat /\ \A i \in 1..m : path[i] \in S
  OBVIOUS
<1>2. SubSeq(path, 1, m) \in Seq(S) /\ Len(SubSeq(path, 1, m)) = (IF 1 <= m THEN m - 1 + 1 ELSE 0)
  BY <1>1, SubSeqProperties
<1>3. Len(SubSeq(path, 1, m)) = m
  BY <1>1, <1>2
<1>4. ASSUME NEW from \in 1..m, NEW n \in from..m
      PROVE  SubSeq(SubSeq(path, 1, m), from, n) = SubSeq(path, from, n)
  <2>1. /\ 1 \in 1..Len(path) /\ m \in 1..Len(path) /\ from \in 1..m - 1 + 1 /\ n \in 1..m - 1 + 1
        /\ 1 + from - 1 = from /\ 1 + n - 1 = n
    BY <1>1
  <2>2. SubSeq(SubSeq(path, 1, m), from, n) = SubSeq(path, 1 + from - 1, 1 + n - 1)
    BY <1>2, <2>1, SubSeqOfSubSeq
  <2>. QED
    BY <2>1, <2>2
<1>. QED
  BY <1>2, <1>3, <1>4

LEMMA DescentFrom ==
  ASSUME NEW file, NEW S, NEW inside \in Seq(S)
  PROVE  \A n \in 0..Len(inside) :
           /\ Descent(file, inside)[n] = [archive |-> Descent(file, inside)[n].archive,
                                          from |-> Descent(file, inside)[n].from]
           /\ Descent(file, inside)[n].from \in 1..n + 1
<1>. DEFINE at == Descent(file, inside)
            IsAt(x, n) == x = [archive |-> x.archive, from |-> x.from] /\ x.from \in 1..n + 1
            Ns == {n \in Nat : n <= Len(inside) => IsAt(at[n], n)}
<1>1. /\ Len(inside) \in Nat /\ at[0] = [archive |-> OpenArchive(file), from |-> 1]
      /\ \A n \in 1..Len(inside) : at[n] = Descended(at[n - 1], inside, n)
  BY DescentIs
<1>. HIDE DEF at
<1>2. 0 \in Ns
  BY <1>1
<1>3. ASSUME NEW n \in Ns PROVE n + 1 \in Ns
  <2>. SUFFICES ASSUME n + 1 <= Len(inside) PROVE IsAt(at[n + 1], n + 1)
    OBVIOUS
  <2>1. n \in Nat /\ n + 1 \in 1..Len(inside) /\ (n + 1) - 1 = n /\ IsAt(at[n], n)
    BY <1>1
  <2>2. at[n + 1] = Descended(at[n], inside, n + 1)
    BY <1>1, <2>1
  <2>3. at[n + 1] = at[n] \/ \E archive : at[n + 1] = [archive |-> archive, from |-> (n + 1) + 1]
    BY <2>2 DEF Descended
  <2>4. CASE at[n + 1] = at[n]
    <3>1. at[n].from \in 1..(n + 1) + 1
      BY <2>1
    <3>. QED
      BY <2>1, <2>4, <3>1
  <2>5. ASSUME NEW archive, at[n + 1] = [archive |-> archive, from |-> (n + 1) + 1] PROVE IsAt(at[n + 1], n + 1)
    BY <2>1, <2>5
  <2>. QED
    BY <2>3, <2>4, <2>5
<1>4. Ns = Nat
  <2>. HIDE DEF Ns
  <2>1. Ns \in SUBSET Nat
    BY DEF Ns
  <2>. QED
    BY <1>2, <1>3, <2>1, NatSetInduction
<1>. HIDE DEF IsAt
<1>5. \A n \in 0..Len(inside) : IsAt(at[n], n)
  BY <1>1, <1>4
<1>. QED
  BY <1>5 DEF IsAt, at

LEMMA DescentPrefix ==
  ASSUME NEW file, NEW S, NEW inside \in Seq(S), NEW m \in 0..Len(inside)
  PROVE  Descent(file, SubSeq(inside, 1, m))[m] = Descent(file, inside)[m]
<1>. DEFINE short == SubSeq(inside, 1, m)
            at == Descent(file, inside)
            to == Descent(file, short)
            Ns == {n \in Nat : n <= m => to[n] = at[n]}
<1>1. /\ Len(inside) \in Nat /\ at[0] = [archive |-> OpenArchive(file), from |-> 1]
      /\ \A n \in 1..Len(inside) : at[n] = Descended(at[n - 1], inside, n)
  BY DescentIs
<1>2. short \in Seq(S) /\ Len(short) = m
      /\ \A from \in 1..m : \A n \in from..m : SubSeq(short, from, n) = SubSeq(inside, from, n)
  BY PrefixIs
<1>3. m \in Nat /\ Len(short) \in Nat
  BY <1>1, <1>2
<1>4. /\ to[0] = [archive |-> OpenArchive(file), from |-> 1]
      /\ \A n \in 1..m : to[n] = Descended(to[n - 1], short, n)
  <2>. HIDE DEF short
  <2>. QED
    BY <1>2, <1>3, DescentIs
<1>5. \A n \in 0..Len(inside) : at[n].from \in 1..n + 1
  BY DescentFrom
<1>. HIDE DEF at, to, short
<1>6. 0 \in Ns
  BY <1>1, <1>4
<1>7. ASSUME NEW n \in Ns PROVE n + 1 \in Ns
  <2>. SUFFICES ASSUME n + 1 <= m PROVE to[n + 1] = at[n + 1]
    OBVIOUS
  <2>1. n \in Nat /\ n + 1 \in 1..m /\ n + 1 \in 1..Len(inside) /\ (n + 1) - 1 = n /\ to[n] = at[n]
    BY <1>1, <1>3
  <2>2. to[n + 1] = Descended(at[n], short, n + 1) /\ at[n + 1] = Descended(at[n], inside, n + 1)
    BY <1>1, <1>4, <2>1
  <2>3. at[n].from \in 1..m /\ n + 1 \in at[n].from..m
    BY <1>3, <1>5, <2>1
  <2>4. SubSeq(short, at[n].from, n + 1) = SubSeq(inside, at[n].from, n + 1)
    BY <1>2, <2>3
  <2>. QED
    BY <2>2, <2>4 DEF Descended
<1>8. Ns = Nat
  <2>. HIDE DEF Ns
  <2>1. Ns \in SUBSET Nat
    BY DEF Ns
  <2>. QED
    BY <1>6, <1>7, <2>1, NatSetInduction
<1>. QED
  BY <1>3, <1>8 DEF at, to, short

(* An archive that does not open is all there is of it.                    *)
LEMMA NeverOpens ==
  ASSUME NEW file, Erred(OpenArchive(file)), NEW S, NEW inside \in Seq(S)
  PROVE  \A n \in 0..Len(inside) : Descent(file, inside)[n].archive = OpenArchive(file)
<1>. DEFINE at == Descent(file, inside)
            Ns == {n \in Nat : n <= Len(inside) => at[n].archive = OpenArchive(file)}
<1>1. /\ Len(inside) \in Nat /\ at[0] = [archive |-> OpenArchive(file), from |-> 1]
      /\ \A n \in 1..Len(inside) : at[n] = Descended(at[n - 1], inside, n)
  BY DescentIs
<1>. HIDE DEF at
<1>2. 0 \in Ns
  BY <1>1
<1>3. ASSUME NEW n \in Ns PROVE n + 1 \in Ns
  <2>. SUFFICES ASSUME n + 1 <= Len(inside) PROVE at[n + 1].archive = OpenArchive(file)
    OBVIOUS
  <2>1. n + 1 \in 1..Len(inside) /\ (n + 1) - 1 = n /\ at[n].archive = OpenArchive(file)
    BY <1>1
  <2>2. at[n + 1] = Descended(at[n], inside, n + 1)
    BY <1>1, <2>1
  <2>. QED
    BY <2>1, <2>2 DEF Descended
<1>4. Ns = Nat
  <2>. HIDE DEF Ns
  <2>1. Ns \in SUBSET Nat
    BY DEF Ns
  <2>. QED
    BY <1>2, <1>3, <2>1, NatSetInduction
<1>. QED
  BY <1>1, <1>4 DEF at
-----------------------------------------------------------------------------
(* A path as far as the first segment named like an archive.               *)
NamesArchive(archive) ==
  /\ archive \in Seq(STRING) /\ Len(archive) > 0 /\ archive[Len(archive)] \in ArchiveNames
  /\ \A i \in 1..Len(archive) - 1 : archive[i] \notin ArchiveNames

(* A key says which bucket, which archive in it and which path inside.     *)
IsKey(key, bucket, archive, inside) ==
  /\ Len(archive) \in Nat /\ Len(inside) \in Nat /\ Len(key) = 1 + Len(archive) + Len(inside)
  /\ key[1] = bucket
  /\ \A i \in 1..Len(archive) : key[1 + i] = archive[i]
  /\ \A i \in 1..Len(inside) : key[1 + Len(archive) + i] = inside[i]

LEMMA KeyIs ==
  ASSUME NEW bucket \in DOMAIN Origin, NEW archive \in Seq(STRING), NEW inside \in Seq(STRING)
  PROVE  IsKey(Key(bucket, archive) \o inside, bucket, archive, inside)
<1>. DEFINE S == STRING \cup DOMAIN Origin
            top == <<bucket>> \o archive
            key == top \o inside
<1>1. <<bucket>> \in Seq(S) /\ Len(<<bucket>>) = 1 /\ <<bucket>>[1] = bucket
  OBVIOUS
<1>2. archive \in Seq(S) /\ inside \in Seq(S) /\ Len(archive) \in Nat /\ Len(inside) \in Nat
  OBVIOUS
<1>. HIDE DEF S
<1>3. /\ top \in Seq(S) /\ Len(top) = 1 + Len(archive)
      /\ \A i \in 1..1 + Len(archive) : top[i] = IF i <= 1 THEN <<bucket>>[i] ELSE archive[i - 1]
  BY <1>1, <1>2, ConcatProperties
<1>. HIDE DEF top
<1>. HIDE DEF key
<1>4. /\ Len(key) = 1 + Len(archive) + Len(inside)
      /\ \A i \in 1..1 + Len(archive) + Len(inside) :
           key[i] = IF i <= 1 + Len(archive) THEN top[i] ELSE inside[i - (1 + Len(archive))]
  <2>1. /\ Len(key) = Len(top) + Len(inside)
        /\ \A i \in 1..Len(top) + Len(inside) : key[i] = IF i <= Len(top) THEN top[i] ELSE inside[i - Len(top)]
    <3>1. top \in Seq(S) /\ inside \in Seq(S)
      BY <1>2, <1>3
    <3>. QED
      BY <3>1, ConcatProperties DEF key
  <2>. QED
    BY <1>3, <2>1
<1>5. Key(bucket, archive) \o inside = key
  BY DEF Key, top, key
<1>6. key[1] = bucket
  <2>1. 1 \in 1..1 + Len(archive) /\ 1 \in 1..1 + Len(archive) + Len(inside) /\ 1 <= 1 + Len(archive)
    BY <1>2
  <2>2. key[1] = top[1]
    BY <1>4, <2>1
  <2>3. top[1] = <<bucket>>[1]
    BY <1>3, <2>1
  <2>. QED
    BY <1>1, <2>2, <2>3
<1>7. ASSUME NEW i \in 1..Len(archive) PROVE key[1 + i] = archive[i]
  <2>1. 1 + i \in 1..1 + Len(archive) /\ 1 + i \in 1..1 + Len(archive) + Len(inside) /\ ~(1 + i <= 1) /\ (1 + i) - 1 = i
    BY <1>2
  <2>. QED
    BY <1>3, <1>4, <2>1
<1>8. ASSUME NEW i \in 1..Len(inside) PROVE key[1 + Len(archive) + i] = inside[i]
  <2>. DEFINE j == 1 + Len(archive) + i
  <2>1. j \in 1..1 + Len(archive) + Len(inside) /\ ~(j <= 1 + Len(archive)) /\ j - (1 + Len(archive)) = i
    BY <1>2
  <2>. HIDE DEF j
  <2>2. key[j] = inside[i]
    BY <1>4, <2>1
  <2>. QED
    BY <2>2 DEF j
<1>. QED
  BY <1>2, <1>4, <1>5, <1>6, <1>7, <1>8 DEF IsKey

(* A path into a bucket, as far as an archive and on inside it.            *)
IsPath(bucket, archive, inside) ==
  bucket \in DOMAIN Origin /\ NamesArchive(archive) /\ inside \in Seq(STRING)

LEMMA SameKey ==
  ASSUME NEW bucket1, NEW archive1, NEW inside1, NEW bucket2, NEW archive2, NEW inside2,
         IsPath(bucket1, archive1, inside1), IsPath(bucket2, archive2, inside2),
         Key(bucket1, archive1) \o inside1 = Key(bucket2, archive2) \o inside2
  PROVE  bucket1 = bucket2 /\ archive1 = archive2 /\ inside1 = inside2
<1>. /\ bucket1 \in DOMAIN Origin /\ NamesArchive(archive1) /\ inside1 \in Seq(STRING)
     /\ bucket2 \in DOMAIN Origin /\ NamesArchive(archive2) /\ inside2 \in Seq(STRING)
  BY DEF IsPath
<1>. DEFINE key == Key(bucket1, archive1) \o inside1
<1>0. archive1 \in Seq(STRING) /\ archive2 \in Seq(STRING)
  BY DEF NamesArchive
<1>1. IsKey(key, bucket1, archive1, inside1)
  BY <1>0, KeyIs
<1>2. IsKey(key, bucket2, archive2, inside2)
  BY <1>0, KeyIs
<1>. HIDE DEF key
<1>3. ~(Len(archive1) < Len(archive2))
  <2>. SUFFICES ASSUME Len(archive1) < Len(archive2) PROVE FALSE
    OBVIOUS
  <2>1. Len(archive1) \in 1..Len(archive2) - 1 /\ Len(archive1) \in 1..Len(archive1)
    BY <1>1, <1>2 DEF NamesArchive, IsKey
  <2>2. archive1[Len(archive1)] = archive2[Len(archive1)]
    BY <1>1, <1>2, <2>1, SMTT(30) DEF IsKey
  <2>. QED
    BY <2>1, <2>2 DEF NamesArchive
<1>4. ~(Len(archive2) < Len(archive1))
  <2>. SUFFICES ASSUME Len(archive2) < Len(archive1) PROVE FALSE
    OBVIOUS
  <2>1. Len(archive2) \in 1..Len(archive1) - 1 /\ Len(archive2) \in 1..Len(archive2)
    BY <1>1, <1>2 DEF NamesArchive, IsKey
  <2>2. Len(archive2) \in 1..Len(archive1)
    BY <2>1
  <2>3. archive1[Len(archive2)] = key[1 + Len(archive2)] /\ archive2[Len(archive2)] = key[1 + Len(archive2)]
    BY <1>1, <1>2, <2>1, <2>2 DEF IsKey
  <2>. QED
    BY <2>1, <2>3 DEF NamesArchive
<1>5. Len(archive1) = Len(archive2) /\ Len(inside1) = Len(inside2)
  BY <1>1, <1>2, <1>3, <1>4 DEF IsKey
<1>6. \A s, t \in Seq(STRING) : Len(s) = Len(t) /\ (\A i \in 1..Len(s) : s[i] = t[i]) => s = t
  BY SeqEqual
<1>7. archive1 = archive2
  BY <1>0, <1>1, <1>2, <1>5, <1>6 DEF IsKey
<1>8. inside1 = inside2
  BY <1>1, <1>2, <1>5, <1>6 DEF IsKey
<1>. QED
  BY <1>1, <1>2, <1>7, <1>8 DEF IsKey

(* The key of an archive inside is that of its path.                       *)
LEMMA ChildIs ==
  ASSUME NEW bucket \in DOMAIN Origin, NEW archive \in Seq(STRING), NEW inside \in Seq(STRING),
         NEW n \in 1..Len(inside), NEW from \in 1..n
  PROVE  ChildKey(Key(bucket, archive) \o SubSeq(inside, 1, from - 1), SubSeq(inside, from, n))
           = Key(bucket, archive) \o SubSeq(inside, 1, n)
<1>. DEFINE S == STRING \cup DOMAIN Origin
            top == Key(bucket, archive)
            first == SubSeq(inside, 1, from - 1)
            next == SubSeq(inside, from, n)
<1>1. top \in Seq(S)
  <2>1. <<bucket>> \in Seq(S) /\ archive \in Seq(S)
    OBVIOUS
  <2>. HIDE DEF S
  <2>. QED
    BY <2>1, ConcatProperties DEF Key
<1>2. inside \in Seq(S) /\ Len(inside) \in Nat
  OBVIOUS
<1>. HIDE DEF S, top
<1>3. \A i \in 1..Len(inside) : inside[i] \in S
  BY <1>2
<1>4. first \in Seq(S) /\ next \in Seq(S)
  BY <1>2, <1>3, SubSeqProperties
<1>5. first \o next = SubSeq(inside, 1, n)
  <2>1. /\ 1 \in 1..Len(inside) + 1 /\ from - 1 \in 1 - 1..Len(inside) /\ n \in from - 1..Len(inside)
        /\ (from - 1) + 1 = from
    BY <1>2
  <2>2. SubSeq(inside, 1, from - 1) \o SubSeq(inside, (from - 1) + 1, n) = SubSeq(inside, 1, n)
    BY <1>2, <2>1, ConcatAdjacentSubSeq
  <2>. QED
    BY <2>1, <2>2
<1>. HIDE DEF first, next
<1>6. (top \o first) \o next = top \o (first \o next)
  BY <1>1, <1>4, ConcatAssociative, SMTT(30)
<1>. QED
  BY <1>5, <1>6 DEF ChildKey, top, first, next
-----------------------------------------------------------------------------
(* A key with nothing inside is that of the archive itself.                *)
LEMMA TopKey ==
  ASSUME NEW bucket \in DOMAIN Origin, NEW archive \in Seq(STRING)
  PROVE  Key(bucket, archive) \o <<>> = Key(bucket, archive)
<1>. DEFINE S == STRING \cup DOMAIN Origin
            top == Key(bucket, archive)
<1>1. top \in Seq(S)
  <2>1. <<bucket>> \in Seq(S) /\ archive \in Seq(S)
    OBVIOUS
  <2>. HIDE DEF S
  <2>. QED
    BY <2>1, ConcatProperties DEF Key
<1>. HIDE DEF S, top
<1>2. top \o <<>> = top
  BY <1>1, ConcatEmptySeq
<1>. QED
  BY <1>2 DEF top

(* A path that leads into an archive names it first, and something in it.  *)
Split(path, inside) ==
  /\ NamesArchive(inside.archive) /\ inside.inside \in Seq(STRING) /\ Len(inside.inside) \in Nat \ {0}

LEMMA SplitOk ==
  ASSUME NEW path \in Seq(STRING), SplitArchivePath(path) # Nothing
  PROVE  Split(path, SplitArchivePath(path))
<1>. DEFINE named == {i \in DOMAIN path : path[i] \in ArchiveNames}
            at == CHOOSE i \in named : \A j \in named : i <= j
<1>1. Len(path) \in Nat /\ DOMAIN path = 1..Len(path) /\ \A i \in 1..Len(path) : path[i] \in STRING
  OBVIOUS
<1>2. /\ SplitArchivePath(path) = [archive |-> SubSeq(path, 1, at), inside |-> SubSeq(path, at + 1, Len(path))]
      /\ named # {} /\ at # Len(path)
  BY DEF SplitArchivePath
<1>3. \E i \in named : \A j \in named : i <= j
  <2>1. named \in SUBSET (1..Len(path))
    BY <1>1
  <2>. HIDE DEF named
  <2>. QED
    BY <1>1, <1>2, <2>1, FirstOf
<1>4. at \in named /\ \A j \in named : at <= j
  <2>. HIDE DEF named
  <2>. QED
    BY <1>3
<1>. HIDE DEF at
<1>5. at \in 1..Len(path) /\ path[at] \in ArchiveNames /\ at + 1 \in 1..Len(path)
  BY <1>1, <1>2, <1>4
<1>6. \A i \in 1..at - 1 : path[i] \notin ArchiveNames
  BY <1>1, <1>4, <1>5
<1>. DEFINE archive == SubSeq(path, 1, at)
            inside == SubSeq(path, at + 1, Len(path))
<1>7. archive \in Seq(STRING) /\ Len(archive) = at /\ \A i \in 1..at : archive[i] = path[i]
  <2>1. 1 \in Int /\ at \in Int /\ \A i \in 1..at : path[i] \in STRING
    BY <1>1, <1>5
  <2>2. /\ archive \in Seq(STRING) /\ Len(archive) = (IF 1 <= at THEN at - 1 + 1 ELSE 0)
        /\ \A i \in 1..at - 1 + 1 : archive[i] = path[1 + i - 1]
    BY <2>1, SubSeqProperties
  <2>. QED
    BY <1>5, <2>2
<1>8. inside \in Seq(STRING) /\ Len(inside) \in Nat \ {0}
  <2>1. at + 1 \in Int /\ Len(path) \in Int /\ \A i \in at + 1..Len(path) : path[i] \in STRING
    BY <1>1, <1>5
  <2>2. inside \in Seq(STRING) /\ Len(inside) = (IF at + 1 <= Len(path) THEN Len(path) - (at + 1) + 1 ELSE 0)
    BY <2>1, SubSeqProperties
  <2>. HIDE DEF inside
  <2>3. at \in Nat /\ Len(path) \in Nat /\ at + 1 <= Len(path)
    BY <1>1, <1>5
  <2>. QED
    BY <2>2, <2>3
<1>. HIDE DEF archive, inside
<1>9. NamesArchive(archive)
  BY <1>5, <1>6, <1>7 DEF NamesArchive
<1>10. SplitArchivePath(path) = [archive |-> archive, inside |-> inside]
  BY <1>2 DEF archive, inside
<1>. QED
  BY <1>8, <1>9, <1>10 DEF Split
-----------------------------------------------------------------------------
(* A file of a bucket, and a path that leads into it.                      *)
IsPlace(bucket, archive, inside) == IsPath(bucket, archive, inside) /\ archive \in DOMAIN Origin[bucket]

(* What the whole of a path inside comes to, of one of the versions.       *)
Leads(bucket, archive, inside, n, at, last) ==
  \E v \in 1..last : Descent(Origin[bucket][archive][v], inside)[n] = at

(* An archive that is kept is what its key led to, of some version.        *)
AsHeld(key, value, last) ==
  \E bucket, archive, inside :
    /\ IsPlace(bucket, archive, inside)
    /\ key = Key(bucket, archive) \o inside
    /\ Leads(bucket, archive, inside, Len(inside), [archive |-> value, from |-> Len(inside) + 1], last)

ArchivesOk(lru, last) ==
  /\ IsList(lru, Openable) /\ lru.held <= MaxUnzip
  /\ \A key \in DOMAIN lru.node : IsArchive(lru.node[key].value) /\ AsHeld(key, lru.node[key].value, last)

(* A walk is where a descent is, under the key of the path so far.         *)
WalkOk(walk, bucket, archive, inside, n, last) ==
  /\ ArchivesOk(walk.kept, last)
  /\ walk.from \in 1..n + 1
  /\ walk.key = Key(bucket, archive) \o SubSeq(inside, 1, walk.from - 1)
  /\ Erred(walk.archive) \/ IsArchive(walk.archive)
  /\ Leads(bucket, archive, inside, n, [archive |-> walk.archive, from |-> walk.from], last)

LEMMA KeepsAsHeld ==
  ASSUME NEW lru, NEW last, ArchivesOk(lru, last), NEW key, NEW archive,
         IsArchive(archive), AsHeld(key, archive, last)
  PROVE  ArchivesOk(Kept(lru, key, archive, archive.size, MaxUnzip), last)
<1>. DEFINE after == Kept(lru, key, archive, archive.size, MaxUnzip)
<1>1. /\ IsList(lru, Openable) /\ archive \in Openable /\ archive.size \in Nat
      /\ MaxUnzip \in Nat /\ lru.held <= MaxUnzip
  BY LimitsAssumption DEF ArchivesOk, IsArchive
<1>2. IsList(after, Openable) /\ after.held <= MaxUnzip
  BY <1>1, KeptOk
<1>3. ASSUME NEW j \in DOMAIN after.node
      PROVE  \/ j = key /\ after.node[j].value = archive
             \/ j \in DOMAIN lru.node /\ after.node[j] = lru.node[j]
  BY <1>1, KeptValues
<1>. HIDE DEF after
<1>4. ASSUME NEW j \in DOMAIN after.node
      PROVE  IsArchive(after.node[j].value) /\ AsHeld(j, after.node[j].value, last)
  BY <1>3 DEF ArchivesOk
<1>5. ArchivesOk(after, last)
  BY <1>2, <1>4 DEF ArchivesOk
<1>. QED
  BY <1>5 DEF after

LEMMA FindsAsHeld ==
  ASSUME NEW lru, NEW last, ArchivesOk(lru, last), NEW key
  PROVE  ArchivesOk(Promoted(lru, key), last)
<1>1. /\ IsList(Promoted(lru, key), Openable)
      /\ Promoted(lru, key).node = lru.node /\ Promoted(lru, key).held = lru.held
  BY PromotedOk DEF ArchivesOk
<1>. QED
  BY <1>1 DEF ArchivesOk

(* What is held at a key is held at its place.                             *)
LEMMA HeldAt ==
  ASSUME NEW bucket, NEW archive, NEW inside, NEW value, NEW last,
         IsPath(bucket, archive, inside), AsHeld(Key(bucket, archive) \o inside, value, last)
  PROVE  /\ IsPlace(bucket, archive, inside)
         /\ Leads(bucket, archive, inside, Len(inside), [archive |-> value, from |-> Len(inside) + 1], last)
<1>1. PICK b, a, i :
        /\ IsPlace(b, a, i)
        /\ Key(bucket, archive) \o inside = Key(b, a) \o i
        /\ Leads(b, a, i, Len(i), [archive |-> value, from |-> Len(i) + 1], last)
  BY DEF AsHeld
<1>2. bucket = b /\ archive = a /\ inside = i
  BY <1>1, SameKey DEF IsPlace
<1>. QED
  BY <1>1, <1>2

(* A path inside leads as far as its first n segments do.                  *)
LEMMA LeadsShort ==
  ASSUME NEW bucket, NEW archive, NEW inside \in Seq(STRING), NEW n \in 0..Len(inside), NEW at, NEW last
  PROVE  /\ SubSeq(inside, 1, n) \in Seq(STRING) /\ Len(SubSeq(inside, 1, n)) = n
         /\ Leads(bucket, archive, SubSeq(inside, 1, n), n, at, last) <=> Leads(bucket, archive, inside, n, at, last)
<1>1. SubSeq(inside, 1, n) \in Seq(STRING) /\ Len(SubSeq(inside, 1, n)) = n
  BY PrefixIs
<1>2. \A file : Descent(file, SubSeq(inside, 1, n))[n] = Descent(file, inside)[n]
  BY DescentPrefix
<1>. QED
  BY <1>1, <1>2 DEF Leads

LEMMA WalkedOk ==
  ASSUME NEW bucket, NEW archive, NEW inside, IsPlace(bucket, archive, inside),
         NEW last \in Versions, NEW n \in 1..Len(inside), NEW walk,
         WalkOk(walk, bucket, archive, inside, n - 1, last)
  PROVE  WalkOk(Walked(walk, inside, n), bucket, archive, inside, n, last)
<1>. DEFINE name == SubSeq(inside, walk.from, n)
            short == SubSeq(inside, 1, n)
            child == ChildKey(walk.key, name)
            opened == Opened(walk.archive, name)
            into(lru, value) == [kept |-> lru, archive |-> value, key |-> child, from |-> n + 1]
            at == [archive |-> walk.archive, from |-> walk.from]
            after == Walked(walk, inside, n)
<1>. SUFFICES WalkOk(after, bucket, archive, inside, n, last)
  OBVIOUS
<1>1. /\ bucket \in DOMAIN Origin /\ NamesArchive(archive) /\ archive \in Seq(STRING)
      /\ inside \in Seq(STRING) /\ Len(inside) \in Nat /\ n \in 0..Len(inside)
  BY DEF IsPlace, IsPath, NamesArchive
<1>2. walk.from \in 1..n /\ (n + 1) - 1 = n
  BY DEF WalkOk
<1>3. child = Key(bucket, archive) \o short
  BY <1>1, <1>2, ChildIs, ZenonT(60) DEF WalkOk
<1>4. /\ short \in Seq(STRING) /\ Len(short) = n
      /\ \A to : Leads(bucket, archive, short, n, to, last) <=> Leads(bucket, archive, inside, n, to, last)
  BY <1>1, LeadsShort
<1>5. IsPath(bucket, archive, short) /\ IsPlace(bucket, archive, short)
  BY <1>4 DEF IsPlace, IsPath
<1>6. Leads(bucket, archive, inside, n, Descended(at, inside, n), last)
  <2>1. PICK v \in 1..last : Descent(Origin[bucket][archive][v], inside)[n - 1] = at
    BY DEF WalkOk, Leads
  <2>2. Descent(Origin[bucket][archive][v], inside)[n] = Descended(at, inside, n)
    <3>1. \A file : \A m \in 1..Len(inside) :
            Descent(file, inside)[m] = Descended(Descent(file, inside)[m - 1], inside, m)
      BY <1>1, DescentIs
    <3>. QED
      BY <2>1, <3>1
  <2>. QED
    BY <2>2 DEF Leads
<1>. HIDE DEF short
<1>7. CASE Erred(walk.archive) \/ name \notin DOMAIN walk.archive.entries
  <2>1. after = walk /\ Descended(at, inside, n) = at
    BY <1>7 DEF Walked, Descended
  <2>2. walk.from \in 1..n + 1
    BY <1>2
  <2>. QED
    BY <1>6, <2>1, <2>2 DEF WalkOk
<1>8. CASE ~Erred(walk.archive) /\ name \in DOMAIN walk.archive.entries
  <2>1. Descended(at, inside, n) = [archive |-> opened, from |-> n + 1]
    BY <1>8 DEF Descended
  <2>2. ASSUME NEW lru, NEW value, ArchivesOk(lru, last), Erred(value) \/ IsArchive(value),
               Leads(bucket, archive, inside, n, [archive |-> value, from |-> n + 1], last),
               after = into(lru, value)
        PROVE  WalkOk(after, bucket, archive, inside, n, last)
    <3>1. /\ after.kept = lru /\ after.archive = value /\ after.key = child /\ after.from = n + 1
          /\ n + 1 \in 1..n + 1
      BY <2>2
    <3>2. SubSeq(inside, 1, after.from - 1) = short
      BY <1>2, <3>1 DEF short
    <3>. HIDE DEF after, child
    <3>. QED
      BY <1>3, <2>2, <3>1, <3>2 DEF WalkOk
  <2>3. ArchivesOk(walk.kept, last) /\ IsArchive(walk.archive)
    BY <1>8 DEF WalkOk
  <2>4. CASE Holds(walk.kept, child)
    <3>. DEFINE value == walk.kept.node[child].value
    <3>1. after = into(Promoted(walk.kept, child), value)
      BY <1>8, <2>4 DEF Walked
    <3>2. IsArchive(value) /\ AsHeld(child, value, last)
      BY <2>3, <2>4 DEF ArchivesOk, Holds
    <3>3. ArchivesOk(Promoted(walk.kept, child), last)
      BY <2>3, FindsAsHeld
    <3>4. Leads(bucket, archive, short, Len(short), [archive |-> value, from |-> Len(short) + 1], last)
      BY <1>3, <1>5, <3>2, HeldAt
    <3>5. Leads(bucket, archive, inside, n, [archive |-> value, from |-> n + 1], last)
      BY <1>4, <3>4
    <3>. HIDE DEF value, after, into
    <3>. QED
      BY <2>2, <3>1, <3>2, <3>3, <3>5
  <2>5. CASE ~Holds(walk.kept, child) /\ Erred(opened)
    <3>1. after = into(walk.kept, opened)
      BY <1>8, <2>5 DEF Walked
    <3>. HIDE DEF after, into, opened
    <3>. QED
      BY <1>6, <2>1, <2>2, <2>3, <2>5, <3>1
  <2>6. CASE ~Holds(walk.kept, child) /\ ~Erred(opened)
    <3>. DEFINE lru == Kept(walk.kept, child, opened, opened.size, MaxUnzip)
    <3>1. after = into(lru, opened)
      BY <1>8, <2>6 DEF Walked
    <3>2. IsArchive(opened)
      <4>. DEFINE entry == walk.archive.entries[name]
                  data == ReadEntry(walk.archive, entry)
      <4>1. entry.content \in Files
        BY <1>8, <2>3 DEF IsArchive
      <4>2. ~Erred(data) /\ opened = OpenArchive(data)
        BY <2>6 DEF Opened
      <4>3. data = entry.content
        BY <4>2 DEF ReadEntry, Erred, Error
      <4>. HIDE DEF entry, data
      <4>. QED
        BY <2>6, <4>1, <4>2, <4>3, OpenedOk
    <3>3. Leads(bucket, archive, inside, n, [archive |-> opened, from |-> n + 1], last)
      BY <1>6, <2>1
    <3>. HIDE DEF opened
    <3>4. AsHeld(child, opened, last)
      BY <1>3, <1>4, <1>5, <3>3 DEF AsHeld
    <3>5. ArchivesOk(lru, last)
      BY <2>3, <3>2, <3>4, KeepsAsHeld
    <3>. HIDE DEF after, into, lru
    <3>. QED
      BY <2>2, <3>1, <3>2, <3>3, <3>5
  <2>. QED
    BY <2>4, <2>5, <2>6
<1>. QED
  BY <1>7, <1>8

(* What is dug out of an archive is what its file has there.               *)
Reads(bucket, archive, inside, answer, last) ==
  \E v \in 1..last : answer = ReadInside(Origin[bucket][archive][v], inside)

LEMMA DigOk ==
  ASSUME NEW bucket, NEW archive, NEW inside, IsPlace(bucket, archive, inside), Len(inside) \in Nat \ {0},
         NEW last \in Versions, NEW lru, ArchivesOk(lru, last), NEW top, IsArchive(top),
         Leads(bucket, archive, inside, 0, [archive |-> top, from |-> 1], last)
  PROVE  LET dug == DigArchive(lru, top, Key(bucket, archive), inside)
         IN  ArchivesOk(dug.kept, last) /\ Reads(bucket, archive, inside, dug.answer, last)
<1>. DEFINE key == Key(bucket, archive)
            walk == Walk(lru, top, key, inside)
            Good(x, n) == WalkOk(x, bucket, archive, inside, n, last)
            Ns == {n \in Nat : n <= Len(inside) => Good(walk[n], n)}
            end == Len(inside) - 1
<1>1. bucket \in DOMAIN Origin /\ archive \in Seq(STRING) /\ inside \in Seq(STRING) /\ Len(inside) \in Nat
  BY DEF IsPlace, IsPath, NamesArchive
<1>2. /\ walk[0] = WalkFrom(lru, top, key)
      /\ \A n \in 1..Len(inside) : walk[n] = Walked(walk[n - 1], inside, n)
  BY <1>1, WalkIs
<1>3. SubSeq(inside, 1, 1 - 1) = <<>> /\ key \o <<>> = key
  BY <1>1, TopKey, SubSeqEmpty
<1>. HIDE DEF walk, key
<1>4. 0 \in Ns
  <2>1. /\ walk[0].kept = lru /\ walk[0].archive = top /\ walk[0].key = key /\ walk[0].from = 1
    BY <1>2 DEF WalkFrom
  <2>2. walk[0].key = Key(bucket, archive) \o SubSeq(inside, 1, walk[0].from - 1)
    BY <1>3, <2>1 DEF key
  <2>3. WalkOk(walk[0], bucket, archive, inside, 0, last)
    BY <2>1, <2>2 DEF WalkOk
  <2>. QED
    BY <2>3
<1>5. ASSUME NEW n \in Ns PROVE n + 1 \in Ns
  <2>. SUFFICES ASSUME n + 1 <= Len(inside) PROVE Good(walk[n + 1], n + 1)
    OBVIOUS
  <2>1. n \in Nat /\ n + 1 \in 1..Len(inside) /\ (n + 1) - 1 = n /\ Good(walk[n], n)
    BY <1>1
  <2>2. walk[n + 1] = Walked(walk[n], inside, n + 1)
    BY <1>2, <2>1
  <2>3. WalkOk(walk[n], bucket, archive, inside, (n + 1) - 1, last)
    BY <2>1
  <2>. QED
    BY <2>1, <2>2, <2>3, WalkedOk
<1>6. Ns = Nat
  <2>. HIDE DEF Ns
  <2>1. Ns \in SUBSET Nat
    BY DEF Ns
  <2>. QED
    BY <1>4, <1>5, <2>1, NatSetInduction
<1>7. end \in Nat /\ end <= Len(inside)
  OBVIOUS
<1>. HIDE DEF end, Good
<1>8. Good(walk[end], end)
  BY <1>6, <1>7
<1>9. PICK v \in 1..last : Descent(Origin[bucket][archive][v], inside)[end]
                           = [archive |-> walk[end].archive, from |-> walk[end].from]
  BY <1>8 DEF Good, WalkOk, Leads
<1>10. FileAt(walk[end], inside) = ReadInside(Origin[bucket][archive][v], inside)
  BY <1>9 DEF ReadInside, FileAt, end
<1>11. DigArchive(lru, top, Key(bucket, archive), inside) = [kept |-> walk[end].kept, answer |-> FileAt(walk[end], inside)]
  BY DEF DigArchive, Dug, walk, key, end
<1>12. ArchivesOk(walk[end].kept, last)
  BY <1>8 DEF Good, WalkOk
<1>. QED
  BY <1>10, <1>11, <1>12 DEF Reads
-----------------------------------------------------------------------------
(* The archive of a bucket, opened, kept and dug in.                       *)
LEMMA OpensOk ==
  ASSUME NEW bucket, NEW archive, NEW inside, IsPlace(bucket, archive, inside), Len(inside) \in Nat \ {0},
         NEW last \in Versions, NEW lru, ArchivesOk(lru, last), NEW v \in 1..last
  PROVE  LET dug == OpenAndDig(lru, Origin[bucket][archive][v], Key(bucket, archive), inside)
         IN  ArchivesOk(dug.kept, last) /\ Reads(bucket, archive, inside, dug.answer, last)
<1>. DEFINE file == Origin[bucket][archive][v]
            opened == OpenArchive(file)
            key == Key(bucket, archive)
            lru2 == Kept(lru, key, opened, opened.size, MaxUnzip)
            dug == OpenAndDig(lru, file, key, inside)
<1>1. /\ bucket \in DOMAIN Origin /\ archive \in Seq(STRING) /\ inside \in Seq(STRING) /\ Len(inside) \in Nat
      /\ archive \in DOMAIN Origin[bucket] /\ v \in Versions
  BY DEF IsPlace, IsPath, NamesArchive, Versions
<1>2. file \in Files
  BY <1>1, OriginAssumption
<1>3. CASE Erred(opened)
  <2>1. dug = [kept |-> lru, answer |-> opened]
    BY <1>3 DEF OpenAndDig
  <2>. DEFINE at == Descent(file, inside)[Len(inside) - 1]
  <2>2. at.archive = opened
    <3>1. Len(inside) - 1 \in 0..Len(inside)
      OBVIOUS
    <3>2. \A n \in 0..Len(inside) : Descent(file, inside)[n].archive = opened
      BY <1>1, <1>3, NeverOpens
    <3>. HIDE DEF opened, file
    <3>. QED
      BY <3>1, <3>2
  <2>3. ReadInside(file, inside) = FileAt(at, inside)
    BY DEF ReadInside
  <2>. HIDE DEF at, opened, dug
  <2>4. ReadInside(file, inside) = opened
    BY <1>3, <2>2, <2>3 DEF FileAt
  <2>5. ArchivesOk(dug.kept, last) /\ Reads(bucket, archive, inside, dug.answer, last)
    BY <2>1, <2>4 DEF Reads
  <2>. QED
    BY <2>5 DEF dug
<1>4. CASE ~Erred(opened)
  <2>1. IsArchive(opened)
    BY <1>2, <1>4, OpenedOk
  <2>2. dug = DigArchive(lru2, opened, key, inside)
    BY <1>4 DEF OpenAndDig
  <2>3. Leads(bucket, archive, inside, 0, [archive |-> opened, from |-> 1], last)
    BY <1>1, DescentIs DEF Leads
  <2>4. AsHeld(key, opened, last)
    <3>1. <<>> \in Seq(STRING) /\ Len(<<>>) = 0 /\ 0 \in Nat /\ 0 + 1 = 1
      OBVIOUS
    <3>2. IsPlace(bucket, archive, <<>>)
      BY <3>1 DEF IsPlace, IsPath
    <3>3. Descent(file, <<>>)[0] = [archive |-> opened, from |-> 1]
      BY <3>1, DescentIs
    <3>4. Leads(bucket, archive, <<>>, Len(<<>>), [archive |-> opened, from |-> Len(<<>>) + 1], last)
      BY <3>1, <3>3 DEF Leads
    <3>5. key = key \o <<>>
      BY <1>1, TopKey
    <3>. HIDE DEF opened
    <3>. QED
      BY <3>2, <3>4, <3>5 DEF AsHeld
  <2>. HIDE DEF opened
  <2>5. ArchivesOk(lru2, last)
    BY <2>1, <2>4, KeepsAsHeld
  <2>. HIDE DEF lru2
  <2>6. ArchivesOk(DigArchive(lru2, opened, Key(bucket, archive), inside).kept, last)
        /\ Reads(bucket, archive, inside, DigArchive(lru2, opened, Key(bucket, archive), inside).answer, last)
    BY <2>1, <2>3, <2>5, DigOk
  <2>. QED
    BY <2>2, <2>6
<1>. QED
  BY <1>3, <1>4

(* One that is kept already, dug in without a fetch.                       *)
LEMMA FoundOk ==
  ASSUME NEW bucket, NEW archive, NEW inside, IsPath(bucket, archive, inside), Len(inside) \in Nat \ {0},
         NEW last \in Versions, NEW lru, ArchivesOk(lru, last), Holds(lru, Key(bucket, archive))
  PROVE  LET key == Key(bucket, archive)
             dug == DigArchive(Promoted(lru, key), lru.node[key].value, key, inside)
         IN  /\ ArchivesOk(dug.kept, last) /\ IsPlace(bucket, archive, inside)
             /\ Reads(bucket, archive, inside, dug.answer, last)
<1>. DEFINE key == Key(bucket, archive)
            value == lru.node[key].value
<1>1. /\ bucket \in DOMAIN Origin /\ archive \in Seq(STRING) /\ inside \in Seq(STRING) /\ Len(inside) \in Nat
      /\ <<>> \in Seq(STRING) /\ Len(<<>>) = 0 /\ 0 \in Nat /\ 0 + 1 = 1
  BY DEF IsPath, NamesArchive
<1>2. IsArchive(value) /\ AsHeld(key, value, last)
  BY DEF ArchivesOk, Holds
<1>3. Key(bucket, archive) \o <<>> = key
  BY <1>1, TopKey
<1>4. IsPath(bucket, archive, <<>>)
  BY <1>1 DEF IsPath
<1>. HIDE DEF value
<1>5. AsHeld(Key(bucket, archive) \o <<>>, value, last)
  BY <1>2, <1>3
<1>6. IsPlace(bucket, archive, <<>>)
      /\ Leads(bucket, archive, <<>>, Len(<<>>), [archive |-> value, from |-> Len(<<>>) + 1], last)
  BY <1>4, <1>5, HeldAt
<1>7. IsPlace(bucket, archive, inside)
  BY <1>6 DEF IsPlace
<1>8. PICK v \in 1..last : Descent(Origin[bucket][archive][v], <<>>)[0] = [archive |-> value, from |-> 1]
  BY <1>1, <1>6 DEF Leads
<1>9. \A file : /\ Descent(file, <<>>)[0] = [archive |-> OpenArchive(file), from |-> 1]
                /\ Descent(file, inside)[0] = [archive |-> OpenArchive(file), from |-> 1]
  BY <1>1, DescentIs
<1>10. Leads(bucket, archive, inside, 0, [archive |-> value, from |-> 1], last)
  BY <1>8, <1>9 DEF Leads
<1>11. ArchivesOk(Promoted(lru, key), last)
  BY FindsAsHeld
<1>12. ArchivesOk(DigArchive(Promoted(lru, key), value, Key(bucket, archive), inside).kept, last)
       /\ Reads(bucket, archive, inside, DigArchive(Promoted(lru, key), value, Key(bucket, archive), inside).answer, last)
  BY <1>2, <1>7, <1>10, <1>11, DigOk
<1>. QED
  BY <1>7, <1>12 DEF value
-----------------------------------------------------------------------------
(* Where a request is fetched from, and what may come of it.               *)
PathOf(request) ==
  LET inside == SplitArchivePath(request.path)
  IN  IF inside = Nothing THEN request.path ELSE inside.archive

Failures == {Error(code) : code \in {"Upstream", "InvalidInput", "Timeout", "Internal"}}

AsPublished(source, request, last) ==
  \/ \E v \in 1..last : source = ReadAt(request.bucket, request.path, v)
  \/ source \in Failures

LEMMA ReadsAt ==
  ASSUME NEW request, NEW last \in Versions, SplitArchivePath(request.path) # Nothing,
         NEW inside, IsPlace(request.bucket, SplitArchivePath(request.path).archive, inside),
         inside = SplitArchivePath(request.path).inside, NEW answer,
         Reads(request.bucket, SplitArchivePath(request.path).archive, inside, answer, last)
  PROVE  AsPublished(answer, request, last)
<1>. DEFINE bucket == request.bucket
            archive == SplitArchivePath(request.path).archive
<1>1. PICK v \in 1..last : answer = ReadInside(Origin[bucket][archive][v], inside)
  BY DEF Reads
<1>2. bucket \in DOMAIN Origin /\ archive \in DOMAIN Origin[bucket] /\ v \in Versions
  BY DEF IsPlace, IsPath, Versions
<1>3. ~Erred(Origin[bucket][archive][v])
  BY <1>2, OriginAssumption, FilesAssumption DEF Erred
<1>4. ReadAt(bucket, request.path, v) = ReadInside(Origin[bucket][archive][v], inside)
  BY <1>2, <1>3 DEF ReadAt
<1>. QED
  BY <1>1, <1>4 DEF AsPublished

(* What comes of a file that was fetched, or of why there is none.         *)
LEMMA ArrivedOk ==
  ASSUME version \in Versions, ArchivesOk(kept, version), NEW request \in Requests,
         request.bucket \in DOMAIN Origin, NEW file,
         file \in Failures \/ file = Held(request.bucket, PathOf(request)), NEW dug,
         LET inside == SplitArchivePath(request.path)
         IN  dug = IF inside = Nothing \/ Erred(file) THEN [kept |-> kept, answer |-> file]
                   ELSE OpenAndDig(kept, file, Key(request.bucket, inside.archive), inside.inside)
  PROVE  ArchivesOk(dug.kept, version) /\ AsPublished(dug.answer, request, version)
<1>. DEFINE bucket == request.bucket
            split == SplitArchivePath(request.path)
<1>1. version \in 1..version
  BY DEF Versions
<1>2. CASE file \in Failures
  <2>1. Erred(file)
    BY <1>2 DEF Failures, Erred, Error
  <2>. QED
    BY <1>2, <2>1 DEF AsPublished
<1>3. CASE file = Held(bucket, PathOf(request)) /\ (split = Nothing \/ Erred(file))
  <2>1. dug = [kept |-> kept, answer |-> file]
    BY <1>3
  <2>2. file = ReadAt(bucket, request.path, version)
    BY <1>3 DEF Held, PathOf, ReadAt
  <2>. QED
    BY <1>1, <2>1, <2>2 DEF AsPublished
<1>4. CASE file = Held(bucket, PathOf(request)) /\ split # Nothing /\ ~Erred(file)
  <2>1. dug = OpenAndDig(kept, file, Key(bucket, split.archive), split.inside)
    BY <1>4
  <2>2. split.archive \in DOMAIN Origin[bucket] /\ file = Origin[bucket][split.archive][version]
    BY <1>4 DEF Held, PathOf, Erred, Error
  <2>3. Split(request.path, split)
    BY <1>4, RequestsAssumption, SplitOk
  <2>4. IsPlace(bucket, split.archive, split.inside) /\ Len(split.inside) \in Nat \ {0}
    BY <2>2, <2>3 DEF Split, IsPlace, IsPath
  <2>. HIDE DEF split, bucket
  <2>5. ArchivesOk(dug.kept, version) /\ Reads(bucket, split.archive, split.inside, dug.answer, version)
    BY <1>1, <2>1, <2>2, <2>4, OpensOk
  <2>. QED
    BY <1>4, <2>4, <2>5, ReadsAt DEF split, bucket
<1>. QED
  BY <1>2, <1>3, <1>4
-----------------------------------------------------------------------------
(* What a session is answered from is what its path held.                  *)
Phases == {"none", "posted", "reading", "fetching", "writing", "gone"}

SourceOk(s, last) ==
  /\ s.phase \in Phases /\ s.request \in Requests \cup {NoRequest} /\ s.hop.number \in 0..MaxRedirects
  /\ s.phase \notin {"writing", "gone"} => s.source = Nothing
  /\ s.phase = "fetching" => s.request \in Requests
  /\ s.source # Nothing => AsPublished(s.source, s.request, last)

HInv == /\ loop \in {"binding", "serving", "stopped", "failed"} /\ version \in Versions
        /\ ArchivesOk(kept, version)
        /\ \A c \in Sessions : SourceOk(session[c], version)

(* One session changes, to one that is as it should be.                    *)
LEMMA OneMoves ==
  ASSUME IInv, HInv, NEW c \in Sessions, NEW s, SourceOk(s, version), session' = [session EXCEPT ![c] = s],
         ArchivesOk(kept', version), UNCHANGED <<loop, version>>
  PROVE  HInv'
<1>1. session' = [d \in Sessions |-> IF d = c THEN s ELSE session[d]]
  BY DEF IInv
<1>2. ASSUME NEW d \in Sessions PROVE SourceOk(session'[d], version)
  <2>1. CASE d = c
    BY <1>1, <2>1
  <2>2. CASE d # c
    <3>1. session'[d] = session[d]
      BY <1>1, <2>2
    <3>. QED
      BY <3>1 DEF HInv
  <2>. QED
    BY <2>1, <2>2
<1>. QED
  BY <1>2 DEF HInv

(* The end of a request.                                                   *)
LEMMA EndsOk ==
  ASSUME NEW s, IsSession(s), s.request \in Requests, s.hop.number \in 0..MaxRedirects,
         NEW last, s.source # Nothing => AsPublished(s.source, s.request, last),
         NEW done, done = Throws(s) \/ \E status : done = Answers(s, status)
  PROVE  SourceOk(done, last)
<1>1. /\ done.phase \in {"writing", "gone"} /\ done.request = s.request
      /\ done.hop = s.hop /\ done.source = s.source
  BY DEF IsSession, Fields, Throws, Answers
<1>. QED
  BY <1>1 DEF SourceOk, Phases

LEMMA FetchedIs ==
  ASSUME NEW s, NEW file, NEW done \in Fetched(s, file)
  PROVE  done = Throws(s) \/ \E status : done = Answers(s, status)
<1>1. CASE Erred(file)
  BY <1>1 DEF Fetched
<1>2. CASE ~Erred(file) /\ file.is # "picture"
  BY <1>2, ZenonT(60) DEF Fetched, Converted
<1>3. CASE ~Erred(file) /\ file.is = "picture"
  <2>. DEFINE query == s.request.query
  <2>1. CASE query = "unreadable"
    BY <1>3, <2>1 DEF Fetched, Converted
  <2>2. CASE query = "too big"
    BY <1>3, <2>2, ZenonT(60) DEF Fetched, Converted
  <2>3. CASE query = "none"
    BY <1>3, <2>3 DEF Fetched, Converted
  <2>4. CASE query \notin {"unreadable", "too big", "none"}
    BY <1>3, <2>4, ZenonT(60) DEF Fetched, Converted
  <2>. QED
    BY <2>1, <2>2, <2>3, <2>4
<1>. QED
  BY <1>1, <1>2, <1>3

(* A request is answered from what was produced for it.                    *)
LEMMA EndsFetched ==
  ASSUME IInv, HInv, NEW c \in Sessions, NEW s, IsSession(s), s.request \in Requests,
         s.hop.number \in 0..MaxRedirects, NEW file, AsPublished(file, s.request, version),
         NEW hop, hop.number \in 0..MaxRedirects,
         \E done \in Fetched([s EXCEPT !.source = file, !.hop = hop], file) : session' = [session EXCEPT ![c] = done],
         ArchivesOk(kept', version), UNCHANGED <<loop, version>>
  PROVE  HInv'
<1>. DEFINE t == [s EXCEPT !.source = file, !.hop = hop]
<1>1. IsSession(t) /\ t.request = s.request /\ t.hop = hop /\ t.source = file
  BY DEF IsSession, Fields
<1>. HIDE DEF t
<1>2. PICK done \in Fetched(t, file) : session' = [session EXCEPT ![c] = done]
  BY DEF t
<1>3. done = Throws(t) \/ \E status : done = Answers(t, status)
  BY FetchedIs
<1>4. SourceOk(done, version)
  BY <1>1, <1>3, EndsOk
<1>. QED
  BY <1>2, <1>4, OneMoves

LEMMA ArrivesHeld ==
  ASSUME IInv, HInv, NEW c \in Sessions, NEW s, NEW file, Arrives(c, s, file),
         IsSession(s), s.request \in Requests, s.request.bucket \in DOMAIN Origin, s.hop.number \in 0..MaxRedirects,
         file \in Failures \/ file = Held(s.request.bucket, PathOf(s.request)), UNCHANGED <<loop, version>>
  PROVE  HInv'
<1>. DEFINE inside == SplitArchivePath(s.request.path)
<1>1. PICK dug :
        /\ dug = IF inside = Nothing \/ Erred(file) THEN [kept |-> kept, answer |-> file]
                 ELSE OpenAndDig(kept, file, Key(s.request.bucket, inside.archive), inside.inside)
        /\ kept' = dug.kept
        /\ \E done \in Fetched([s EXCEPT !.source = dug.answer, !.hop = NoHop], dug.answer) :
             session' = [session EXCEPT ![c] = done]
  BY DEF Arrives, Settles
<1>2. ArchivesOk(dug.kept, version) /\ AsPublished(dug.answer, s.request, version)
  BY <1>1, ArrivedOk DEF HInv
<1>3. NoHop.number \in 0..MaxRedirects
  BY ServingAssumption, SMTT(30) DEF NoHop
<1>4. \E done \in Fetched([s EXCEPT !.source = dug.answer, !.hop = NoHop], dug.answer) :
        session' = [session EXCEPT ![c] = done]
  BY <1>1
<1>5. ArchivesOk(kept', version)
  BY <1>1, <1>2
<1>. QED
  BY <1>2, <1>3, <1>4, <1>5, EndsFetched

LEMMA FetchesHeld ==
  ASSUME IInv, HInv, NEW c \in Sessions, NEW s, NEW path, Fetches(c, s, path), path = PathOf(s.request),
         IsSession(s), s.request \in Requests, s.request.bucket \in DOMAIN Origin,
         s.hop.number \in 0..MaxRedirects, s.source = Nothing, UNCHANGED <<loop, version>>
  PROVE  HInv'
<1>1. CASE FetchFile(c, s, path)
  <2>. DEFINE asked == [s EXCEPT !.asked = @ + 1]
  <2>1. IsSession(asked) /\ asked.request = s.request /\ asked.hop = s.hop
    BY DEF IsSession, Fields
  <2>2. Arrives(c, s, Error("InvalidInput")) \/ Arrives(c, asked, Held(s.request.bucket, path))
    BY <1>1 DEF FetchFile
  <2>3. Error("InvalidInput") \in Failures
    BY DEF Failures
  <2>. HIDE DEF asked
  <2>. QED
    BY <2>1, <2>2, <2>3, ArrivesHeld
<1>2. ASSUME NEW signed, Asks(c, s, signed) PROVE HInv'
  <2>. DEFINE hop == [number |-> 0, host |-> s.request.bucket, signed |-> signed]
              t == [s EXCEPT !.asked = @ + 1, !.phase = "fetching", !.hop = hop]
  <2>1. hop.number \in 0..MaxRedirects
    BY ServingAssumption
  <2>2. IsSession(t) /\ t.phase = "fetching" /\ t.request = s.request /\ t.hop = hop /\ t.source = s.source
    BY DEF IsSession, Fields
  <2>3. session' = [session EXCEPT ![c] = t] /\ ArchivesOk(kept', version)
    BY <1>2 DEF Asks, HInv
  <2>. HIDE DEF t, hop
  <2>4. SourceOk(t, version)
    BY <2>1, <2>2 DEF SourceOk, Phases
  <2>. QED
    BY <2>3, <2>4, OneMoves
<1>3. FetchFile(c, s, path) \/ \E signed : Asks(c, s, signed)
  BY DEF Fetches, FetchS3, FetchHttp
<1>. QED
  BY <1>1, <1>2, <1>3

LEMMA ProducesHeld ==
  ASSUME IInv, HInv, NEW c \in Sessions, NEW s, Produces(c, s),
         IsSession(s), s.request \in Requests, s.request.bucket \in DOMAIN Origin,
         s.hop.number \in 0..MaxRedirects, s.source = Nothing, UNCHANGED <<loop, version>>
  PROVE  HInv'
<1>. DEFINE request == s.request
            split == SplitArchivePath(request.path)
            key == Key(request.bucket, split.archive)
            dug == DigArchive(Promoted(kept, key), kept.node[key].value, key, split.inside)
<1>1. CASE Fetches(c, s, PathOf(request))
  BY <1>1, FetchesHeld
<1>2. CASE session' = [session EXCEPT ![c] = Answers(s, 400)] /\ UNCHANGED kept
  <2>1. SourceOk(Answers(s, 400), version)
    BY EndsOk
  <2>2. ArchivesOk(kept', version)
    BY <1>2 DEF HInv
  <2>. QED
    BY <1>2, <2>1, <2>2, OneMoves, ZenonT(60)
<1>3. CASE /\ split # Nothing /\ Holds(kept, key) /\ kept' = dug.kept
           /\ \E next \in Fetched([s EXCEPT !.source = dug.answer], dug.answer) : session' = [session EXCEPT ![c] = next]
  <2>1. Split(request.path, split)
    BY <1>3, RequestsAssumption, SplitOk
  <2>2. IsPath(request.bucket, split.archive, split.inside) /\ Len(split.inside) \in Nat \ {0}
    BY <2>1 DEF Split, IsPath
  <2>3. ArchivesOk(kept, version) /\ version \in Versions
    BY DEF HInv
  <2>4. /\ ArchivesOk(dug.kept, version) /\ IsPlace(request.bucket, split.archive, split.inside)
        /\ Reads(request.bucket, split.archive, split.inside, dug.answer, version)
    <3>. HIDE DEF split, request
    <3>. QED
      BY <1>3, <2>2, <2>3, FoundOk
  <2>. HIDE DEF dug
  <2>5. AsPublished(dug.answer, request, version)
    BY <1>3, <2>3, <2>4, ReadsAt
  <2>6. [s EXCEPT !.source = dug.answer] = [s EXCEPT !.source = dug.answer, !.hop = s.hop]
    BY DEF IsSession, Fields
  <2>7. \E next \in Fetched([s EXCEPT !.source = dug.answer, !.hop = s.hop], dug.answer) :
          session' = [session EXCEPT ![c] = next]
    BY <1>3, <2>6
  <2>8. ArchivesOk(kept', version)
    BY <1>3, <2>4
  <2>. QED
    BY <2>5, <2>7, <2>8, EndsFetched, ZenonT(60)
<1>4. CASE split = Nothing
  <2>1. Fetches(c, s, request.path)
    BY <1>4, SMTT(30) DEF Produces
  <2>. QED
    BY <1>1, <1>4, <2>1 DEF PathOf
<1>5. CASE split # Nothing
  <2>1. <1>2!1 \/ <1>3!1 \/ Fetches(c, s, split.archive)
    BY <1>5, Zenon DEF Produces
  <2>2. PathOf(request) = split.archive
    BY <1>5 DEF PathOf
  <2>. QED
    BY <1>1, <1>2, <1>3, <2>1, <2>2, ZenonT(60)
<1>. QED
  BY <1>4, <1>5

LEMMA ReadHeld ==
  ASSUME IInv, HInv, NEW c \in Sessions, NEW request \in Requests, Read(c, request)
  PROVE  HInv'
<1>. DEFINE s == session[c]
            t == [s EXCEPT !.request = request, !.owed = TRUE]
            refused(status) == session' = [session EXCEPT ![c] = Answers(t, status)] /\ UNCHANGED kept
<1>1. IsSession(s) /\ s.phase = "reading" /\ SourceOk(s, version) /\ Handles(c, t) /\ UNCHANGED <<loop, version>>
  BY DEF Read, Does, IInv, HInv, SessionOk
<1>2. /\ IsSession(t) /\ t.request = request /\ t.hop = s.hop /\ t.source = s.source
  BY <1>1 DEF IsSession, Fields
<1>3. t.hop.number \in 0..MaxRedirects /\ t.source = Nothing
  BY <1>1, <1>2 DEF SourceOk
<1>. HIDE DEF t
<1>4. ASSUME NEW status, refused(status) PROVE HInv'
  <2>1. SourceOk(Answers(t, status), version)
    BY <1>2, <1>3, EndsOk
  <2>2. ArchivesOk(kept', version)
    BY <1>4 DEF HInv
  <2>. QED
    BY <1>1, <1>4, <2>1, <2>2, OneMoves
<1>5. CASE request.bucket \in DOMAIN Buckets /\ Produces(c, t)
  BY <1>1, <1>2, <1>3, <1>5, ServingAssumption, ProducesHeld
<1>6. (\E status : refused(status)) \/ (request.bucket \in DOMAIN Buckets /\ Produces(c, t))
  BY <1>1, <1>2, ZenonT(60) DEF Handles
<1>. QED
  BY <1>4, <1>5, <1>6

LEMMA HopHeld ==
  ASSUME IInv, HInv, NEW c \in Sessions, Hop(c)
  PROVE  HInv'
<1>. DEFINE s == session[c]
<1>1. /\ SessionOk(s) /\ SourceOk(s, version) /\ s.phase = "fetching" /\ UNCHANGED <<loop, version>>
  BY DEF Hop, Does, IInv, HInv
<1>2. /\ IsSession(s) /\ s.request \in Requests /\ s.request.bucket \in DOMAIN Origin
      /\ s.hop.number \in 0..MaxRedirects /\ s.source = Nothing
  BY <1>1, ServingAssumption, ZenonT(60) DEF SessionOk, SourceOk, Accepted
<1>3. CASE \E file : Arrives(c, s, file) /\ (file \in Failures \/ file = Held(s.request.bucket, PathOf(s.request)))
  BY <1>1, <1>2, <1>3, ArrivesHeld
<1>4. CASE /\ Follows(s.hop) /\ UNCHANGED kept
           /\ \E host : session' = [session EXCEPT ![c].hop = Redirected(s.hop, host)]
  <2>1. PICK host : session' = [session EXCEPT ![c].hop = Redirected(s.hop, host)]
    BY <1>4
  <2>. DEFINE t == [s EXCEPT !.hop = Redirected(s.hop, host)]
  <2>2. /\ t.phase = s.phase /\ t.request = s.request /\ t.source = s.source
        /\ t.hop = Redirected(s.hop, host)
    BY <1>2 DEF IsSession, Fields
  <2>3. session' = [session EXCEPT ![c] = t]
    BY <2>1
  <2>. HIDE DEF t
  <2>4. t.hop.number \in 0..MaxRedirects
    BY <1>2, <1>4, <2>2, ServingAssumption DEF Redirected, Follows
  <2>5. SourceOk(t, version) /\ ArchivesOk(kept', version)
    BY <1>1, <1>4, <2>2, <2>4 DEF SourceOk, HInv
  <2>. QED
    BY <1>1, <2>3, <2>5, OneMoves
<1>5. \A code \in {"Upstream", "InvalidInput", "Timeout", "Internal"} : Error(code) \in Failures
  BY DEF Failures
<1>6. <1>3!1 \/ <1>4!1
  BY <1>5 DEF Hop, FetchFails, PathOf
<1>. QED
  BY <1>3, <1>4, <1>6

LEMMA ConnectionHeld ==
  ASSUME IInv, HInv, NEW c \in Sessions, Accept(c) \/ Start(c) \/ HangUp(c) \/ Write(c)
  PROVE  HInv'
<1>1. UNCHANGED <<loop, version, kept>> /\ ArchivesOk(kept', version)
  BY DEF Accept, Start, HangUp, Write, Does, HInv
<1>2. CASE Accept(c) \/ Write(c)
  <2>1. PICK phase \in {"posted", "reading", "gone"} : session' = [session EXCEPT ![c] = Fresh(phase)]
    BY <1>2 DEF Accept, Write
  <2>2. SourceOk(Fresh(phase), version)
    BY ServingAssumption DEF SourceOk, Fresh, NoHop, Phases
  <2>. QED
    BY <1>1, <2>1, <2>2, OneMoves
<1>3. CASE Start(c) \/ HangUp(c)
  <2>. DEFINE s == session[c]
  <2>1. PICK phase \in {"reading", "gone"} : session' = [session EXCEPT ![c].phase = phase]
    BY <1>3 DEF Start, HangUp
  <2>2. IsSession(s) /\ SourceOk(s, version) /\ s.phase \in {"posted", "reading"}
    BY <1>3 DEF Start, HangUp, Does, IInv, SessionOk, HInv
  <2>. DEFINE t == [s EXCEPT !.phase = phase]
  <2>3. t.phase = phase /\ t.request = s.request /\ t.hop = s.hop /\ t.source = s.source
    BY <2>2 DEF IsSession, Fields
  <2>4. session' = [session EXCEPT ![c] = t]
    BY <2>1
  <2>. HIDE DEF t
  <2>5. SourceOk(t, version)
    BY <2>2, <2>3 DEF SourceOk, Phases
  <2>. QED
    BY <1>1, <2>4, <2>5, OneMoves
<1>. QED
  BY <1>2, <1>3

(* What was held stays what was held once.                                 *)
LEMMA RepublishHeld ==
  ASSUME IInv, HInv, Republish
  PROVE  HInv'
<1>1. version \in Versions /\ version' = version + 1 /\ version < 2 /\ UNCHANGED <<loop, kept, session>>
  BY DEF Republish, HInv
<1>2. version' \in Versions /\ 1..version \subseteq 1..version'
  BY <1>1 DEF Versions
<1>3. ASSUME NEW key, NEW value, AsHeld(key, value, version) PROVE AsHeld(key, value, version')
  BY <1>2, <1>3 DEF AsHeld, Leads
<1>4. ArchivesOk(kept', version')
  BY <1>1, <1>3 DEF ArchivesOk, HInv
<1>5. ASSUME NEW source, NEW request, AsPublished(source, request, version)
      PROVE  AsPublished(source, request, version')
  BY <1>2, <1>5 DEF AsPublished
<1>6. ASSUME NEW c \in Sessions PROVE SourceOk(session'[c], version')
  BY <1>1, <1>5 DEF SourceOk, HInv
<1>. QED
  BY <1>1, <1>2, <1>4, <1>6 DEF HInv

LEMMA HeldInitially == Init => HInv
<1>. SUFFICES ASSUME Init PROVE HInv
  OBVIOUS
<1>1. IsList(EmptyLru, Openable) /\ EmptyLru.held = 0 /\ DOMAIN EmptyLru.node = {}
  BY EmptyOk DEF EmptyLru
<1>2. ArchivesOk(kept, version)
  BY <1>1, LimitsAssumption DEF Init, ArchivesOk
<1>3. SourceOk(Fresh("none"), version)
  BY ServingAssumption DEF SourceOk, Fresh, NoHop, Phases
<1>. QED
  BY <1>2, <1>3 DEF Init, HInv, Versions

LEMMA HeldInductive == IInv /\ HInv /\ [Next]_vars => HInv'
<1>. SUFFICES ASSUME IInv, HInv, [Next]_vars PROVE HInv'
  OBVIOUS
<1>1. CASE UNCHANGED <<version, kept, session>> /\ (loop' = loop \/ Bind \/ AcceptFails \/ Signal)
  BY <1>1 DEF HInv, Bind, AcceptFails, Signal
<1>2. ASSUME NEW c \in Sessions, Accept(c) \/ Start(c) \/ HangUp(c) \/ Write(c) PROVE HInv'
  BY <1>2, ConnectionHeld
<1>3. ASSUME NEW c \in Sessions, NEW request \in Requests, Read(c, request) PROVE HInv'
  BY <1>3, ReadHeld
<1>4. ASSUME NEW c \in Sessions, Hop(c) PROVE HInv'
  BY <1>4, HopHeld
<1>5. CASE Republish
  BY <1>5, RepublishHeld
<1>. QED
  BY <1>1, <1>2, <1>3, <1>4, <1>5 DEF Next, vars, Bind, AcceptFails, Signal

LEMMA HeldAlways == Spec => []HInv
BY Always, HeldInitially, HeldInductive, PTL DEF Spec

(* Every state has its type: no session follows more redirects than it     *)
(* may, and no more is kept of archives than may be.                       *)
THEOREM Typing == Spec => []TypeOK
<1>1. HInv => TypeOK
  <2>. SUFFICES ASSUME HInv PROVE TypeOK
    OBVIOUS
  <2>1. kept.held \in 0..MaxUnzip
    <3>1. IsList(kept, Openable) /\ kept.held <= MaxUnzip
      BY DEF HInv, ArchivesOk
    <3>2. kept.held \in Nat
      BY <3>1, NodesFinite
    <3>. QED
      BY <3>1, <3>2, LimitsAssumption
  <2>. QED
    BY <2>1 DEF HInv, SourceOk, Phases, TypeOK
<1>. QED
  BY <1>1, HeldAlways, PTL

(* Whatever sessions keep, evict and fetch of archives between them, a     *)
(* request is answered from what its own path has held.                    *)
THEOREM OwnFile == Spec => []AnsweredAsHeld
<1>1. HInv => AnsweredAsHeld
  BY DEF HInv, SourceOk, AsPublished, Failures, AnsweredAsHeld
<1>. QED
  BY <1>1, HeldAlways, PTL
=============================================================================
