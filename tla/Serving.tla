------------------------------ MODULE Serving ------------------------------
(***************************************************************************)
(* The cdn from its socket to its buckets: the accept loop and a session   *)
(* per connection (platform/desktop/server/http.cpp), the handler          *)
(* (frontend/cdn/server.cpp), the fetch from a bucket with the redirects   *)
(* an upstream sends (bucket.cpp, common/source, client/http.cpp), the     *)
(* archives sessions share (Archives), and the loop under all of them      *)
(* (platform/desktop/runtime.cpp).                                         *)
(*                                                                         *)
(* One step is what runs between two waits, so a handler that fetches is   *)
(* the step that reads the request, one for each hop, and the step that    *)
(* writes the answer.  The flight and the store in front of a fetch are    *)
(* Cache's: here every request is a miss.  What the limiter says is        *)
(* ClientLimits': here it allows or refuses.                               *)
(***************************************************************************)
EXTENDS Archives

CONSTANTS
  Sessions,      \* connections
  Requests,      \* what a client may send
  Buckets,       \* the configured ones, each with its scheme and whether it signs
  Origin,        \* what each bucket holds at each path, version after version
  HomeNames,     \* the segments that start with a "~"
  AllowUnzip,    \* security.allow_unzip
  MaxRedirects,  \* redirects followed
  MaxRequests    \* bound: requests clients send

Versions == 1 .. 2
ASSUME ServingAssumption ==
  /\ MaxRedirects \in Nat /\ MaxRequests \in Nat /\ AllowUnzip \in BOOLEAN
  /\ DOMAIN Origin = DOMAIN Buckets
ASSUME OriginAssumption ==
  \A bucket \in DOMAIN Origin : \A path \in DOMAIN Origin[bucket] : Origin[bucket][path] \in [Versions -> Files]
ASSUME RequestsAssumption == \A request \in Requests : request.path \in Seq(STRING)
ASSUME SignsAssumption == \A bucket \in DOMAIN Buckets : Buckets[bucket].signs \in BOOLEAN

VARIABLES
  loop,     \* what run() is doing: binding, serving, or how it returned
  version,  \* how often the origins have changed
  kept,     \* the Archives all sessions share
  session,  \* each connection's session
  sent      \* requests sent, for the bound

vars == <<loop, version, kept, session, sent>>

NoRequest == [method |-> "none"]
NoHop == [number |-> 0, host |-> "none", signed |-> FALSE]
Fresh(phase) ==
  [phase |-> phase, request |-> NoRequest, owed |-> FALSE, asked |-> 0,
   hop |-> NoHop, answer |-> 0, source |-> Nothing]

Does(c, phases) == loop = "serving" /\ session[c].phase \in phases /\ UNCHANGED <<loop, version>>

-----------------------------------------------------------------------------
(* What a request comes to: an answer that goes to the client, or an       *)
(* exception that reaches the session.                                     *)

StatusFor(code) ==
  CASE code = "NotFound" -> 404 [] code = "UnsupportedFormat" -> 415 [] code = "Upstream" -> 502
    [] code = "Timeout" -> 504 [] code = "InvalidInput" -> 400 [] OTHER -> 500

Answers(s, status) == [s EXCEPT !.phase = "writing", !.answer = status]
Throws(s) == [s EXCEPT !.phase = "gone"]

(* The conversion of what was fetched.  A file haio cannot name is not     *)
(* served; the query is read only now, and one that says nothing throws.   *)
Converted(s, file) ==
  CASE file.is # "picture" -> {Answers(s, StatusFor("UnsupportedFormat"))}
    [] file.is = "picture" /\ s.request.query = "unreadable" -> {Throws(s)}
    [] file.is = "picture" /\ s.request.query = "too big" -> {Answers(s, StatusFor("InvalidInput"))}
    [] file.is = "picture" /\ s.request.query = "none" -> {Answers(s, 200)}
    [] OTHER -> {Answers(s, status) : status \in {200, 400, 415, 500}}

(* What a bucket's file, or why there is none, becomes.                    *)
Fetched(s, file) ==
  IF Erred(file) THEN {Answers(s, StatusFor(file.code))} ELSE Converted(s, file)

(* A fetch is over: what is kept now, and what it brought.                 *)
Settles(c, s, dug) ==
  /\ kept' = dug.kept
  /\ \E done \in Fetched([s EXCEPT !.source = dug.answer, !.hop = NoHop], dug.answer) :
       session' = [session EXCEPT ![c] = done]

(* A fetch goes on once the file is here: one inside an archive is dug out *)
(* of it, and the archive kept.                                            *)
Arrives(c, s, file) ==
  LET inside == SplitArchivePath(s.request.path)
  IN  Settles(c, s, IF inside = Nothing \/ Erred(file) THEN [kept |-> kept, answer |-> file]
                    ELSE OpenAndDig(kept, file, Key(s.request.bucket, inside.archive), inside.inside))

Held(bucket, path) ==
  IF path \in DOMAIN Origin[bucket] THEN Origin[bucket][path][version] ELSE Error("NotFound")

(* A directory answers at once, and neither a step above itself nor from   *)
(* what reads as somebody's home.                                          *)
FetchFile(c, s, path) ==
  IF Climbs(path) \/ \E i \in DOMAIN path : path[i] \in HomeNames THEN Arrives(c, s, Error("InvalidInput"))
  ELSE Arrives(c, [s EXCEPT !.asked = @ + 1], Held(s.request.bucket, path))

(* An upstream is asked, over a first hop.                                 *)
Asks(c, s, signed) ==
  /\ session' = [session EXCEPT ![c] =
       [s EXCEPT !.asked = @ + 1, !.phase = "fetching",
                 !.hop = [number |-> 0, host |-> s.request.bucket, signed |-> signed]]]
  /\ UNCHANGED kept

FetchHttp(c, s) == Asks(c, s, FALSE)

(* The signature is for the host of the bucket and for this request.       *)
FetchS3(c, s) == Asks(c, s, Buckets[s.request.bucket].signs)

Fetches(c, s, path) ==
  CASE Buckets[s.request.bucket].scheme = "file" -> FetchFile(c, s, path)
    [] Buckets[s.request.bucket].scheme = "s3" -> FetchS3(c, s)
    [] OTHER -> FetchHttp(c, s)

(* An archive that is kept answers without a fetch.                        *)
Produces(c, s) ==
  LET inside == SplitArchivePath(s.request.path)
      key == Key(s.request.bucket, inside.archive)
      dug == DigArchive(Promoted(kept, key), kept.node[key].value, key, inside.inside)
      done(file, archives) ==
        /\ kept' = archives
        /\ \E next \in Fetched([s EXCEPT !.source = file], file) : session' = [session EXCEPT ![c] = next]
  IN  CASE inside = Nothing -> Fetches(c, s, s.request.path)
        [] inside # Nothing /\ ~AllowUnzip ->
             session' = [session EXCEPT ![c] = Answers(s, 400)] /\ UNCHANGED kept
        [] inside # Nothing /\ AllowUnzip /\ Holds(kept, key) -> done(dug.answer, dug.kept)
        [] OTHER -> Fetches(c, s, inside.archive)

(* Mutant of Handles: the bucket is asked before the encoding is known. *)
HandlesAskingFirst(c, s) ==
  IF s.request.bucket \in DOMAIN Buckets THEN Produces(c, s)
  ELSE session' = [session EXCEPT ![c] = Answers(s, 404)] /\ UNCHANGED kept

(* Everything that can be refused before anything is fetched is.           *)
Handles(c, s) ==
  LET request == s.request
      refused(status) == session' = [session EXCEPT ![c] = Answers(s, status)] /\ UNCHANGED kept
      allowed == request.method \in {"GET", "HEAD"}
      encodable == request.query # "no such encoding"
  IN  \/ ~allowed /\ refused(405)
      \/ allowed /\ refused(429)
      \/ allowed /\ request.bucket = "no route" /\ refused(400)
      \/ allowed /\ request.bucket # "no route" /\ ~encodable /\ refused(400)
      \/ allowed /\ encodable /\ request.bucket \notin DOMAIN Buckets \cup {"no route"} /\ refused(404)
      \/ allowed /\ encodable /\ request.bucket \in DOMAIN Buckets \ {"no route"} /\ Produces(c, s)

-----------------------------------------------------------------------------
(* The server.                                                             *)

Init ==
  /\ loop = "binding" /\ version = 1 /\ kept = EmptyLru /\ sent = 0
  /\ session = [c \in Sessions |-> Fresh("none")]

Bind ==
  /\ loop = "binding" /\ loop' \in {"serving", "failed"}
  /\ UNCHANGED <<version, kept, session, sent>>

(* Spawned rather than started: the session runs when its turn comes.      *)
Accept(c) ==
  /\ Does(c, {"none"}) /\ UNCHANGED <<kept, sent>>
  /\ session' = [session EXCEPT ![c] = Fresh("posted")]

(* A failed accept ends serveHttp, and with it the loop.                   *)
AcceptFails ==
  /\ loop = "serving" /\ loop' = "failed"
  /\ UNCHANGED <<version, kept, session, sent>>

Signal ==
  /\ loop \in {"binding", "serving"} /\ loop' = "stopped"
  /\ UNCHANGED <<version, kept, session, sent>>

Start(c) ==
  /\ Does(c, {"posted"}) /\ UNCHANGED <<kept, sent>>
  /\ session' = [session EXCEPT ![c].phase = "reading"]

Read(c, request) ==
  /\ Does(c, {"reading"}) /\ sent < MaxRequests /\ sent' = sent + 1
  /\ Handles(c, [session[c] EXCEPT !.request = request, !.owed = TRUE])

(* The client closes, or sends what is no request.                         *)
HangUp(c) ==
  /\ Does(c, {"reading"}) /\ UNCHANGED <<kept, sent>>
  /\ session' = [session EXCEPT ![c].phase = "gone"]

(* Mutant of Redirected: the signature goes along to the next host. *)
RedirectedSigned(hop, host) == [hop EXCEPT !.number = @ + 1, !.host = host]

(* Mutant of Redirected: a redirect is not counted. *)
RedirectedUncounted(hop, host) == [hop EXCEPT !.host = host, !.signed = FALSE]

Redirected(hop, host) == [number |-> hop.number + 1, host |-> host, signed |-> FALSE]

(* Mutant of Follows: one redirect more. *)
FollowsOneMore(hop) == hop.number <= MaxRedirects

Follows(hop) == hop.number < MaxRedirects

(* Mutant of FetchFails: an upstream that is too slow is not caught. *)
FetchFailsThrowing(c, s, code) ==
  IF code = "Timeout" THEN session' = [session EXCEPT ![c] = Throws(s)] /\ UNCHANGED kept
  ELSE Arrives(c, s, Error(code))

(* Every way a fetch can fail ends up as an error that is answered.        *)
FetchFails(c, s, code) == Arrives(c, s, Error(code))

(* The upstream answers a hop, or does not.                                *)
Hop(c) ==
  /\ Does(c, {"fetching"}) /\ UNCHANGED sent
  /\ LET s == session[c]
         inside == SplitArchivePath(s.request.path)
         path == IF inside = Nothing THEN s.request.path ELSE inside.archive
     IN  \* one without a location, one to another scheme, no answer in time, none at all
         \/ \E code \in {"Upstream", "InvalidInput", "Timeout", "Internal"} : FetchFails(c, s, code)
         \/ /\ Follows(s.hop) /\ UNCHANGED kept
            /\ \E host \in {s.request.bucket, "elsewhere"} :
                 session' = [session EXCEPT ![c].hop = Redirected(s.hop, host)]
         \* too many redirects
         \/ ~Follows(s.hop) /\ FetchFails(c, s, "Upstream")
         \/ LET file == Held(s.request.bucket, path) IN
            \* a status that is not 2xx
            IF Erred(file) THEN FetchFails(c, s, "Upstream") ELSE Arrives(c, s, file)

(* The answer is written, or the client is gone; what the request needed  *)
(* is forgotten.                                                           *)
Write(c) ==
  /\ Does(c, {"writing"}) /\ UNCHANGED <<kept, sent>>
  /\ \E gone \in {session[c].request.close, TRUE} :
       session' = [session EXCEPT ![c] = Fresh(IF gone THEN "gone" ELSE "reading")]

(* Somebody puts another file in a bucket.                                 *)
Republish ==
  /\ loop = "serving" /\ version < 2 /\ version' = version + 1
  /\ UNCHANGED <<loop, kept, session, sent>>

Next ==
  \/ Bind \/ AcceptFails \/ Signal \/ Republish
  \/ \E c \in Sessions :
       Accept(c) \/ Start(c) \/ HangUp(c) \/ Hop(c) \/ Write(c) \/ \E request \in Requests : Read(c, request)

(* The loop starts whatever was posted, and a hop is over when its timer   *)
(* is.  Nothing bounds how long a client takes to read its answer.         *)
Spec == Init /\ [][Next]_vars /\ \A c \in Sessions : WF_vars(Start(c)) /\ WF_vars(Hop(c))

-----------------------------------------------------------------------------
(* Properties.                                                             *)

(* Every state has its type; a session follows no more than MaxRedirects   *)
(* redirects (client/http.cpp), and no more is kept than may be.           *)
TypeOK ==
  /\ loop \in {"binding", "serving", "stopped", "failed"} /\ version \in Versions
  /\ kept.held \in 0 .. MaxUnzip
  /\ \A c \in Sessions :
       /\ session[c].phase \in {"none", "posted", "reading", "fetching", "writing", "gone"}
       /\ session[c].request \in Requests \cup {NoRequest}
       /\ session[c].hop.number \in 0 .. MaxRedirects

(* A signature made for a bucket's host goes to that host and no further,  *)
(* whatever the host redirects to (follow's headers.clear).                *)
SignedOnFirstHop ==
  \A c \in Sessions : session[c].hop.signed => session[c].hop.host = session[c].request.bucket

(* What reading a path would come to if nothing were kept of any archive.  *)
ReadAt(bucket, path, v) ==
  LET inside == SplitArchivePath(path)
      at == IF inside = Nothing THEN path ELSE inside.archive
      file == IF at \in DOMAIN Origin[bucket] THEN Origin[bucket][at][v] ELSE Error("NotFound")
  IN  IF inside = Nothing \/ Erred(file) THEN file ELSE ReadInside(file, inside.inside)

(* A request is answered from what its own path has held since the server  *)
(* started, or with the failure of its fetch: never from another archive   *)
(* that sessions share, however archives are kept, evicted and fetched     *)
(* twice (archives.cpp, fetch.cpp).                                        *)
AnsweredAsHeld ==
  \A c \in Sessions :
    session[c].source # Nothing =>
      \/ \E v \in 1 .. version : session[c].source = ReadAt(session[c].request.bucket, session[c].request.path, v)
      \/ session[c].source \in {Error(code) : code \in {"Upstream", "InvalidInput", "Timeout", "Internal"}}

(* A connection is dropped without its answer only by a client that left,  *)
(* or by a query that does not parse: the handler answers every failure of *)
(* a fetch, a route or an archive.                                         *)
DropsOnlyBadQueries ==
  \A c \in Sessions :
    LET s == session[c] IN
      s.phase = "gone" /\ s.owed => s.request.query = "unreadable"

(* "Counted before anything is read or fetched, so a flood costs as little *)
(* as possible": no bucket is asked for a request that is refused for its  *)
(* rate, its method, its route, its bucket or its encoding.                *)
RefusedCostsNothing ==
  \A c \in Sessions :
    LET s == session[c] IN
      s.owed /\ (\/ s.answer \in {405, 429} \/ s.request.method \notin {"GET", "HEAD"}
                  \/ s.request.bucket \notin DOMAIN Buckets \/ s.request.query = "no such encoding")
        => s.asked = 0

(* A connection that was accepted gets its session, and a fetch ends,      *)
(* however its upstream redirects: nothing stays posted or fetching for    *)
(* ever, unless the loop itself ends.                                      *)
FetchesEnd ==
  \A c \in Sessions : []<>(loop = "serving" => session[c].phase \notin {"posted", "fetching"})
=============================================================================
