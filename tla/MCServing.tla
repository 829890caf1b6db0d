----------------------------- MODULE MCServing -----------------------------
(***************************************************************************)
(* A directory, an upstream and one that wants a signature.  Both archives *)
(* of the directory hold an "in.zip", each with a picture of its own under *)
(* the same name; one of them is a gzip of a tar, and both hold a name     *)
(* twice.  The sum of all archives is more than may be kept.               *)
(***************************************************************************)
EXTENDS Serving

Picture(id) == [is |-> "picture", id |-> id, size |-> 1]
Text == [is |-> "text", size |-> 1]
Member(name, content) == [name |-> name, content |-> content, packed |-> content.size]
Archive(kind, size, members) == [is |-> kind, size |-> size, whole |-> TRUE, members |-> members]
Gzip(content) == [is |-> "gzip", size |-> 2, whole |-> TRUE, content |-> content]

Inner(id) == Archive("zip", 2, <<Member(<<"x">>, Picture(id)), Member(<<"x">>, Text)>>)

Zipped(id) == Archive("zip", 3, <<Member(<<"in.zip">>, Inner(id)), Member(<<"x..", "x">>, Text)>>)
Tarred(id) == Gzip(Archive("tar", 4, <<Member(<<".", "in.zip">>, Text), Member(<<".", "in.zip">>, Inner(id))>>))
Bomb == Archive("zip", 1, <<[name |-> <<"x">>, content |-> [is |-> "text", size |-> 4], packed |-> 1]>>)

MCOrigin ==
  [disk |-> (<<"one.zip">> :> <<Zipped(1), Zipped(2)>>) @@ (<<"two.tgz">> :> <<Tarred(3), Tarred(3)>>),
   web |-> <<"one.zip">> :> <<Zipped(4), Bomb>>,
   vault |-> <<"p">> :> <<Picture(5), Text>>]

(* What is published, what is in it, and what is in that. *)
MCFiles ==
  LET published == UNION {UNION {{MCOrigin[bucket][path][v] : v \in Versions} : path \in DOMAIN MCOrigin[bucket]}
                          : bucket \in DOMAIN MCOrigin}
      undone == {file.content : file \in {file \in published : file.is = "gzip"}}
      inside(files) == UNION {{file.members[i].content : i \in DOMAIN file.members}
                              : file \in {file \in files : file.is \in {"zip", "tar"}}}
      first == published \cup undone
      second == inside(first)
  IN  first \cup second \cup inside(second)

MCBuckets ==
  [disk |-> [scheme |-> "file", signs |-> FALSE], web |-> [scheme |-> "http", signs |-> FALSE],
   vault |-> [scheme |-> "s3", signs |-> TRUE]]

Get(bucket, path, query) ==
  [method |-> "GET", bucket |-> bucket, path |-> path, query |-> query, close |-> FALSE]

MCRequests ==
  {Get("disk", <<"one.zip", "in.zip", "x">>, "none"), Get("disk", <<"two.tgz", "in.zip", "x">>, "unreadable"),
   Get("disk", <<"..", "p">>, "none"), Get("disk", <<"~", "p">>, "none"),
   Get("disk", <<"one.zip", "x..", "x">>, "none"),
   Get("web", <<"one.zip", "x">>, "none"), Get("web", <<"one.zip", "in.zip", "x">>, "too big"),
   Get("vault", <<"p">>, "steps"), Get("vault", <<"p">>, "no such encoding"),
   Get("no route", <<>>, "none"), Get("nobody", <<"p">>, "unreadable"),
   [Get("vault", <<"p">>, "none") EXCEPT !.method = "POST", !.close = TRUE]}
=============================================================================
