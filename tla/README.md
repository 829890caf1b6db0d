# haio, modelled

haio converts images, on a command line and as a cdn: a http server that fetches a
picture from a bucket, runs the pipeline its query spells out, and caches the answer.
This directory holds TLA+ models of the parts whose behaviour depends on order,
failure, time or limits, the TLC runs that check them on small instances, and the
TLAPS proofs of what matters most. Paths below are relative to the repository.

All of it runs on one thread: every platform drives its loop from one
(`library/frontend/cdn/cache/policy/deduplication.cpp:15`), so two coroutines
interleave only where one of them suspends. What makes the system hard is what happens
across those suspensions, and what the disk, redis and the network do meanwhile.

## Inventory

| component | state | operations | behaviours that are hard | correct when |
|---|---|---|---|---|
| single flight (`cdn/cache/policy/deduplication.cpp`, `include/haio_task.hpp`) | `inFlight_`, a `Pending` with its `Event` per flight | `run` | waiters are resumed inside `set()`, in place; producers throw; a resumed waiter leads the next flight | one producer per key, everybody is answered, with something made while it asked |
| cache (`cdn/cache/cache.cpp`) | the store, the flight, the quota | `fetch` | lookup, flight and put interleave with other callers' | what is stored is produced once for a burst |
| memory store (`cdn/cache/storage/memory.cpp`, `internal/utils/lru.hpp`) | a list, an index, a weight | `get`, `put` | expiry against renewal against eviction | within budget, evicts the least recently used, answers the last put |
| file store (`cdn/cache/storage/file.cpp`, `cdn/cache/policy/key.cpp`) | the directory, `held_` | `get`, `put`, `sweep`, start | crash in a put, full disk, truncated files | the same, across restarts |
| redis store (`platform/desktop/client/redis.cpp`) | entries, index and sizes in redis, `sinceTrim_` | `get`, `put`, `trim` | several processes, requests cut short, trims that interleave | the same; the index accounts for what is held |
| per address limits (`cdn/server.cpp`, `cdn/cache/policy/quota.cpp`, `internal/cdn/clients.hpp`) | a bucket and a window per address | `allow`, `mayStore` | refill and window boundaries, crowded tables | held to the limit, quiet callers are not |
| request handler (`cdn/server.cpp`) | what requests share | `handleRequest`, `produce` | order of the checks, exceptions | every request is answered once, refused ones cost nothing |
| http server, runtime (`platform/desktop/server/http.cpp`, `runtime.cpp`) | sessions, the loop | accept, session, `spawn`, `run`, `stop` | keep-alive, dropped connections, an accept that fails | a connection is dropped only by its client, the loop ends when told |
| http client (`platform/desktop/client/http.cpp`) | the hop and the headers | `follow` | redirects, timeouts | bounded hops, signed headers stay with their host |
| sources and archives (`common/source`, `common/archive`) | archives in an `LruBySize` | `fetchInsideArchive`, `digArchive` | the await between `find` and `keep`, evictions in the middle of a walk | an archive answers as if read afresh |
| parser (`common/parser`) | the counted stack, the steps, the waiting options | `parse` | a shape that comes first is rewritten by positions noted before | an accepted line runs, and means what the grammar says |
| pipeline (`common/pipeline`) | the stack of pictures, each in up to three forms | `runPipeline` | lazy decode, indices beside pixels | the answer is the picture that was asked for |
| codecs and containers (`backend/codecs`, `include/haio_registry.hpp`) | none | `Detect`, `Decode`, `Encode`, `Convert` | cut files, odd sides, padding, runs | what is written reads back, what is cut is refused |
| compositing (`transforms/composite.hpp`, `backend/transforms/composite`) | none | fifty modes, gravity, clip | nothing, everything, division by nothing | Porter and Duff's table, laws of the modes |
| body encodings (`cdn/encoding.cpp`) | none | `encodeBody` | runs of 254, the last group of three | the body decodes |
| configuration, urls and strings, generators, palettes, other transforms, convert command | none that lasts | pure functions | boundaries | see "Not modelled" |

How they meet: a session hands a request to `handleRequest`, which asks the rate limiter,
names the entry by the md5 of bucket, path and query, and calls `Cache::fetch`. That
asks the store, then joins or leads the key's flight; the leader's producer fetches from
the source, converts, asks the quota and puts the entry in the store before the flight
ends and its waiters run.

## Modules

| module | models | checked by |
|---|---|---|
| `Dedup` | what single flight promises, without coroutines | refined by `SingleFlight` |
| `SingleFlight`, `MCSingleFlight` | `SingleFlight::run`, `Event` | `SingleFlight.cfg`, `SingleFlightInline.cfg` |
| `SingleFlightProofs` | theorems about `SingleFlight` | TLAPS |
| `Cache`, `MCCache` | `Cache::fetch` over `SingleFlight` and a store | `Cache.cfg`, `CacheRemote.cfg` |
| `CacheProofs` | theorems about `Cache` | TLAPS |
| `ClientLimits`, `MCClientLimits` | `RateLimiter`, `ClientQuota`, `ClientTable` | `ClientLimits.cfg` |
| `ClientLimitsProofs` | theorems about `ClientLimits`, over a table that never drops a row | TLAPS |
| `EntryStore` | what a `CacheStore` promises | refined by `LocalStores` and `RedisStore` |
| `LruBySize` | the list's operations, as operators | through `MemoryStore` |
| `MemoryStore`, `FileStore` | the two local stores | composed by `LocalStores` |
| `LocalStores`, `MCLocalStores` | `storeFor`'s local choice, the faults, the clock | `LocalStores.cfg`, `LocalStoresCut.cfg` |
| `LruProofs` | induction and recursive functions over the naturals, sums over finite sets, to cite; theorems about the operators of `LruBySize` | TLAPS |
| `LocalStoresProofs` | theorems about `LocalStores` | TLAPS |
| `Redis` | the redis commands haio uses (external) | through `RedisStore` |
| `RedisStore`, `MCRedisStore` | `RedisStore` with its trim, from any number of processes | `RedisStore.cfg`, `RedisStoreIndex.cfg` |
| `RedisStoreProofs` | theorems about `RedisStore` | TLAPS |
| `Convert`, `MCConvert` | the parser and the pipeline, side by side | `Convert.cfg` |
| `ConvertProofs` | theorems about `Convert` | TLAPS |
| `Archives` | archives in archives and what is kept of them, over `LruBySize` | through `Serving` |
| `Serving`, `MCServing` | accept loop, sessions, handler, sources, redirects, archives | `Serving.cfg` |
| `ServingProofs` | theorems about `Serving` | TLAPS |
| `Shares`, `Blending` | exact fractions; the modes of `-composite`, gravity and clip | through `Pictures` |
| `Colours` | colours in memory, and the ways between them | through `Pictures` |
| `Tga`, `Netpbm`, `Containers` | the containers, and the registry's `Detect`, `DecodeNative`, `Encode` | through `Pictures` |
| `Encodings` | the encodings of a body, and their decoders | through `Pictures` |
| `Pictures`, `MCPure` | the references the pure modules are held against, one sample a state | `Pure.cfg` |

### SingleFlight

An action is the code a coroutine runs between two suspension points. `ready` is the
call stack: `Event::set` resumes its waiters in place, so `Finish` pushes them in the
order they arrived, before the leader that still has to return; nothing else may begin
(`Ask`, an answer from the network) until that stack is empty. `Ask` is `run`'s entry,
`Look` its loop, `Await` the `co_await` on the event, `Lead` the new `Pending` and the
start of the producer, `Suspend` the producer going to the network, `Finish` its end by
an answer or an exception together with `~Wake`, `Resume` a waiter going on, `Return`
the leader's own return. `Leave` is what the caller does next; the connection may then
ask again. A `Pending` is named by its leader.

`InlineProducers` says whether a producer may end without suspending. One of a file
bucket does, and one whose query names an unknown encoding, though nobody comes to wait on
those. An heir does when its leader, before it threw, left an archive kept that answers in
place: a member of an archive of an http bucket, under a query that does not parse.

### Cache

`Cache` extends nothing of `SingleFlight`: it INSTANCEs it and drives it by its own
actions (`Flight!Ask`, `Flight!Finish`, `Flight!Run`...), so every step is one of the
flight or leaves it alone. `store` is chosen at the start among none, in place (memory, files) and
remote. A remote store is a queue of requests answered in order (`wire`), as one
connection does; a lookup or a put may fail. The store of this module keeps or loses
keys as it likes (`Drop`); what it promises is `EntryStore`. `kept`, `answered` and
`orphaned` are history, which no guard reads: who was asking when a production stored its
entry, or answered at all, and who of the former had been woken by a throw (`Loose`), with
no flight to wait on until it is resumed.

### ClientLimits

Both limits over one table, with a clock of ticks. Credit is counted in fractions of a
request (`Rate` per tick, `Second` ticks to the second), which is exact where the code's
doubles round. `limit` chooses which of the two a behaviour exercises, since they share
nothing but the clock.

### LocalStores

Time passes by `Tick`. The memory store's `Get` and `Put` are one step each. The file
store's directory is two maps, the files and the `.tmp` files; `counted` is `held_`.
Besides `Get` and `Put` there are the faults of `Fault`: a put that fails and removes
(or cannot even open) its `.tmp`, one whose last bytes the closing stream could not
write (`PutShort`: `file.cpp:79` closes it unchecked), a process that stops while
writing or between the rename and the sweep, one that stops at rest, and a machine that
stops before the end of a file reached the disk. A file that lost its end is described
by where the cut is: in the head, which `decodeEntry` notices, or in the body, which it
does not. Two files of one age are swept in any order.

### RedisStore

`db` is what redis holds; a request is a list of commands (`GetRequest`, `PutRequest`,
`Drops`) that redis serves one after the other, without another client in between when
they arrive together. A lost connection serves a prefix of them and tells the process of
an error. A put that is its process's `TrimEvery`-th starts a trim, whose requests
(`List`, `Measure`, `Weigh`, `Drop`) interleave with everything else; a trim of another
process and one of this process differ in nothing, so `Trims` says how many run at a
time. What `Weigh` makes of the answers is the request that drops, command for command
and in the code's order: `ZREM` and `HDEL` of every listed key redis has expired, then
`DEL`, `ZREM` and `HDEL` of as many of the oldest as have to go (`Surplus`). A trim that
something came between is marked `disturbed`, which the code does not know and no guard
reads. The clocks of the processes are taken to agree.

### Convert

One behaviour is one command line, read word by word, and then run; or one query, which
skips the parser. `parser` is the `Reader` of `parser.cpp`: the counts of pictures per
open parenthesis, where the first picture's steps begin and end, the options that wait
for their stage, and the steps; `Open`, `Close`, `Option`, `SourceFile`, `SourceBrush`,
`Transform`, `Merge` and `Output` are its handlers, each with its refusals. `run` is
`runPipeline`'s locals and there is an action per kind of token. A picture is the
expression that made it, kept as the code keeps it: `native`, `image` and `indexed`.
`meant` is not in the code. It is a second reading of the same words, by the grammar's
notes and without a stack of steps, and what the pipeline answers is compared with it. Of
a query it is the transforms in the order they are written.

### Archives and Serving

A step of `Serving` is what runs between two waits: `Read` is the whole handler up to
its first wait, `Hop` an answer of an upstream and all that follows it up to the next
wait, `Write` the answer going out. `Fetches`, `Produces`, `Handles` are the functions of
the same names, in the order of the code's checks; `Throws` is an exception that reaches
the session. `Archives` has the rules of names of zip, tar and ar (a zip refuses ".."
anywhere in a name, `DottedNames`; the others and a directory refuse it as a segment, and a
directory a leading "~" too, `HomeNames`; that a directory skips empty segments and "." is
left out), the limits on what is unpacked, and `DigArchive`: `Walk` goes down level after level, looking each up among the
kept ones by the names that lead to it before it opens and keeps it, and `FileAt` reads
the last name. `Descent` and `ReadInside` are the same walk with nothing kept, which the
code does not do: it is what the answers are held against. `Files` is every file there is,
those inside others included.
Files are records of what they hold; `Republish` puts another version in every bucket.
The flight and the store are `Cache`'s and are left out here, so every request is a miss.

### The pure modules

`Pictures` has one variable: a sample, of one of four topics, chosen at the start. So a
state is one input, and an invariant is a comparison over all of them. Levels are exact
fractions where the code computes in doubles; `Top` levels stand for 255. A file is the
sequence of its bytes. The stream a library packs (png, jpeg, gif) is one last cell that
holds the picture, so the cuts `FilesReadBack` makes go through the headers haio reads
itself, and through all of the formats it reads without a library.

## Runs

| run | bounds | states | shows |
|---|---|---|---|
| `single_flight` | 3 callers, 2 keys, one answer | 66,935 | see below |
| `single_flight_inline` | 3 callers, 1 key | - | finding |
| `cache` | 3 callers, 1 key, all three stores | 380,351 | see below |
| `cache_remote` | 2 callers, 1 key | - | finding |
| `client_limits` | 3 addresses, table of 1 row before pruning, rate 2, quota 2, 4 ticks | 39,830 | see below |
| `local_stores` | 3 keys, entries of 1, 3 and 5 on a budget of 4, ttl 2, 3 ticks, 1 fault | 3,966 | see below |
| `local_stores_cut` | 1 key, 2 entries | - | finding |
| `redis_store` | 2 keys, entries of 1 and 2 on a budget of 2, ttl 2, 3 ticks, a trim every 2 puts, 1 lost connection | 346,272 | see below |
| `redis_store_index` | the same, 4 ticks, no lost connection | - | finding |
| `convert` | lines of 8 words: 4 sources, 2 transforms, 1 option, 1 parenthesis deep; a shape, a canvas and a file; 6 steps before a transform is refused; every query over 6 keys, in every order, none twice | 333,163 | see below |
| `serving` | 2 connections, 3 requests of 12, 2 redirects, 2 versions of 3 buckets, 7 units of archive kept, expansion by 3 | 204,706 | see below |
| `pure` | 5 levels, pictures of up to 5x5, every packed 16 bit word by its high byte, bodies of up to 6 bytes with runs of 4 | 40,972 | see below |

Why these bounds are enough to meet the interesting cases. Three callers are a leader,
the waiter that takes over and the one behind it; two keys let flights nest on one
stack. Three addresses on a table that is crowded at two make both the pruning and the
clearing happen. Three keys are the one that is put, one that goes and one that stays;
the large entry does not fit at all, the medium one fits beside one small one and
evicts one of two or another medium one, and three ticks let an entry be renewed after its
put and expire later. On redis two keys
are enough for a trim to judge one while the other is put.

Eight words are a parenthesis with two pictures that is merged into the one before, or a
merge of four pictures with an option. Six steps make the bound on steps bite; the code's
differs in nothing else. Of the requests one is of each kind the handler tells apart. The
archives are two that hold a member of one name, one a gzip of a tar and one a zip with a
name twice and one with dots in it, whose levels together are more than may be kept, so that
a walk evicts what another one reads. Two redirects are enough to drop the headers and go
on. Five levels have a whole, a half and nothing, and a value on either side of each; the
constants of the code are scaled with them. Sides of 1 to 5 are a block of etc1, less, and
more; a run of cobs is full after four bytes here and after 254 in the code (`Full`).

What each property says:

* `OneProducerPerKey`, `NoLostWaiter`, `AnswerIsFresh`: a key has one production at a
  time, every parked coroutine is resumed exactly once, and what a call returns was
  produced while it was asking. `EveryCallReturns`: under fairness nobody waits for
  ever, though every leader throws, because waiters move up in the order of arrival.
  `ImplementsDedup`: all of it implements `Dedup`.
* `StoredBurstProducesOnce`: nobody who was asking when an entry was stored produces it
  again while the store has it, unless its own lookup failed, or a throw had woken it and
  the caller woken before it produced and stored in place, inside `set()`: `run` looks for
  a flight, finds none and never asks the store. (That takes a production that throws
  once and then succeeds, and a query that throws does so every time.) `WireIsOurs`: a put
  is answered before its flight ends.
* `HeldToRate`, `HeldToQuota`: over any stretch of time an address gets its burst and
  its rate, and its quota per window, until the table is cleared. `QuietMayBurst`: never
  less. `ForgetsNothing`: pruning is invisible.
* `ListIsWhole`: order, index and weight of the list agree. `NeverUndercounts`: `held_`
  never falls below what the directory holds, so it does not wrap and no overrun goes
  unnoticed. `WithinBudget`: but for a crash between rename and sweep. `EvictsOldest`:
  what a put evicts was wanted no later than what stays, and without the last to go (the
  new entry itself, or a file that had lost its end, included) the rest did not fit.
  `ImplementsPromise`: a get answers with the last entry put under the key that was taken,
  if it was put or read within the ttl, or with nothing. A put that is not taken may leave
  the older entry (`lru.hpp:38`): the promise does not say it goes.
* `TrimReconciles`: a trim nothing comes between leaves an index of live keys within the
  budget and evicts oldest first. Of a trim that something does come between it says
  nothing; `ImplementsPromise` holds of redis whatever comes between.
* `AcceptedLineRuns`: a line the parser lets through never meets a pipeline without the
  pictures it counted, and leaves one. `AnswerIsMeant`: what comes out is the picture the
  words describe, or the query, where its transforms are written in the order the code
  runs them in (`InTokenOrder`). `IndicesInStep`: the indices beside a picture are that picture.
  `QueryGetsItsFormat`: a query gets the format it asked for, and the untouched file
  exactly when nothing else was asked.
* `SignedOnFirstHop`: a signature goes to its host and no further. `AnsweredAsHeld`: an
  answer is what its own path held at some time since the start, however archives are
  kept, evicted and fetched twice. `DropsOnlyBadQueries`: the only request that loses its
  answer while its client is there is one whose query does not parse.
  `RefusedCostsNothing`: no bucket is asked for a request that is refused. `FetchesEnd`:
  an accepted connection gets its session and a fetch ends, while the loop runs; an
  accept that fails ends the loop and everything with it.
* `CompositeAsPorterDuff`: the modes named after Porter and Duff follow their table, in
  and around the layer, wherever gravity puts it. `BlendLaws`: what each mode does at
  nothing and at a whole, which modes are each other's mirror, and that no level leaves
  its range. `ColoursSurvive`: a word of 16 bits or a level goes to bytes and back, blocks
  and tiles of any side hold their pixels, and the two roads between two colours agree.
  `FilesReadBack`: one format recognises a file, it reads back as what was written, and a
  file that is cut is refused unless what is gone was no pixel; a targa however its runs
  are cut and from whichever corner, a bitmap in all six kinds of netpbm, and the layers
  of a zcis and a terminal's cells show the picture. `BodyDecodes`: an encoded body
  decodes to itself, and cobs has no zero.

Four runs show that a comment of the repository says more than the code does:

* `single_flight_inline`: the rest do not always wait on the heir
  (`deduplication.cpp:20-21`). Harmless, if each production is cheap.
* `cache_remote`: a burst over a redis store may reach the producer more than once when
  the answer is not stored (`internal/cdn/cache.hpp:17-18`).
* `local_stores_cut`: an entry cut in its body is served (`key.cpp:57`). `local_stores`
  therefore assumes that a file is cut, if at all, in its head.
* `redis_store_index`: a trim forgets a key that was put while it was asking
  (`redis.cpp:136-137`); two ttls without a put, with hits that keep entries alive, and
  index and sizes expire as well.

The code and its notes differ in other ways too, which no run is about.
"Crop before resize is a different picture from resize before crop" (`haio_cache.hpp:52-55`)
and "two orders are two pictures" (`test_cdn_cache.cpp:42-45`), say the notes on a query:
they are two entries of the cache, but one picture, since `parseQueryTokens` runs crop, size, resize and radius in that order
however they are written (`pipeline.cpp:139-158`). `MeantByQuery` has the order that is
written, so `AnswerIsMeant` is false of the queries `InTokenOrder` leaves out.
`security.timeout` is read (`config.cpp:144`) but nothing stops a conversion that takes
longer (`server.cpp:353`). A query that does not parse throws outside the `try` of
`produce` (`server.cpp:393`), so its connection is dropped without a 400.
`haio_cdn.hpp:61` says every archive that is opened is kept; one that is too big is not.
`haio_formats.hpp` lists targa "last on purpose", with gif after it. The room of an ascii
netpbm is checked as if its samples were separated (`ppm/decode.cpp:103`), so a P1 without
blanks is refused though `readAsciiBits` would read it.

## Fairness

`EveryCallReturns` needs it. `WF_vars(Run(c))`: a coroutine on the stack goes on,
which the language guarantees. `SF_vars(Ends(c))`: a production ends, since every fetch
has its timeout per hop and a bounded number of hops and a conversion is bounded by the
size limits. Strong, because the action is enabled only when the stack is empty and
other requests keep filling it; the loop hands out events in the order they came, so
they cannot put one off for ever. Nothing is assumed of clients.

## Proofs

For any set of callers, keys and answers, `SingleFlightProofs` shows `TypeCorrect`,
`OneProducer`, `Freshness` and `Implementation`. The inductive invariant `IInv` adds to
the type what the four need: who is on the stack and in which state, that a flight's
leader is a producer (and the only one of its key), that whoever waits does so on the
flight in the map, and that a `Pending` somebody still reads has not been reused. None of
`OneProducerPerKey`, `AnswerIsFresh` or the refinement is inductive alone: a producer is
unique only because the map names it until it ends. There is one lemma per action; the
refinement maps every action to a step of `Dedup` or to a stutter.

Two more theorems rest on `IInv`. `Resumptions` (`NoLostWaiter`) adds `ListsOk`: no list
of waiters and no stack names anybody twice, and who is on one of them is in the state
that put it there. `Heirs` adds `HeirOk`, which says whom a woken caller may have missed,
and needs that no producer ends in place: so the comment at `deduplication.cpp:20-21` is
proved for the producers that suspend, and `single_flight_inline` shows it fail for the
others.

`CacheProofs` builds on it: a second invariant ties the stages and the requests out to the
flight, for `TypeCorrect`, `WireOurs` and `StoredOnce`, the last of which needs that redis
answers in order: a lookup behind a put in the queue sees it. Its one exception is exact:
who is `orphaned` had been woken by a throw, and then store and producer both end in place
(`OrphansOk`).

`ClientLimitsProofs` shows all five properties of the limits, for any rate, second,
window, quota, table size and addresses, and as many ticks as one likes. The invariant
compares the table with one that never drops a row: `Level` and `Ran` are what the bucket
and the window of an address would be after the allowances of its history (which a
cleared table begins anew), and `IInv` says that the row that is kept, or the full bucket
and the closed window of a row that is not, come to the same. `ForgetsNothing` follows at
once. `Held` and `Within` say what a bucket and a window know of every stretch up to now,
and are what makes the rest inductive: what was allowed in a stretch and what is left in
the bucket come to a burst and the refill at most (`HeldToRate`), and to what is due at
least (`QuietMayBurst`); a stretch meets the window that is open, and before it as many as
its length rounded up (`HeldToQuota`). The lemmas on histories are inductions over ticks.

The library states induction with an operator as parameter, which no prover here can
instantiate. `LruProofs` begins with it over sets of naturals instead, from the least element of
such a set, and with it that a recursive function exists and satisfies its equations; and
by induction over subsets, that a sum over a finite set, a fold that takes its elements
in the order `CHOOSE` hands them out, comes to the same in every order, and what adding
and dropping a key does to it. The other proofs cite it for every loop of the code.

The rest of `LruProofs` is about the operators of `LruBySize`, for any keys, values and budget. A list
is whole when its order names each key of its index once and its count is the sum of
what the nodes weigh; finding (which moves a key to the front), erasing and keeping leave
it whole, and what keeping evicts is the end of the order, and no more of it than the
budget asks. `SelectSeq`, of which the prover knows nothing, is not used: `LruBySize`
unlinks a node by the place its index gives, as the code's iterator does.

`LocalStoresProofs` shows, for any finitely many keys (a key is a digest) and any entries,
budget, ttl, ticks and number of faults, every property its run checks. For the file
store, the directory holds files with a size each and `counted` is at least their sum: so
what a put takes off for the file it replaces is in the count and `held_` cannot wrap
(`Counting`), a count within the budget means a directory within it, and one above it
sweeps (`Budgeted`, `InBudget`). For the memory store the list is whole (`ListWhole`), its
order is the order of the times `until`, which is what makes the end of the list the
entries wanted longest ago, and its weight is within the budget, so `OldestGoes` is
`LruProofs`' eviction on the one side and a sort of the files by their times on the other.
`Implements` maps every operation and fault of either store to a step of `EntryStore`. It
assumes that no file is cut within its body (`"body" \notin Cuts`), since then
it is false: that is what `local_stores_cut` shows.

`RedisStoreProofs` shows every property its run checks, for any processes, finitely many
keys, any entries, ttl, budget, number of trims at a time and number of lost connections.
Its invariant is the type and, of each trim, that it is disturbed or knows redis as it is:
the list is the index in the order of its stamps, what it takes for alive is alive, and
the request it is about to send is the one these make. What a request does is shown
command by command (a request cut short is a prefix of one, so it keeps the type), and
what the request that drops does is summed up in `Told`: the keys it tells redis to forget
in each of the three places, whatever its order. With `Surplus` shown to be the least
number of old keys that has to go, `Reconciles` follows: undisturbed, the index is what is
alive, within the budget, and who goes was wanted before who stays. `Implements` needs
none of that: whatever a trim believes, its commands only take keys away, and the first
command of a get or a put is the only one that changes what is held otherwise.

`ServingProofs` shows every safety property of `Serving`, for any connections, requests,
buckets, archives and limits. `IInv` says for each phase of a session what the rest of
its state may be: who reads has asked nobody, who has asked had a request that nothing
refuses, who is signed for is at the host of its bucket, and who is gone with an answer
owed asked what does not parse. There is one step per action, over lemmas on what the
handler makes of a session. `AnsweredAsHeld` needs `HInv` besides: every archive that is
kept is what its key led to in some version of its bucket, and every answer on its way is
what its path held in one since the start. A key determines its bucket, its archive and
the path inside (the archive's name is the first segment named like one), so whoever finds
a level kept by another session goes on from where its own walk would be: `Walk`, with
whatever it finds, keeps and has evicted on the way, follows `Descent`, which keeps
nothing. `Typing` adds that what is kept stays within its budget.

`ConvertProofs` shows the five properties of `Convert`, for any files, brushes and
bounds: lines of any length with parentheses of any depth, and every query. The
invariant has two halves, and both rest on a small machine that appears in neither the
code nor the model: its state is the pictures of each open parenthesis, and `Legal` says
what a step does to it (read, paint, change the last, merge two to four, open, close).

* The parser's half, `Told`: some trace of that machine takes the steps the parser has
  made to exactly the pictures the words mean, and uses every input; the parser's counts
  are the lengths of those parentheses. That alone is not inductive, because a merge may
  go back and paint the shape that came first a second time (`Merged`), by the positions
  the parser noted. So `Follows` says of every noted lead that its steps, taken where
  the parenthesis was empty, put down that one picture (`ShapeFits`), that nothing after
  them needed the parenthesis to have no more pictures below (`Stays`), and that the leads
  of nested parentheses do not overlap (`Nested`). Then the steps after a lead can be
  taken with a picture more at the bottom of its parenthesis (`ShiftedLegal`), which is
  what `FollowsTwice` needs to insert the clear copy and the steps again. `Counted` says
  which parentheses have leads, and which have ended. There is one `Tell` lemma for each
  handler of the `Reader`.
* The pipeline's half, `Underway`: the one stack of `runPipeline`, with its marks in
  `scopes`, is the machine's parentheses end to end (`Stacked`), each picture on it shows
  what the machine has there in whichever of its three forms it is (`Shows`), and the
  tokens left lead the machine to the one picture that is meant. For a query (`Queried`)
  the stack may still be empty though the machine holds its one picture: that is the lazy
  decode. There is one `Underway` lemma and one `Step` lemma for each kind of token.

At the handing over, an accepted line has one parenthesis with one picture in it
(`LineStarts`), and a query's tokens are a chain of its transforms, in their order, with
one encode at the end (`TokensAre`, `QueryStarts`). What those make is what the query means
if it is written in their order, by induction on its keys (`OrderedMeans`); otherwise it is
where the run is on its way to all the same (`OwnWay`). So no token ever misses a picture
(`LinesRun`), the picture at the end is the one meant (`Meaning`), in the format asked
for (`Formats`); `IsPicture` is `Indices`, and the counts are `Typing`. That `FollowsTwice`
goes through for every line is the part a test would hardly reach: the positions noted
for a shape stay right however many parentheses, merges and other shapes come between.

The assumptions are the named ones of the modules: that the constants are told apart; that
rate, second, window, quota, ttl and the puts between two trims are positive; that an
entry has bytes; that there are finitely many keys; that what buckets hold are `Files`, an
archive's members among them; that `..` has dots in it; that a path is a sequence of strings; that a bucket signs or
does not; that files, shapes and canvases are different names, and `null` is no shape. The bounds on ticks, faults and requests are constants like the others, so a
theorem holds of a behaviour of any length.

What is only model-checked: `EveryCallReturns` and `FetchesEnd`, as liveness is out of
this prover's reach; and the pure modules under `Pictures`, whose properties compare a
recursive function with its reference over samples. `Accounted`, `RestWaitOnTheHeir`, `BurstProducesOnce` and `TruncatedIsMiss` are
false of the code, and the runs that expect a violation show it.

## Not modelled, and why

* Running out of memory: an allocation that fails in a conversion would throw like a query
  that does not parse. Nothing else behind the fetch throws, and nothing between the route
  and the fetch: `parseQueryMap` parses what `parseRoute` has parsed (`server.cpp:46`).
* The md5 of the key is taken to be injective. Logging, wording and layout are left out,
  and with them the help, the suggestions, the headers of an answer and the compression
  that is negotiated for it.
* Configuration is read once, before anything runs. Urls, strings and the values of
  options are pure text: their parsing is a choice, fits or does not.
* Generators paint from their settings, mostly by libraries. Palettes and their dithering,
  and the loops over pixels of crop, resize, radius and negate, are arithmetic with no
  reference to hold them against but themselves. Which picture they apply to, and when,
  is in `Convert`.
* The bytes of archive indices, deflate and the signature are left out: a damaged archive
  is one that is not whole. The compression of an etc1 block is taken as one colour for
  each of its pixels, so `ColoursSurvive` is about where pixels go and not how they fade.
* The modes compute in exact fractions, not in doubles, so the last bit of a rounding is
  not checked; the few roots are to a 64th.
* `FilesReadBack` does not cut roms, gifs or targas of runs that another program wrote
  into other files, nor an ascii netpbm, where a last number that is cut is a number too.
* The clocks are taken to be monotonic, also the file system's. Several processes sharing
  one directory are not considered: each would count the others' files only when it starts
  or sweeps. A second `run()` of a loop is not: no program of the repository has one.

## Plan

1. Done: single flight, cache, limits, the three stores, conversions, serving with its
   archives, and the pure functions, with TLC.
2. Done: proofs of every safety property of all of these but the pure functions. Next are
   the laws of `Blending` for any number of levels.
3. `Cache` in front of `Serving`, so that a query that does not parse meets the waiters of
   its flight.
4. Resizing and the palettes against a reference, once one is agreed upon.
