---------------------------- MODULE SummaryCache ----------------------------
(***************************************************************************)
(* The summaries of one user's transactions and the Redis keys they are    *)
(* kept under: TransactionRecordService reads a generation counter, looks  *)
(* the summary up under that generation, computes it from the tables if it *)
(* is not there, and stores it for a jittered time.  A write through       *)
(* /transactions reads the counter and writes it back one higher, in two   *)
(* calls, after its commit, and nothing keeps two writes of a user apart;  *)
(* /transfers and imports write the same table and leave the counter       *)
(* alone.  Every await is a step.                                          *)
(***************************************************************************)
EXTENDS Integers, FiniteSets

CONSTANTS
  Writers,    \* requests that write the user's transactions at a time
  Readers,    \* requests for a summary at a time
  Queries,    \* what keys differ in besides the generation: range, grouping, type
  Lives,      \* lifetimes the jitter may draw for a summary
  GenLife,    \* lifetime of the counter
  Patience,   \* bound: how long a request for a summary takes
  MaxWrites,  \* bound: writes
  Horizon     \* bound: the time a behaviour covers

ASSUME SummaryAssumption ==
  /\ Lives \subseteq Nat \ {0} /\ Lives # {} /\ GenLife \in Nat \ {0} /\ Patience \in Nat
  /\ MaxWrites \in Nat /\ Horizon \in Nat

VARIABLES
  now,
  written,  \* committed writes
  gen,      \* tx:summary:gen:<user>
  entry,    \* [Queries -> [generations -> summary kept under them]]
  writer,   \* [Writers -> invalidation in progress]
  reader,   \* [Readers -> request in progress]
  acked,    \* history: the latest write of an answered request
  lapse,    \* history: {the last time the counter failed to follow the writes}
  answer    \* history: the writes the last summary given reflects, until the next question

vars == <<now, written, gen, entry, writer, reader, acked, lapse, answer>>

Generations == 0 .. MaxWrites
Idle  == [at |-> "idle"]

\* A summary is told apart by the writes its first and its last select saw
\* (getSummary runs four, in no transaction), and the time of the first.
NoEntry == [first |-> 0, time |-> 0, last |-> 0, until |-> 0]

Alive(e) == e.until > 0

\* Nothing was asked yet, or the last question has no answer.
NoAnswer == -1

\* summaryGen, and the get of invalidateSummary: a missing counter counts as 0.
NoGen == [n |-> 0, until |-> 0]
Gen   == gen.n

\* The counter tells summaries of before a write from those after it as long as it
\* moves on with every write.  It does not when an invalidation that read it early
\* sets it late, when it runs out, when Redis fails, and for writes elsewhere.
NoLapse == {}

-----------------------------------------------------------------------------
(* Writes.                                                                 *)

\* create, update, remove, removeMany, clone: the repository has committed.
Commit(w) ==
  /\ writer[w] = Idle /\ written < MaxWrites
  /\ written' = written + 1
  /\ writer' = [writer EXCEPT ![w] = [at |-> "get", write |-> written + 1]]
  /\ UNCHANGED <<now, gen, entry, reader, acked, lapse, answer>>

\* The same table written by /transfers or an import, and the answer to that.
CommitsElsewhere(w) ==
  /\ writer[w] = Idle /\ written < MaxWrites
  /\ written' = written + 1
  /\ writer' = [writer EXCEPT ![w] = [at |-> "answer", write |-> written + 1]]
  /\ lapse' = {now}
  /\ UNCHANGED <<now, gen, entry, reader, acked, answer>>

Acknowledged(k) == acked' = IF k > acked THEN k ELSE acked

Answers(w) ==
  /\ writer[w].at = "answer"
  /\ Acknowledged(writer[w].write)
  /\ writer' = [writer EXCEPT ![w] = Idle]
  /\ UNCHANGED <<now, written, gen, entry, reader, lapse, answer>>

\* invalidateSummary: get ...
ReadsGen(w) ==
  /\ writer[w].at = "get"
  /\ writer' = [writer EXCEPT ![w] = [at |-> "set", write |-> @.write, n |-> Gen]]
  /\ UNCHANGED <<now, written, gen, entry, reader, acked, lapse, answer>>

\* Mutation: the counter is written back as it was.
SameGen(n) == n
Bump(n)    == n + 1

\* ... and set, after which the client has its answer.
SetsGen(w) ==
  /\ writer[w].at = "set"
  /\ gen' = [n |-> Bump(writer[w].n), until |-> now + GenLife]
  /\ writer' = [writer EXCEPT ![w] = Idle]
  /\ Acknowledged(writer[w].write)
  /\ lapse' = IF Bump(writer[w].n) < Gen THEN {now} ELSE lapse
  /\ UNCHANGED <<now, written, entry, reader, answer>>

\* Redis does not answer: the client gets an error for a write that is committed.
WriterFails(w) ==
  /\ writer[w].at \in {"get", "set"}
  /\ lapse' = {now}
  /\ writer' = [writer EXCEPT ![w] = Idle]
  /\ UNCHANGED <<now, written, gen, entry, reader, acked, answer>>

-----------------------------------------------------------------------------
(* Summaries.                                                              *)

Asks(r, q) ==
  /\ reader[r] = Idle
  /\ reader' = [reader EXCEPT ![r] =
       [at |-> "gen", query |-> q, since |-> now, floor |-> acked]]
  /\ answer' = NoAnswer
  /\ UNCHANGED <<now, written, gen, entry, writer, acked, lapse>>

\* Mutation: the key is made when the summary is stored, not when it is looked up.
KeyOfStore(r) == Gen
KeyOf(r) == reader[r].n

MakesKey(r) ==
  /\ reader[r].at = "gen"
  /\ reader' = [reader EXCEPT ![r] =
       [at |-> "look", query |-> @.query, since |-> @.since, floor |-> @.floor, n |-> Gen]]
  /\ UNCHANGED <<now, written, gen, entry, writer, acked, lapse, answer>>

Hits(r) ==
  /\ reader[r].at = "look"
  /\ LET e == entry[reader[r].query][reader[r].n]
     IN  Alive(e) /\ answer' = e.first
  /\ reader' = [reader EXCEPT ![r] = Idle]
  /\ UNCHANGED <<now, written, gen, entry, writer, acked, lapse>>

Misses(r) ==
  /\ reader[r].at = "look"
  /\ ~ Alive(entry[reader[r].query][reader[r].n])
  /\ reader' = [reader EXCEPT ![r] =
       [at |-> "first", query |-> @.query, since |-> @.since, floor |-> @.floor, n |-> @.n]]
  /\ UNCHANGED <<now, written, gen, entry, writer, acked, lapse, answer>>

\* The first of the four selects, and the last of them.
SelectsFirst(r) ==
  /\ reader[r].at = "first"
  /\ reader' = [reader EXCEPT ![r] =
       [at |-> "last", query |-> @.query, since |-> @.since, floor |-> @.floor, n |-> @.n,
        first |-> written, time |-> now]]
  /\ UNCHANGED <<now, written, gen, entry, writer, acked, lapse, answer>>

SelectsLast(r) ==
  /\ reader[r].at = "last"
  /\ reader' = [reader EXCEPT ![r] =
       [at |-> "store", query |-> @.query, since |-> @.since, floor |-> @.floor, n |-> @.n,
        first |-> @.first, time |-> @.time, last |-> written]]
  /\ UNCHANGED <<now, written, gen, entry, writer, acked, lapse, answer>>

\* Mutation: a lifetime in the wrong unit.
KeptTooLong(life) == now + 60 * life
KeptUntil(life)   == now + life

Stores(r) ==
  /\ reader[r].at = "store"
  /\ \E life \in Lives :
       entry' = [entry EXCEPT ![reader[r].query][KeyOf(r)] =
         [first |-> reader[r].first, time |-> reader[r].time, last |-> reader[r].last,
          until |-> KeptUntil(life)]]
  /\ answer' = reader[r].first
  /\ reader' = [reader EXCEPT ![r] = Idle]
  /\ UNCHANGED <<now, written, gen, writer, acked, lapse>>

ReaderFails(r) ==
  /\ reader[r] # Idle
  /\ reader' = [reader EXCEPT ![r] = Idle]
  /\ answer' = NoAnswer
  /\ UNCHANGED <<now, written, gen, entry, writer, acked, lapse>>

\* Time passes, though not beyond the patience of a request, and Redis drops the
\* keys whose time has come.
Ticks ==
  /\ now < Horizon
  /\ \A r \in Readers : reader[r] # Idle => now < reader[r].since + Patience
  /\ now' = now + 1
  /\ IF gen # NoGen /\ gen.until <= now + 1
     THEN gen' = NoGen /\ lapse' = {now + 1}
     ELSE UNCHANGED <<gen, lapse>>
  /\ entry' = [q \in Queries |-> [g \in Generations |->
       IF entry[q][g].until <= now + 1 THEN NoEntry ELSE entry[q][g]]]
  /\ UNCHANGED <<written, writer, reader, acked, answer>>

-----------------------------------------------------------------------------
Init ==
  /\ now = 0 /\ written = 0 /\ acked = 0 /\ lapse = NoLapse
  /\ gen = NoGen
  /\ entry = [q \in Queries |-> [g \in Generations |-> NoEntry]]
  /\ writer = [w \in Writers |-> Idle]
  /\ reader = [r \in Readers |-> Idle]
  /\ answer = NoAnswer

Next ==
  \/ \E w \in Writers :
       \/ Commit(w) \/ ReadsGen(w) \/ SetsGen(w) \/ WriterFails(w)
       \/ CommitsElsewhere(w) \/ Answers(w)
  \/ Ticks
  \/ \E r \in Readers, q \in Queries : Asks(r, q)
  \/ \E r \in Readers :
       \/ MakesKey(r) \/ Hits(r) \/ Misses(r) \/ SelectsFirst(r) \/ SelectsLast(r)
       \/ Stores(r) \/ ReaderFails(r)

Spec == Init /\ [][Next]_vars

-----------------------------------------------------------------------------
(* Correctness.                                                            *)

Past    == 0 .. Horizon

Waiting(x, at, fields) ==
  /\ x.at = at /\ DOMAIN x = {"at", "query", "since", "floor"} \cup fields
  /\ x.query \in Queries /\ x.since \in 0 .. now /\ x.floor \in 0 .. acked
  /\ "n" \in fields => x.n \in Generations
  /\ "first" \in fields => x.first \in 0 .. written /\ x.time \in 0 .. now
  /\ "last" \in fields => x.last \in 0 .. written

TypeOK ==
  /\ now \in Past /\ written \in 0 .. MaxWrites
  /\ lapse \subseteq 0 .. now /\ acked \in 0 .. written
  /\ gen \in [n : Generations, until : Nat]
  /\ entry \in [Queries -> [Generations ->
       [first : 0 .. MaxWrites, time : Past, last : 0 .. MaxWrites, until : Nat]]]
  /\ \A w \in Writers :
       \/ writer[w] = Idle
       \/ writer[w] \in [at : {"get", "answer"}, write : 1 .. written]
       \/ writer[w] \in [at : {"set"}, write : 1 .. written, n : 0 .. MaxWrites - 1]
  /\ \A r \in Readers :
       \/ reader[r] = Idle
       \/ Waiting(reader[r], "gen", {})
       \/ Waiting(reader[r], "look", {"n"}) \/ Waiting(reader[r], "first", {"n"})
       \/ Waiting(reader[r], "last", {"n", "first", "time"})
       \/ Waiting(reader[r], "store", {"n", "first", "time", "last"})
  /\ answer \in {NoAnswer} \cup 0 .. written

\* A request of time t may still meet a summary that a lapse left behind: one that
\* was being filled at the lapse, or under a generation that is counted again.
InDoubt(t) == \E l \in lapse, life \in Lives : t <= l + life + 2 * Patience

\* The promise of FreshReads: the oldest select of a summary saw every write that was
\* acknowledged before the request.  Overlapping invalidations, a counter that ran
\* out, errors of Redis and writes elsewhere break it, for requests that were in
\* progress or are made within the longest life of a key and the patience of two
\* requests; after that it holds again for all these writes.
Reads == INSTANCE FreshReads WITH
  floor <- [r \in Readers |->
    IF reader[r] = Idle THEN -1
    ELSE IF InDoubt(reader[r].since) THEN 0 ELSE reader[r].floor],
  steady <- ~ InDoubt(now),
  given <- answer

SummariesAreFresh == Reads!Spec

\* Whatever puts the counter behind the writes, no summary is kept that is older than
\* the longest life of a key and the request that filled it.
StalenessIsBounded ==
  \A q \in Queries, g \in Generations :
    Alive(entry[q][g]) => \E life \in Lives : now - entry[q][g].time <= life + Patience

\* When no write is in progress, what a request would find is the table as it is: a
\* summary torn by a write between its selects is only kept under a generation nobody
\* asks for.  Summaries of requests begun before the last lapse are excepted.
QuietCacheIsCurrent ==
  (\A w \in Writers : writer[w] = Idle) =>
    \A q \in Queries : LET e == entry[q][Gen] IN
      Alive(e) /\ (\A l \in lapse : e.time > l + Patience) =>
        e.first = written /\ e.last = written
=============================================================================
