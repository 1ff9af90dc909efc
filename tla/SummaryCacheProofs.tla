------------------------- MODULE SummaryCacheProofs -------------------------
(***************************************************************************)
(* What the summary cache promises for every number of writers, readers    *)
(* and queries and all lifetimes: how old an answer may be, and that no    *)
(* answer is stale but for those a lapse of the counter leaves behind:     *)
(* invalidations that overlap and come in the wrong order, a counter that  *)
(* runs out, errors of Redis, writes that invalidate nothing.              *)
(***************************************************************************)
EXTENDS SummaryCache, FiniteSetTheorems, TLAPS

-----------------------------------------------------------------------------
(* The age of a summary.                                                   *)

\* A request is not older than its patience, and what it has read is not older
\* than the request.
RequestsAreYoung ==
  \A r \in Readers : reader[r] # Idle =>
    /\ reader[r].at # "idle"
    /\ reader[r].since \in Nat
    /\ reader[r].since <= now /\ now <= reader[r].since + Patience
    /\ reader[r].at \in {"last", "store"} =>
         /\ reader[r].time \in Nat
         /\ reader[r].since <= reader[r].time /\ reader[r].time <= now

\* A summary that is kept has time left, and was kept for one of the lifetimes.
EntriesExpire ==
  \A q \in Queries, g \in Generations :
    /\ entry[q][g].time \in Nat /\ entry[q][g].until \in Nat
    /\ Alive(entry[q][g]) =>
         /\ entry[q][g].time <= now /\ now < entry[q][g].until
         /\ \E life \in Lives : entry[q][g].until <= entry[q][g].time + life + Patience

AgeInv ==
  /\ now \in Nat
  /\ reader = [r \in Readers |-> reader[r]]
  /\ entry = [q \in Queries |-> [g \in Generations |-> entry[q][g]]]
  /\ RequestsAreYoung
  /\ EntriesExpire

\* What the proofs use of the assumption on the constants.
LEMMA Constants ==
  /\ Lives \subseteq Nat \ {0} /\ Lives # {} /\ GenLife \in Nat /\ Patience \in Nat
  /\ MaxWrites \in Nat /\ Horizon \in Nat
BY SummaryAssumption

\* An empty cache and nobody asking.
LEMMA AgeInit == Init => AgeInv
<1> SUFFICES ASSUME Init PROVE AgeInv
  OBVIOUS
<1>1. \A r \in Readers : reader[r] = Idle
  BY DEF Init
<1>2. \A q \in Queries, g \in Generations : entry[q][g] = NoEntry
  BY DEF Init
<1>3. RequestsAreYoung /\ EntriesExpire
  BY <1>1, <1>2 DEF RequestsAreYoung, EntriesExpire, NoEntry, Alive
<1> QED
  BY <1>3 DEF Init, AgeInv

\* Steps that neither keep a summary nor let time pass.
LEMMA AgeUntouched ==
  ASSUME AgeInv, now' = now, entry' = entry, NEW r \in Readers, NEW x,
         reader' = [reader EXCEPT ![r] = x] \/ reader' = reader,
         x # Idle =>
           /\ x.at # "idle"
           /\ x.since \in Nat /\ x.since <= now /\ now <= x.since + Patience
           /\ x.at \in {"last", "store"} =>
                x.time \in Nat /\ x.since <= x.time /\ x.time <= now
  PROVE  AgeInv'
<1>1. RequestsAreYoung'
  BY DEF AgeInv, RequestsAreYoung
<1>2. EntriesExpire'
  BY DEF AgeInv, EntriesExpire, Alive
<1>3. reader' = [s \in Readers |-> reader'[s]]
  BY DEF AgeInv
<1> QED
  BY <1>1, <1>2, <1>3 DEF AgeInv

\* Every step keeps the ages, whatever the writers do.
LEMMA AgeStep == AgeInv /\ [Next]_vars => AgeInv'
<1> SUFFICES ASSUME AgeInv, [Next]_vars PROVE AgeInv'
  OBVIOUS
<1>1. ASSUME UNCHANGED <<now, entry, reader>> PROVE AgeInv'
  BY <1>1 DEF AgeInv, RequestsAreYoung, EntriesExpire, Alive
<1>2. ASSUME NEW w \in Writers,
             \/ Commit(w) \/ ReadsGen(w) \/ SetsGen(w) \/ WriterFails(w)
             \/ CommitsElsewhere(w) \/ Answers(w)
      PROVE  AgeInv'
  BY <1>1, <1>2 DEF Commit, ReadsGen, SetsGen, WriterFails, CommitsElsewhere, Answers
<1>3. CASE Ticks
  <2>1. /\ now' = now + 1 /\ reader' = reader
        /\ \A r \in Readers : reader[r] # Idle => now < reader[r].since + Patience
        /\ entry' = [q \in Queries |-> [g \in Generations |->
             IF entry[q][g].until <= now + 1 THEN NoEntry ELSE entry[q][g]]]
    BY <1>3 DEF Ticks
  <2>2. RequestsAreYoung'
    BY <2>1, Constants DEF AgeInv, RequestsAreYoung, Idle
  <2>3. EntriesExpire'
    BY <2>1 DEF AgeInv, EntriesExpire, NoEntry, Alive
  <2> QED
    BY <2>1, <2>2, <2>3 DEF AgeInv
<1>4. ASSUME NEW r \in Readers, NEW q \in Queries, Asks(r, q) PROVE AgeInv'
  <2> DEFINE x == [at |-> "gen", query |-> q, since |-> now, floor |-> acked]
  <2>1. reader' = [reader EXCEPT ![r] = x] /\ now' = now /\ entry' = entry
    BY <1>4 DEF Asks
  <2>2. x.at = "gen" /\ x.since \in Nat /\ x.since <= now /\ now <= x.since + Patience
    BY Constants DEF AgeInv
  <2> HIDE DEF x
  <2> QED
    BY <2>1, <2>2, AgeUntouched
<1>5. ASSUME NEW r \in Readers,
             MakesKey(r) \/ Misses(r) \/ SelectsFirst(r) \/ SelectsLast(r)
      PROVE  AgeInv'
  <2>1. /\ reader' = [reader EXCEPT ![r] = reader'[r]] /\ now' = now /\ entry' = entry
        /\ reader[r] # Idle /\ reader'[r].at # "idle" /\ reader'[r].since = reader[r].since
        /\ reader'[r].at = "store" => reader[r].at = "last" /\ reader'[r].time = reader[r].time
        /\ reader'[r].at = "last" => reader'[r].time = now
    BY <1>5 DEF MakesKey, Misses, SelectsFirst, SelectsLast, AgeInv, Idle
  <2>2. now \in Nat /\ RequestsAreYoung
    BY DEF AgeInv
  <2> QED
    BY <2>1, <2>2, AgeUntouched DEF RequestsAreYoung
<1>6. ASSUME NEW r \in Readers, Hits(r) \/ ReaderFails(r) PROVE AgeInv'
  <2>1. reader' = [reader EXCEPT ![r] = Idle] /\ now' = now /\ entry' = entry
    BY <1>6 DEF Hits, ReaderFails
  <2> QED
    BY <2>1, AgeUntouched
<1>7. ASSUME NEW r \in Readers, Stores(r) PROVE AgeInv'
  <2>1. /\ reader' = [reader EXCEPT ![r] = Idle] /\ now' = now
        /\ reader[r].at = "store"
    BY <1>7 DEF Stores
  <2>2. PICK life \in Lives :
          entry' = [entry EXCEPT ![reader[r].query][reader[r].n] =
            [first |-> reader[r].first, time |-> reader[r].time,
             last |-> reader[r].last, until |-> now + life]]
    BY <1>7 DEF Stores, KeyOf, KeptUntil
  <2> DEFINE e == [first |-> reader[r].first, time |-> reader[r].time,
                   last |-> reader[r].last, until |-> now + life]
  <2>3. /\ e.time = reader[r].time /\ e.until = now + life
        /\ now \in Nat /\ life \in Nat \ {0} /\ Patience \in Nat
        /\ reader[r].time \in Nat /\ reader[r].since \in Nat
        /\ reader[r].since <= reader[r].time /\ reader[r].time <= now
        /\ now <= reader[r].since + Patience
    BY <2>1, Constants DEF AgeInv, RequestsAreYoung, Idle
  <2>4. /\ e.time \in Nat /\ e.until \in Nat /\ now < e.until /\ e.time <= now
        /\ e.until <= e.time + life + Patience
    BY <2>3
  <2> HIDE DEF e
  <2>5. \A q \in Queries, g \in Generations :
          entry'[q][g] = entry[q][g] \/ entry'[q][g] = e
    BY <2>2 DEF AgeInv, e
  <2>6. EntriesExpire'
    BY <2>1, <2>4, <2>5 DEF AgeInv, EntriesExpire, Alive
  <2>7. RequestsAreYoung'
    BY <2>1 DEF AgeInv, RequestsAreYoung, Idle
  <2>8. entry' = [q \in Queries |-> [g \in Generations |-> entry'[q][g]]]
    BY <2>2 DEF AgeInv
  <2> QED
    BY <2>1, <2>6, <2>7, <2>8 DEF AgeInv
<1> QED
  BY <1>1, <1>2, <1>3, <1>4, <1>5, <1>6, <1>7 DEF Next, vars

\* Whatever overlaps, and although /transfers and imports invalidate nothing, no
\* summary is older than the longest life of a key plus the request that filled it.
THEOREM StalenessBounded == Spec => []StalenessIsBounded
<1>1. AgeInv => StalenessIsBounded
  <2> SUFFICES ASSUME AgeInv, NEW q \in Queries, NEW g \in Generations, Alive(entry[q][g])
               PROVE  \E life \in Lives : now - entry[q][g].time <= life + Patience
    BY DEF StalenessIsBounded
  <2>1. PICK life \in Lives : entry[q][g].until <= entry[q][g].time + life + Patience
    BY DEF AgeInv, EntriesExpire
  <2>2. /\ now \in Nat /\ entry[q][g].until \in Nat /\ entry[q][g].time \in Nat
        /\ now < entry[q][g].until
    BY DEF AgeInv, EntriesExpire
  <2> QED
    BY <2>1, <2>2, Constants
<1> QED
  BY <1>1, AgeInit, AgeStep, PTL DEF Spec
-----------------------------------------------------------------------------
(* Freshness, since the last lapse.                                        *)

\* The writes that are committed and have not moved the counter yet.
Pending == {writer[w].write : w \in {v \in Writers : writer[v].at \in {"get", "set"}}}

\* Requests, and summaries, that no lapse has met.
After(t)     == \A l \in lapse : l < t
AfterAll(e)  == \A l \in lapse : l + Patience < e.time

\* Writes in progress have numbers of their own, and none is acknowledged.
WriterInv ==
  /\ writer = [w \in Writers |-> writer[w]]
  /\ \A w \in Writers : writer[w].at # "idle" =>
       /\ writer[w].at \in {"get", "set", "answer"}
       /\ writer[w].write \in Nat /\ 1 <= writer[w].write /\ writer[w].write <= written
       /\ writer[w].write # acked
       /\ \A v \in Writers : v # w /\ writer[v].at # "idle" =>
            writer[v].write # writer[w].write

CounterInv ==
  /\ now \in 0 .. Horizon /\ lapse \subseteq 0 .. now
  /\ written \in Nat /\ written <= MaxWrites
  /\ acked \in Nat /\ acked <= written
  /\ gen.n \in Nat /\ gen.until \in Nat

\* Each number the counter has been given is that of a write no longer pending.
CountInv ==
  /\ IsFiniteSet(Pending)
  /\ gen.n + Cardinality(Pending) <= written
  /\ \A w \in Writers : writer[w].at = "set" =>
       writer[w].n \in Nat /\ writer[w].n + Cardinality(Pending) <= written

\* What was read under generation g when the table had f writes: under the counter's
\* value only pending writes are missing, and an invalidation that would set the
\* counter to g or less is of a write that was seen.
Reflects(f, g) ==
  /\ g = gen.n => \A k \in f + 1 .. written : k \in Pending
  /\ \A w \in Writers : writer[w].at = "set" /\ writer[w].n < g => writer[w].write <= f

\* No summary is kept under a generation to come.
EntryInv ==
  \A q \in Queries, g \in Generations : Alive(entry[q][g]) =>
    /\ entry[q][g].first \in Nat /\ entry[q][g].last \in Nat
    /\ entry[q][g].first <= entry[q][g].last /\ entry[q][g].last <= written
    /\ AfterAll(entry[q][g]) => g <= gen.n /\ Reflects(entry[q][g].first, g)

ReaderInv ==
  \A r \in Readers : reader[r].at # "idle" =>
    /\ reader[r].at \in {"gen", "look", "first", "last", "store"}
    /\ reader[r].query \in Queries
    /\ reader[r].floor \in Nat /\ reader[r].floor <= acked
    /\ reader[r].at # "gen" =>
         reader[r].n \in Generations /\ (After(reader[r].since) => reader[r].n <= gen.n)
    /\ reader[r].at \in {"last", "store"} =>
         /\ reader[r].first \in Nat /\ reader[r].first <= written
         /\ After(reader[r].since) => Reflects(reader[r].first, reader[r].n)
    /\ reader[r].at = "store" =>
         /\ reader[r].last \in Nat
         /\ reader[r].first <= reader[r].last /\ reader[r].last <= written

\* Whatever is kept, or about to be kept, under the generation a request looks
\* under reflects what was acknowledged when the request was made.
FloorInv ==
  \A r \in Readers :
    reader[r].at \in {"look", "first", "last", "store"} /\ ~ InDoubt(reader[r].since) =>
      /\ \A q \in Queries : Alive(entry[q][reader[r].n]) =>
           reader[r].floor <= entry[q][reader[r].n].first
      /\ \A s \in Readers : reader[s].at \in {"last", "store"} /\ reader[s].n = reader[r].n =>
           reader[r].floor <= reader[s].first

FreshInv ==
  /\ AgeInv
  /\ WriterInv /\ CounterInv /\ CountInv
  /\ EntryInv /\ ReaderInv /\ FloorInv

\* Nothing written, nothing kept, nobody asking.
LEMMA FreshInit == Init => FreshInv
<1> SUFFICES ASSUME Init PROVE FreshInv
  OBVIOUS
<1>1. \A r \in Readers : reader[r].at = "idle"
  BY DEF Init, Idle
<1>2. \A w \in Writers : writer[w].at = "idle"
  BY DEF Init, Idle
<1>3. \A q \in Queries, g \in Generations : entry[q][g].until = 0
  BY DEF Init, NoEntry
<1>4. WriterInv
  BY <1>2 DEF Init, WriterInv
<1>5. CounterInv
  BY Constants DEF Init, CounterInv, NoGen, NoLapse
<1>6. CountInv
  <2>1. Pending = {}
    BY <1>2 DEF Pending
  <2> QED
    BY <1>2, <2>1, FS_EmptySet DEF Init, CountInv, NoGen
<1>7. EntryInv /\ ReaderInv /\ FloorInv
  BY <1>1, <1>3 DEF EntryInv, ReaderInv, FloorInv, Alive
<1> QED
  BY <1>4, <1>5, <1>6, <1>7, AgeInit DEF FreshInv

\* A value the counter has, or is about to have, is a generation.
LEMMA CounterIsGeneration ==
  ASSUME FreshInv
  PROVE  /\ gen.n \in Generations
         /\ \A w \in Writers : writer[w].at = "set" => writer[w].n + 1 \in Generations
<1>1. Cardinality(Pending) \in Nat /\ IsFiniteSet(Pending)
  BY FS_CardinalityType DEF FreshInv, CountInv
<1>2. gen.n <= written /\ written <= MaxWrites /\ written \in Nat /\ gen.n \in Nat
  BY <1>1 DEF FreshInv, CountInv, CounterInv
<1>3. ASSUME NEW w \in Writers, writer[w].at = "set" PROVE writer[w].n + 1 \in Generations
  <2>1. Pending # {}
    BY <1>3 DEF Pending
  <2>2. Cardinality(Pending) # 0
    BY <1>1, <2>1, FS_EmptySet
  <2>3. writer[w].n \in Nat /\ writer[w].n + Cardinality(Pending) <= written
    BY <1>3 DEF FreshInv, CountInv
  <2> QED
    BY <1>1, <1>2, <2>2, <2>3, Constants DEF Generations
<1> QED
  BY <1>2, <1>3, Constants DEF Generations

\* A lapse: nothing that is kept or in progress was begun after it.
LEMMA LapseForgives ==
  ASSUME FreshInv, AgeInv', WriterInv', CounterInv', CountInv', lapse' = {now'},
         reader' = reader, written <= written', acked <= acked',
         \A q \in Queries, g \in Generations :
           entry'[q][g] = entry[q][g] \/ entry'[q][g] = NoEntry
  PROVE  FreshInv'
<1>1. /\ now' \in Nat /\ written' \in Nat /\ acked' \in Nat /\ written \in Nat /\ acked \in Nat
      /\ Patience \in Nat
  BY Constants DEF CounterInv, FreshInv
<1>2. EntryInv'
  <2> SUFFICES ASSUME NEW q \in Queries, NEW g \in Generations, Alive(entry'[q][g])
               PROVE  /\ entry'[q][g].first \in Nat /\ entry'[q][g].last \in Nat
                      /\ entry'[q][g].first <= entry'[q][g].last
                      /\ entry'[q][g].last <= written'
                      /\ ~ AfterAll(entry[q][g])'
    BY DEF EntryInv, Alive
  <2>1. entry'[q][g] = entry[q][g] /\ Alive(entry[q][g])
    BY DEF Alive, NoEntry
  <2>2. /\ entry[q][g].first \in Nat /\ entry[q][g].last \in Nat
        /\ entry[q][g].first <= entry[q][g].last /\ entry[q][g].last <= written
    BY <2>1 DEF FreshInv, EntryInv
  <2>3. entry'[q][g].time \in Nat /\ entry'[q][g].time <= now'
    BY DEF AgeInv, EntriesExpire, Alive
  <2>4. ~ AfterAll(entry[q][g])'
    BY <1>1, <2>3 DEF AfterAll
  <2> QED
    BY <1>1, <2>1, <2>2, <2>4
<1>3. ASSUME NEW r \in Readers, reader[r].at # "idle"
      PROVE  ~ After(reader[r].since)' /\ InDoubt(reader[r].since)'
  <2>1. reader[r].since \in Nat /\ reader[r].since <= now'
    BY <1>3 DEF AgeInv, RequestsAreYoung, Idle
  <2>2. PICK life \in Lives : life \in Nat
    BY Constants
  <2>3. reader[r].since <= now' + life + 2 * Patience
    BY <1>1, <2>1, <2>2
  <2> QED
    BY <1>1, <2>1, <2>3 DEF After, InDoubt
<1>4. ReaderInv'
  <2> SUFFICES ASSUME NEW r \in Readers, reader[r].at # "idle"
               PROVE  /\ reader[r].at \in {"gen", "look", "first", "last", "store"}
                      /\ reader[r].query \in Queries
                      /\ reader[r].floor \in Nat /\ reader[r].floor <= acked'
                      /\ reader[r].at # "gen" => reader[r].n \in Generations
                      /\ reader[r].at \in {"last", "store"} =>
                           reader[r].first \in Nat /\ reader[r].first <= written'
                      /\ reader[r].at = "store" =>
                           /\ reader[r].last \in Nat
                           /\ reader[r].first <= reader[r].last /\ reader[r].last <= written'
    BY <1>3 DEF ReaderInv
  <2> QED
    BY <1>1 DEF FreshInv, ReaderInv
<1>5. FloorInv'
  BY <1>3 DEF FloorInv
<1> QED
  BY <1>2, <1>4, <1>5 DEF FreshInv

\* A step of a writer that keeps what recent reads reflect.
LEMMA NoLapseKeeps ==
  ASSUME FreshInv, AgeInv', WriterInv', CounterInv', CountInv',
         UNCHANGED <<now, lapse, reader, entry>>, written <= written', acked <= acked',
         gen.n <= gen'.n,
         \A f \in Nat, g \in Nat : f <= written /\ g <= gen.n /\ Reflects(f, g) => Reflects(f, g)'
  PROVE  FreshInv'
<1>1. /\ written' \in Nat /\ acked' \in Nat /\ written \in Nat /\ acked \in Nat
      /\ gen.n \in Nat /\ gen'.n \in Nat /\ Generations \subseteq Nat
  BY Constants DEF CounterInv, FreshInv, Generations
<1>2. EntryInv'
  <2> SUFFICES ASSUME NEW q \in Queries, NEW g \in Generations, Alive(entry[q][g])
               PROVE  /\ entry[q][g].first \in Nat /\ entry[q][g].last \in Nat
                      /\ entry[q][g].first <= entry[q][g].last
                      /\ entry[q][g].last <= written'
                      /\ AfterAll(entry[q][g]) =>
                           g <= gen'.n /\ Reflects(entry[q][g].first, g)'
    BY DEF EntryInv, Alive, AfterAll
  <2>1. /\ entry[q][g].first \in Nat /\ entry[q][g].last \in Nat /\ g \in Nat
        /\ entry[q][g].first <= entry[q][g].last /\ entry[q][g].last <= written
        /\ AfterAll(entry[q][g]) => g <= gen.n /\ Reflects(entry[q][g].first, g)
    BY <1>1 DEF FreshInv, EntryInv
  <2>2. entry[q][g].first <= written /\ entry[q][g].last <= written'
    BY <1>1, <2>1
  <2>3. AfterAll(entry[q][g]) => g <= gen'.n
    BY <1>1, <2>1
  <2> QED
    BY <2>1, <2>2, <2>3
<1>3. ReaderInv'
  <2> SUFFICES ASSUME NEW r \in Readers, reader[r].at # "idle"
               PROVE  /\ reader[r].at \in {"gen", "look", "first", "last", "store"}
                      /\ reader[r].query \in Queries
                      /\ reader[r].floor \in Nat /\ reader[r].floor <= acked'
                      /\ reader[r].at # "gen" =>
                           /\ reader[r].n \in Generations
                           /\ After(reader[r].since) => reader[r].n <= gen'.n
                      /\ reader[r].at \in {"last", "store"} =>
                           /\ reader[r].first \in Nat /\ reader[r].first <= written'
                           /\ After(reader[r].since) => Reflects(reader[r].first, reader[r].n)'
                      /\ reader[r].at = "store" =>
                           /\ reader[r].last \in Nat
                           /\ reader[r].first <= reader[r].last /\ reader[r].last <= written'
    BY DEF ReaderInv, After
  <2>1. /\ reader[r].at \in {"gen", "look", "first", "last", "store"}
        /\ reader[r].query \in Queries
        /\ reader[r].floor \in Nat /\ reader[r].floor <= acked
        /\ reader[r].at # "gen" =>
             /\ reader[r].n \in Generations /\ reader[r].n \in Nat
             /\ After(reader[r].since) => reader[r].n <= gen.n
        /\ reader[r].at \in {"last", "store"} =>
             /\ reader[r].first \in Nat /\ reader[r].first <= written
             /\ After(reader[r].since) => Reflects(reader[r].first, reader[r].n)
        /\ reader[r].at = "store" =>
             /\ reader[r].last \in Nat
             /\ reader[r].first <= reader[r].last /\ reader[r].last <= written
    BY <1>1 DEF FreshInv, ReaderInv
  <2>2. reader[r].at \in {"last", "store"} /\ After(reader[r].since) =>
          Reflects(reader[r].first, reader[r].n)'
    BY <2>1
  <2>3. /\ reader[r].floor <= acked'
        /\ reader[r].at # "gen" /\ After(reader[r].since) => reader[r].n <= gen'.n
        /\ reader[r].at \in {"last", "store"} => reader[r].first <= written'
        /\ reader[r].at = "store" => reader[r].last <= written'
    BY <1>1, <2>1
  <2> QED
    BY <2>1, <2>2, <2>3
<1>4. FloorInv'
  BY DEF FreshInv, FloorInv, InDoubt, Alive
<1> QED
  BY <1>2, <1>3, <1>4 DEF FreshInv

\* What a step of a writer leaves alone.
LEMMA WriterLeaves ==
  ASSUME NEW w \in Writers, Commit(w) \/ CommitsElsewhere(w) \/ Answers(w) \/ ReadsGen(w)
                            \/ SetsGen(w) \/ WriterFails(w)
  PROVE  UNCHANGED <<now, reader, entry>>
BY DEF Commit, CommitsElsewhere, Answers, ReadsGen, SetsGen, WriterFails

\* The set of pending writes after a writer's step.
LEMMA PendingAdds ==
  ASSUME WriterInv, NEW w \in Writers, NEW x, writer' = [writer EXCEPT ![w] = x],
         writer[w].at \notin {"get", "set"}, x.at \in {"get", "set"}
  PROVE  Pending' = Pending \cup {x.write}
<1>1. writer'[w] = x /\ \A v \in Writers : v # w => writer'[v] = writer[v]
  BY DEF WriterInv
<1> QED
  BY <1>1 DEF Pending

LEMMA PendingKeeps ==
  ASSUME WriterInv, NEW w \in Writers, NEW x, writer' = [writer EXCEPT ![w] = x],
         \/ writer[w].at \notin {"get", "set"} /\ x.at \notin {"get", "set"}
         \/ writer[w].at \in {"get", "set"} /\ x.at \in {"get", "set"}
            /\ x.write = writer[w].write
  PROVE  Pending' = Pending
<1>1. writer'[w] = x /\ \A v \in Writers : v # w => writer'[v] = writer[v]
  BY DEF WriterInv
<1> QED
  BY <1>1 DEF Pending

LEMMA PendingDrops ==
  ASSUME WriterInv, NEW w \in Writers, NEW x, writer' = [writer EXCEPT ![w] = x],
         writer[w].at \in {"get", "set"}, x.at \notin {"get", "set"}
  PROVE  Pending' = Pending \ {writer[w].write}
<1>1. writer'[w] = x /\ \A v \in Writers : v # w => writer'[v] = writer[v]
  BY DEF WriterInv
<1>2. \A v \in Writers : v # w /\ writer[v].at \in {"get", "set"} =>
        writer[v].write # writer[w].write
  BY DEF WriterInv
<1> QED
  BY <1>1, <1>2 DEF Pending

\* A write that is begun, and one that is done with.
LEMMA WriterBegins ==
  ASSUME WriterInv, CounterInv, NEW w \in Writers, NEW x, writer[w] = Idle,
         writer' = [writer EXCEPT ![w] = x], x.at \in {"get", "answer"},
         x.write = written + 1, written' = written + 1, acked' = acked
  PROVE  WriterInv'
<1>1. writer'[w] = x /\ \A v \in Writers : v # w => writer'[v] = writer[v]
  BY DEF WriterInv
<1>2. written \in Nat /\ acked <= written /\ acked \in Nat
  BY DEF CounterInv
<1>3. writer' = [v \in Writers |-> writer'[v]]
  BY DEF WriterInv
<1>4. ASSUME NEW v \in Writers, writer'[v].at # "idle"
      PROVE  /\ writer'[v].at \in {"get", "set", "answer"}
             /\ writer'[v].write \in Nat /\ 1 <= writer'[v].write
             /\ writer'[v].write <= written' /\ writer'[v].write # acked
             /\ \A u \in Writers : u # v /\ writer'[u].at # "idle" =>
                  writer'[u].write # writer'[v].write
  <2>1. CASE v = w
    BY <1>1, <1>2, <2>1 DEF WriterInv
  <2>2. CASE v # w
    BY <1>1, <1>2, <1>4, <2>2 DEF WriterInv
  <2> QED
    BY <2>1, <2>2
<1> QED
  BY <1>3, <1>4 DEF WriterInv

LEMMA WriterMoves ==
  ASSUME WriterInv, CounterInv, NEW w \in Writers, NEW x, writer[w].at # "idle",
         writer' = [writer EXCEPT ![w] = x], written' = written,
         \/ x.at \in {"set"} /\ x.write = writer[w].write /\ acked' = acked
         \/ x = Idle /\ acked' \in {acked, writer[w].write}
  PROVE  WriterInv'
<1>1. writer'[w] = x /\ \A v \in Writers : v # w => writer'[v] = writer[v]
  BY DEF WriterInv
<1>2. writer' = [v \in Writers |-> writer'[v]]
  BY DEF WriterInv
<1>3. ASSUME NEW v \in Writers, writer'[v].at # "idle"
      PROVE  /\ writer'[v].at \in {"get", "set", "answer"}
             /\ writer'[v].write \in Nat /\ 1 <= writer'[v].write
             /\ writer'[v].write <= written' /\ writer'[v].write # acked'
             /\ \A u \in Writers : u # v /\ writer'[u].at # "idle" =>
                  writer'[u].write # writer'[v].write
  <2>1. CASE v = w
    BY <1>1, <1>3, <2>1 DEF WriterInv, Idle
  <2>2. CASE v # w
    BY <1>1, <1>3, <2>2 DEF WriterInv, Idle
  <2> QED
    BY <2>1, <2>2
<1> QED
  BY <1>2, <1>3 DEF WriterInv

\* Steps of a writer that are no lapse, and those that are.
LEMMA FreshCommit ==
  ASSUME FreshInv, AgeInv', NEW w \in Writers, Commit(w)
  PROVE  FreshInv'
<1> DEFINE x == [at |-> "get", write |-> written + 1]
<1>1. /\ written' = written + 1 /\ written < MaxWrites /\ writer[w] = Idle
      /\ writer' = [writer EXCEPT ![w] = x]
      /\ UNCHANGED <<now, gen, entry, reader, acked, lapse>>
  BY DEF Commit
<1>2. x.at = "get" /\ x.write = written + 1 /\ Idle.at = "idle"
  BY DEF Idle
<1> HIDE DEF x
<1>3. WriterInv /\ CounterInv /\ CountInv /\ written \in Nat
  BY DEF FreshInv, CounterInv
<1>4. WriterInv'
  BY <1>1, <1>2, <1>3, WriterBegins
<1>5. CounterInv'
  BY <1>1, <1>3, Constants DEF CounterInv
<1>6. Pending' = Pending \cup {written + 1}
  BY <1>1, <1>2, <1>3, PendingAdds
<1>7. written + 1 \notin Pending
  BY <1>3 DEF Pending, WriterInv
<1>8. \A v \in Writers : writer'[v].at = "set" => writer[v].at = "set" /\ writer'[v] = writer[v]
  BY <1>1, <1>2, <1>3 DEF WriterInv
<1>9. CountInv'
  <2>1. IsFiniteSet(Pending') /\ Cardinality(Pending') = Cardinality(Pending) + 1
    BY <1>3, <1>6, <1>7, FS_AddElement DEF CountInv
  <2>2. Cardinality(Pending) \in Nat
    BY <1>3, FS_CardinalityType DEF CountInv
  <2> DEFINE c == Cardinality(Pending)
             d == Cardinality(Pending')
  <2>3. c \in Nat /\ d = c + 1 /\ gen.n + c <= written /\ gen.n \in Nat
    BY <1>3, <2>1, <2>2 DEF CountInv, CounterInv
  <2>4. \A v \in Writers : writer[v].at = "set" => writer[v].n \in Nat /\ writer[v].n + c <= written
    BY <1>3 DEF CountInv
  <2> HIDE DEF c, d
  <2>5. gen.n + d <= written + 1
    BY <1>3, <2>3
  <2>6. \A v \in Writers : writer'[v].at = "set" =>
          writer'[v].n \in Nat /\ writer'[v].n + d <= written + 1
    BY <1>3, <1>8, <2>3, <2>4
  <2> QED
    BY <1>1, <2>1, <2>5, <2>6 DEF CountInv, d
<1>10. ASSUME NEW f \in Nat, NEW g \in Nat, f <= written, g <= gen.n, Reflects(f, g)
       PROVE  Reflects(f, g)'
  BY <1>1, <1>3, <1>6, <1>8, <1>10 DEF Reflects
<1> QED
  BY <1>1, <1>3, <1>4, <1>5, <1>9, <1>10, NoLapseKeeps DEF CounterInv

LEMMA FreshElsewhere ==
  ASSUME FreshInv, AgeInv', NEW w \in Writers, CommitsElsewhere(w)
  PROVE  FreshInv'
<1> DEFINE x == [at |-> "answer", write |-> written + 1]
<1>1. /\ written' = written + 1 /\ written < MaxWrites /\ writer[w] = Idle
      /\ writer' = [writer EXCEPT ![w] = x] /\ lapse' = {now}
      /\ UNCHANGED <<now, gen, entry, reader, acked>>
  BY DEF CommitsElsewhere
<1>2. x.at = "answer" /\ x.write = written + 1 /\ Idle.at = "idle"
  BY DEF Idle
<1> HIDE DEF x
<1>3. /\ WriterInv /\ CounterInv /\ CountInv /\ written \in Nat /\ now \in Nat /\ acked \in Nat
      /\ gen.n \in Nat
  BY DEF FreshInv, CounterInv
<1>4. WriterInv'
  BY <1>1, <1>2, <1>3, WriterBegins
<1>5. CounterInv'
  BY <1>1, <1>3, Constants DEF CounterInv
<1>6. Pending' = Pending
  BY <1>1, <1>2, <1>3, PendingKeeps
<1>7. \A v \in Writers : writer'[v].at = "set" => writer[v].at = "set" /\ writer'[v] = writer[v]
  BY <1>1, <1>2, <1>3 DEF WriterInv
<1>8. Cardinality(Pending) \in Nat
  BY <1>3, FS_CardinalityType DEF CountInv
<1>9. CountInv'
  BY <1>1, <1>3, <1>6, <1>7, <1>8 DEF CountInv
<1> QED
  BY <1>1, <1>3, <1>4, <1>5, <1>9, LapseForgives

LEMMA FreshAnswers ==
  ASSUME FreshInv, AgeInv', NEW w \in Writers, Answers(w)
  PROVE  FreshInv'
<1>1. /\ writer[w].at = "answer" /\ writer' = [writer EXCEPT ![w] = Idle]
      /\ acked' = IF writer[w].write > acked THEN writer[w].write ELSE acked
      /\ UNCHANGED <<now, written, gen, entry, reader, lapse>>
  BY DEF Answers, Acknowledged
<1>2. /\ WriterInv /\ CounterInv /\ CountInv /\ acked \in Nat /\ written \in Nat /\ gen.n \in Nat
      /\ Idle.at = "idle"
  BY DEF FreshInv, CounterInv, Idle
<1>3. /\ writer[w].write \in Nat /\ writer[w].write <= written
      /\ acked' \in {acked, writer[w].write} /\ acked <= acked' /\ acked' \in Nat
      /\ acked' <= written
  BY <1>1, <1>2 DEF WriterInv, CounterInv
<1>4. WriterInv'
  BY <1>1, <1>2, <1>3, WriterMoves
<1>5. CounterInv'
  BY <1>1, <1>2, <1>3 DEF CounterInv
<1>6. Pending' = Pending
  BY <1>1, <1>2, PendingKeeps
<1>7. \A v \in Writers : writer'[v].at = "set" => writer[v].at = "set" /\ writer'[v] = writer[v]
  BY <1>1, <1>2 DEF WriterInv
<1>8. CountInv'
  BY <1>1, <1>2, <1>6, <1>7 DEF CountInv
<1>9. ASSUME NEW f \in Nat, NEW g \in Nat, Reflects(f, g) PROVE Reflects(f, g)'
  BY <1>1, <1>6, <1>7, <1>9 DEF Reflects
<1> QED
  BY <1>1, <1>2, <1>3, <1>4, <1>5, <1>8, <1>9, NoLapseKeeps

LEMMA FreshGet ==
  ASSUME FreshInv, AgeInv', NEW w \in Writers, ReadsGen(w)
  PROVE  FreshInv'
<1> DEFINE x == [at |-> "set", write |-> writer[w].write, n |-> gen.n]
<1>1. /\ writer[w].at = "get" /\ writer' = [writer EXCEPT ![w] = x]
      /\ UNCHANGED <<now, written, gen, entry, reader, acked, lapse>>
  BY DEF ReadsGen, Gen
<1>2. x.at = "set" /\ x.write = writer[w].write /\ x.n = gen.n
  OBVIOUS
<1> HIDE DEF x
<1>3. /\ WriterInv /\ CounterInv /\ CountInv /\ acked \in Nat /\ written \in Nat /\ gen.n \in Nat
  BY DEF FreshInv, CounterInv
<1>4. WriterInv'
  BY <1>1, <1>2, <1>3, WriterMoves
<1>5. CounterInv'
  BY <1>1, <1>3 DEF CounterInv
<1>6. Pending' = Pending
  BY <1>1, <1>2, <1>3, PendingKeeps
<1>7. \A v \in Writers : writer'[v].at = "set" =>
        \/ writer[v].at = "set" /\ writer'[v] = writer[v]
        \/ v = w /\ writer'[v].n = gen.n
  BY <1>1, <1>2, <1>3 DEF WriterInv
<1>8. CountInv'
  BY <1>1, <1>3, <1>6, <1>7 DEF CountInv
<1>9. ASSUME NEW f \in Nat, NEW g \in Nat, g <= gen.n, Reflects(f, g) PROVE Reflects(f, g)'
  <2>1. \A v \in Writers : writer'[v].at = "set" /\ writer'[v].n < g =>
          writer[v].at = "set" /\ writer'[v] = writer[v]
    BY <1>3, <1>7, <1>9
  <2> QED
    BY <1>1, <1>6, <1>9, <2>1 DEF Reflects
<1> QED
  BY <1>1, <1>3, <1>4, <1>5, <1>8, <1>9, NoLapseKeeps

\* An invalidation that ends, by setting the counter or by an error.
LEMMA FreshSet ==
  ASSUME FreshInv, AgeInv', NEW w \in Writers, SetsGen(w) \/ WriterFails(w)
  PROVE  FreshInv'
<1>1. /\ writer[w].at \in {"get", "set"} /\ writer' = [writer EXCEPT ![w] = Idle]
      /\ UNCHANGED <<now, written, entry, reader>>
  BY DEF SetsGen, WriterFails
<1>2. /\ WriterInv /\ CounterInv /\ CountInv /\ acked \in Nat /\ written \in Nat /\ gen.n \in Nat
      /\ now \in Nat /\ Idle.at = "idle"
  BY DEF FreshInv, CounterInv, Idle
<1>3. /\ writer[w].write \in Nat /\ writer[w].write <= written
      /\ acked' \in {acked, writer[w].write} /\ acked <= acked' /\ acked' \in Nat
      /\ acked' <= written
  BY <1>1, <1>2 DEF WriterInv, CounterInv, SetsGen, WriterFails, Acknowledged
<1>4. WriterInv'
  BY <1>1, <1>2, <1>3, WriterMoves
<1>5. Pending' = Pending \ {writer[w].write} /\ writer[w].write \in Pending
  BY <1>1, <1>2, PendingDrops DEF Pending
<1>6. \A v \in Writers : writer'[v].at = "set" => writer[v].at = "set" /\ writer'[v] = writer[v]
  BY <1>1, <1>2 DEF WriterInv
<1> DEFINE c == Cardinality(Pending)
           d == Cardinality(Pending')
<1>7. IsFiniteSet(Pending') /\ d = c - 1 /\ c \in Nat /\ d \in Nat
  <2>1. IsFiniteSet(Pending)
    BY <1>2 DEF CountInv
  <2>2. IsFiniteSet(Pending') /\ d = c - 1
    BY <1>5, <2>1, FS_RemoveElement
  <2> QED
    BY <2>1, <2>2, FS_CardinalityType
<1>8. \/ gen'.n = gen.n /\ gen' = gen
      \/ writer[w].at = "set" /\ gen'.n = writer[w].n + 1 /\ gen'.until \in Nat
  BY <1>2, Constants DEF SetsGen, WriterFails, Bump
<1>9. CountInv'
  <2>1. gen.n + c <= written
        /\ \A v \in Writers : writer[v].at = "set" => writer[v].n \in Nat /\ writer[v].n + c <= written
    BY <1>2 DEF CountInv
  <2> HIDE DEF c, d
  <2>2. gen'.n + d <= written
    BY <1>2, <1>7, <1>8, <2>1
  <2>3. \A v \in Writers : writer'[v].at = "set" =>
          writer'[v].n \in Nat /\ writer'[v].n + d <= written
    BY <1>2, <1>6, <1>7, <2>1
  <2> QED
    BY <1>1, <1>7, <2>2, <2>3 DEF CountInv, d
<1>10. gen'.n \in Nat /\ gen'.until \in Nat
  BY <1>2, <1>8 DEF CountInv, CounterInv
<1>11. lapse' = {now} \/ (lapse' = lapse /\ SetsGen(w) /\ gen.n <= gen'.n)
  <2>1. CASE WriterFails(w)
    BY <2>1 DEF WriterFails
  <2>2. CASE SetsGen(w)
    <3>1. gen'.n = Bump(writer[w].n) /\ lapse' = IF Bump(writer[w].n) < gen.n THEN {now} ELSE lapse
      BY <2>2 DEF SetsGen, Gen
    <3> QED
      BY <1>2, <1>10, <2>2, <3>1
  <2> QED
    BY <2>1, <2>2
<1>12. CounterInv'
  <2>1. lapse \subseteq 0 .. now /\ now \in 0 .. now
    BY <1>2 DEF CounterInv
  <2>2. lapse' \subseteq 0 .. now
    BY <1>11, <2>1
  <2> QED
    BY <1>1, <1>2, <1>3, <1>10, <2>2 DEF CounterInv
<1>13. CASE lapse' = {now}
  BY <1>1, <1>2, <1>3, <1>4, <1>9, <1>12, <1>13, LapseForgives
<1>14. CASE lapse' = lapse /\ SetsGen(w) /\ gen.n <= gen'.n
  <2>1. writer[w].at = "set" /\ writer[w].n \in Nat /\ gen'.n = writer[w].n + 1
    BY <1>2, <1>14 DEF SetsGen, Bump, CountInv
  <2>2. ASSUME NEW f \in Nat, NEW g \in Nat, f <= written, g <= gen.n, Reflects(f, g)
        PROVE  Reflects(f, g)'
    <3>1. ASSUME g = gen'.n, NEW k \in f + 1 .. written PROVE k \in Pending'
      <4>1. g = gen.n /\ writer[w].n < g
        BY <1>2, <1>14, <2>1, <2>2, <3>1
      <4>2. k \in Pending /\ writer[w].write <= f
        BY <2>1, <2>2, <3>1, <4>1 DEF Reflects
      <4>3. k # writer[w].write
        BY <1>2, <1>3, <4>2
      <4> QED
        BY <1>5, <4>2, <4>3
    <3>2. \A v \in Writers : writer'[v].at = "set" /\ writer'[v].n < g => writer'[v].write <= f
      BY <1>6, <2>2 DEF Reflects
    <3> QED
      BY <1>1, <3>1, <3>2 DEF Reflects
  <2> QED
    BY <1>1, <1>2, <1>3, <1>4, <1>9, <1>12, <1>14, <2>2, NoLapseKeeps
<1> QED
  BY <1>11, <1>13, <1>14

\* Time passes: the keys whose time has come are dropped, the counter among them.
LEMMA FreshTick ==
  ASSUME FreshInv, AgeInv', Ticks
  PROVE  FreshInv'
<1>1. /\ now' = now + 1 /\ now < Horizon
      /\ UNCHANGED <<written, writer, reader, acked>>
      /\ entry' = [q \in Queries |-> [g \in Generations |->
           IF entry[q][g].until <= now + 1 THEN NoEntry ELSE entry[q][g]]]
      /\ \/ gen' = NoGen /\ lapse' = {now + 1}
         \/ gen' = gen /\ lapse' = lapse
  BY DEF Ticks
<1>2. /\ WriterInv /\ CounterInv /\ CountInv /\ written \in Nat /\ acked \in Nat /\ gen.n \in Nat
      /\ now \in Nat /\ acked <= written
  BY DEF FreshInv, CounterInv
<1>3. WriterInv'
  BY <1>1, <1>2 DEF WriterInv
<1>4. CounterInv'
  <2>1. lapse' \subseteq 0 .. now + 1
    <3>1. lapse \subseteq 0 .. now /\ now + 1 \in 0 .. now + 1 /\ 0 .. now \subseteq 0 .. now + 1
      BY <1>2 DEF CounterInv
    <3> QED
      BY <1>1, <3>1
  <2>2. gen'.n \in Nat /\ gen'.until \in Nat
    BY <1>1, <1>2 DEF CounterInv, NoGen
  <2>3. now + 1 \in 0 .. Horizon
    BY <1>1, <1>2, Constants DEF CounterInv
  <2> QED
    BY <1>1, <1>2, <2>1, <2>2, <2>3 DEF CounterInv
<1>5. Pending' = Pending /\ Cardinality(Pending) \in Nat
  BY <1>1, <1>2, FS_CardinalityType DEF Pending, CountInv
<1>6. gen'.n \in Nat /\ gen'.n <= gen.n
  BY <1>1, <1>2 DEF NoGen
<1>7. CountInv'
  <2>1. gen'.n + Cardinality(Pending) <= written
    BY <1>2, <1>5, <1>6 DEF CountInv
  <2> QED
    BY <1>1, <1>2, <1>5, <2>1 DEF CountInv
<1>8. \A q \in Queries, g \in Generations :
        entry'[q][g] = entry[q][g] \/ entry'[q][g] = NoEntry
  BY <1>1
<1>9. CASE lapse' = {now + 1}
  BY <1>1, <1>2, <1>3, <1>4, <1>7, <1>8, <1>9, LapseForgives
<1>10. CASE gen' = gen /\ lapse' = lapse
  <2>1. EntryInv'
    <3> SUFFICES ASSUME NEW q \in Queries, NEW g \in Generations, Alive(entry'[q][g])
                 PROVE  /\ entry'[q][g].first \in Nat /\ entry'[q][g].last \in Nat
                        /\ entry'[q][g].first <= entry'[q][g].last
                        /\ entry'[q][g].last <= written'
                        /\ AfterAll(entry[q][g])' =>
                             g <= gen'.n /\ Reflects(entry[q][g].first, g)'
      BY DEF EntryInv, Alive
    <3>1. entry'[q][g] = entry[q][g] /\ Alive(entry[q][g])
      BY <1>8 DEF Alive, NoEntry
    <3> QED
      BY <1>1, <1>5, <1>10, <3>1 DEF FreshInv, EntryInv, AfterAll, Reflects
  <2>2. ReaderInv'
    BY <1>1, <1>5, <1>10 DEF FreshInv, ReaderInv, After, Reflects
  <2>3. FloorInv'
    <3> SUFFICES ASSUME NEW r \in Readers,
                        reader[r].at \in {"look", "first", "last", "store"},
                        ~ InDoubt(reader[r].since)'
                 PROVE  /\ \A q \in Queries : Alive(entry'[q][reader[r].n]) =>
                             reader[r].floor <= entry'[q][reader[r].n].first
                        /\ \A s \in Readers :
                             reader[s].at \in {"last", "store"} /\ reader[s].n = reader[r].n =>
                               reader[r].floor <= reader[s].first
      BY <1>1 DEF FloorInv, Alive
    <3>1. ~ InDoubt(reader[r].since)
      BY <1>1, <1>10 DEF InDoubt
    <3>2. reader[r].n \in Generations
      BY DEF FreshInv, ReaderInv
    <3>3. \A q \in Queries : Alive(entry'[q][reader[r].n]) =>
            entry'[q][reader[r].n] = entry[q][reader[r].n] /\ Alive(entry[q][reader[r].n])
      BY <1>8, <3>2 DEF Alive, NoEntry
    <3> QED
      BY <3>1, <3>3 DEF FreshInv, FloorInv
  <2> QED
    BY <1>3, <1>4, <1>7, <2>1, <2>2, <2>3 DEF FreshInv
<1> QED
  BY <1>1, <1>9, <1>10

\* A request or a summary made after a lapse was begun after it; a value read under
\* the counter's number reflects every acknowledged write.
LEMMA ReadersAreAfter ==
  ASSUME FreshInv, NEW r \in Readers, reader[r].at # "idle", ~ InDoubt(reader[r].since)
  PROVE  After(reader[r].since)
<1>1. reader[r].since \in Nat
  BY DEF FreshInv, AgeInv, RequestsAreYoung, Idle
<1>2. PICK life \in Lives : life \in Nat
  BY Constants
<1>3. ASSUME NEW l \in lapse PROVE l < reader[r].since
  <2>1. l \in Nat /\ ~ (reader[r].since <= l + life + 2 * Patience)
    BY <1>2, <1>3 DEF InDoubt, FreshInv, CounterInv
  <2> QED
    BY <1>1, <1>2, <2>1, Constants
<1> QED
  BY <1>3 DEF After

LEMMA ReflectsAcked ==
  ASSUME FreshInv, NEW f \in Nat, f <= written, Reflects(f, gen.n)
  PROVE  acked <= f
<1>1. acked \in Nat /\ written \in Nat /\ acked <= written
  BY DEF FreshInv, CounterInv
<1>2. acked \notin Pending
  BY DEF FreshInv, WriterInv, Pending
<1>3. ASSUME f < acked PROVE FALSE
  <2>1. acked \in f + 1 .. written
    BY <1>1, <1>3
  <2> QED
    BY <1>2, <2>1 DEF Reflects
<1> QED
  BY <1>1, <1>3

\* What a request that no lapse left in doubt finds under the counter's value.
LEMMA FindsAcked ==
  ASSUME FreshInv, NEW r \in Readers, reader[r].at # "idle", ~ InDoubt(reader[r].since)
  PROVE  /\ \A q \in Queries : Alive(entry[q][gen.n]) => acked <= entry[q][gen.n].first
         /\ \A s \in Readers : reader[s].at \in {"last", "store"} /\ reader[s].n = gen.n =>
              acked <= reader[s].first
<1>1. /\ reader[r].since \in Nat /\ reader[r].since <= now /\ now \in Nat /\ Patience \in Nat
      /\ lapse \subseteq Nat /\ gen.n \in Generations
  BY CounterIsGeneration, Constants DEF FreshInv, AgeInv, RequestsAreYoung, CounterInv, Idle
<1>2. ASSUME NEW q \in Queries, Alive(entry[q][gen.n])
      PROVE  acked <= entry[q][gen.n].first
  <2>1. PICK life \in Lives : entry[q][gen.n].until <= entry[q][gen.n].time + life + Patience
    BY <1>1, <1>2 DEF FreshInv, AgeInv, EntriesExpire
  <2>2. /\ entry[q][gen.n].until \in Nat /\ entry[q][gen.n].time \in Nat
        /\ now < entry[q][gen.n].until /\ life \in Nat
    BY <1>1, <1>2, Constants DEF FreshInv, AgeInv, EntriesExpire
  <2>3. ASSUME NEW l \in lapse PROVE l + Patience < entry[q][gen.n].time
    <3>1. l \in Nat /\ ~ (reader[r].since <= l + life + 2 * Patience)
      BY <1>1 DEF InDoubt
    <3> QED
      BY <1>1, <2>1, <2>2, <3>1
  <2>4. AfterAll(entry[q][gen.n])
    BY <2>3 DEF AfterAll
  <2>5. /\ entry[q][gen.n].first \in Nat /\ entry[q][gen.n].first <= written
        /\ Reflects(entry[q][gen.n].first, gen.n)
    <3>1. /\ entry[q][gen.n].first \in Nat /\ entry[q][gen.n].last \in Nat
          /\ entry[q][gen.n].first <= entry[q][gen.n].last /\ entry[q][gen.n].last <= written
          /\ Reflects(entry[q][gen.n].first, gen.n) /\ written \in Nat
      BY <1>1, <1>2, <2>4 DEF FreshInv, EntryInv, CounterInv
    <3> QED
      BY <3>1
  <2> QED
    BY <2>5, ReflectsAcked
<1>3. ASSUME NEW s \in Readers, reader[s].at \in {"last", "store"}, reader[s].n = gen.n
      PROVE  acked <= reader[s].first
  <2>1. reader[s].since \in Nat /\ now <= reader[s].since + Patience
    BY <1>3 DEF FreshInv, AgeInv, RequestsAreYoung, Idle
  <2>2. PICK life \in Lives : life \in Nat
    BY Constants
  <2>3. ASSUME NEW l \in lapse PROVE l < reader[s].since
    <3>1. l \in Nat /\ ~ (reader[r].since <= l + life + 2 * Patience)
      BY <1>1, <2>2 DEF InDoubt
    <3> QED
      BY <1>1, <2>1, <2>2, <3>1
  <2>4. After(reader[s].since)
    BY <2>3 DEF After
  <2>5. reader[s].first \in Nat /\ reader[s].first <= written /\ Reflects(reader[s].first, gen.n)
    BY <1>3, <2>4 DEF FreshInv, ReaderInv
  <2> QED
    BY <2>5, ReflectsAcked
<1> QED
  BY <1>2, <1>3

\* One step of a request that keeps no summary.
LEMMA FreshMove ==
  ASSUME FreshInv, AgeInv', UNCHANGED <<now, written, gen, writer, acked, lapse, entry>>,
         NEW r \in Readers, NEW x, reader' = [reader EXCEPT ![r] = x],
         x.at # "idle" =>
           /\ x.at \in {"gen", "look", "first", "last", "store"}
           /\ x.query \in Queries /\ x.floor \in Nat /\ x.floor <= acked
           /\ x.at # "gen" => x.n \in Generations /\ (After(x.since) => x.n <= gen.n)
           /\ x.at \in {"last", "store"} =>
                /\ x.first \in Nat /\ x.first <= written
                /\ After(x.since) => Reflects(x.first, x.n)
           /\ x.at = "store" =>
                x.last \in Nat /\ x.first <= x.last /\ x.last <= written,
         x.at \in {"look", "first", "last", "store"} /\ ~ InDoubt(x.since) =>
           /\ \A q \in Queries : Alive(entry[q][x.n]) => x.floor <= entry[q][x.n].first
           /\ \A s \in Readers \ {r} :
                reader[s].at \in {"last", "store"} /\ reader[s].n = x.n =>
                  x.floor <= reader[s].first,
         x.at \in {"last", "store"} =>
           /\ ~ InDoubt(x.since) => x.floor <= x.first
           /\ \A s \in Readers \ {r} :
                /\ reader[s].at \in {"look", "first", "last", "store"} /\ reader[s].n = x.n
                /\ ~ InDoubt(reader[s].since)
                => reader[s].floor <= x.first
  PROVE  FreshInv'
<1>1. WriterInv' /\ CounterInv' /\ CountInv'
  BY DEF FreshInv, WriterInv, CounterInv, CountInv, Pending
<1>2. /\ \A f, g : Reflects(f, g) => Reflects(f, g)'
      /\ \A t : After(t)' <=> After(t)
      /\ \A t : InDoubt(t)' <=> InDoubt(t)
  BY DEF Reflects, Pending, After, InDoubt
<1>3. EntryInv'
  BY <1>2 DEF FreshInv, EntryInv, AfterAll, Alive
<1>4. reader'[r] = x /\ \A s \in Readers \ {r} : reader'[s] = reader[s]
  BY DEF FreshInv, AgeInv
<1>5. ReaderInv'
  <2>1. ASSUME NEW s \in Readers, s # r
        PROVE  reader'[s] = reader[s]
    BY <1>4, <2>1
  <2> QED
    BY <1>2, <1>4, <2>1 DEF FreshInv, ReaderInv
<1>6. FloorInv'
  BY <1>2, <1>4 DEF FreshInv, FloorInv, Alive
<1> QED
  BY <1>1, <1>3, <1>5, <1>6 DEF FreshInv

\* The steps of a request up to its last select.
LEMMA FreshReader ==
  ASSUME FreshInv, AgeInv', NEW r \in Readers,
         \/ \E q \in Queries : Asks(r, q)
         \/ MakesKey(r) \/ Hits(r) \/ Misses(r) \/ SelectsFirst(r) \/ SelectsLast(r)
         \/ ReaderFails(r)
  PROVE  FreshInv'
<1>1. /\ ReaderInv /\ EntryInv /\ FloorInv /\ acked \in Nat /\ written \in Nat
      /\ acked <= written /\ gen.n \in Nat /\ reader = [s \in Readers |-> reader[s]]
  BY DEF FreshInv, CounterInv, AgeInv
<1>2. ASSUME NEW q \in Queries, Asks(r, q) PROVE FreshInv'
  <2> DEFINE x == [at |-> "gen", query |-> q, since |-> now, floor |-> acked]
  <2>1. /\ reader' = [reader EXCEPT ![r] = x]
        /\ UNCHANGED <<now, written, gen, writer, acked, lapse, entry>>
    BY <1>2 DEF Asks
  <2>2. /\ x.at = "gen" /\ x.at \notin {"look", "first", "last", "store"}
        /\ x.query \in Queries /\ x.floor \in Nat /\ x.floor <= acked
    BY <1>1
  <2> HIDE DEF x
  <2> QED
    BY <1>1, <2>1, <2>2, FreshMove
<1>3. CASE MakesKey(r)
  <2> DEFINE x == reader'[r]
  <2>1. /\ reader' = [reader EXCEPT ![r] = x] /\ reader[r].at = "gen"
        /\ x.at = "look" /\ x.query = reader[r].query /\ x.floor = reader[r].floor
        /\ x.since = reader[r].since /\ x.n = gen.n
        /\ UNCHANGED <<now, written, gen, writer, acked, lapse, entry>>
    BY <1>1, <1>3 DEF MakesKey, Gen
  <2>2. x.query \in Queries /\ x.floor \in Nat /\ x.floor <= acked
    BY <1>1, <2>1 DEF ReaderInv
  <2>3. ~ InDoubt(x.since) =>
          /\ \A q \in Queries : Alive(entry[q][x.n]) => acked <= entry[q][x.n].first
          /\ \A s \in Readers : reader[s].at \in {"last", "store"} /\ reader[s].n = x.n =>
               acked <= reader[s].first
    BY <2>1, FindsAcked
  <2>4. /\ \A q \in Queries : Alive(entry[q][x.n]) => entry[q][x.n].first \in Nat
        /\ \A s \in Readers : reader[s].at \in {"last", "store"} => reader[s].first \in Nat
    BY <1>1, <2>1, CounterIsGeneration DEF EntryInv, ReaderInv
  <2>5. ~ InDoubt(x.since) =>
          /\ \A q \in Queries : Alive(entry[q][x.n]) => x.floor <= entry[q][x.n].first
          /\ \A s \in Readers \ {r} :
               reader[s].at \in {"last", "store"} /\ reader[s].n = x.n =>
                 x.floor <= reader[s].first
    BY <1>1, <2>2, <2>3, <2>4
  <2>6. x.n \in Generations /\ x.n <= gen.n /\ x.at \notin {"idle", "gen", "last", "store"}
    BY <1>1, <2>1, CounterIsGeneration
  <2> HIDE DEF x
  <2> QED
    BY <1>1, <2>1, <2>2, <2>5, <2>6, FreshMove
<1>4. CASE Misses(r)
  <2> DEFINE x == reader'[r]
  <2>1. /\ reader' = [reader EXCEPT ![r] = x] /\ reader[r].at = "look"
        /\ x.at = "first" /\ x.query = reader[r].query /\ x.floor = reader[r].floor
        /\ x.since = reader[r].since /\ x.n = reader[r].n
        /\ UNCHANGED <<now, written, gen, writer, acked, lapse, entry>>
    BY <1>1, <1>4 DEF Misses
  <2>2. /\ x.query \in Queries /\ x.floor \in Nat /\ x.floor <= acked
        /\ x.n \in Generations /\ (After(x.since) => x.n <= gen.n)
    BY <1>1, <2>1 DEF ReaderInv
  <2>3. ~ InDoubt(x.since) =>
          /\ \A q \in Queries : Alive(entry[q][x.n]) => x.floor <= entry[q][x.n].first
          /\ \A s \in Readers \ {r} :
               reader[s].at \in {"last", "store"} /\ reader[s].n = x.n =>
                 x.floor <= reader[s].first
    BY <1>1, <2>1 DEF FloorInv
  <2> HIDE DEF x
  <2> QED
    BY <1>1, <2>1, <2>2, <2>3, FreshMove
<1>5. CASE SelectsFirst(r)
  <2> DEFINE x == reader'[r]
  <2>1. /\ reader' = [reader EXCEPT ![r] = x] /\ reader[r].at = "first"
        /\ x.at = "last" /\ x.query = reader[r].query /\ x.floor = reader[r].floor
        /\ x.since = reader[r].since /\ x.n = reader[r].n /\ x.first = written
        /\ UNCHANGED <<now, written, gen, writer, acked, lapse, entry>>
    BY <1>1, <1>5 DEF SelectsFirst
  <2>2. Reflects(written, x.n)
    BY <1>1 DEF Reflects, FreshInv, WriterInv
  <2>3. /\ x.query \in Queries /\ x.floor \in Nat /\ x.floor <= acked
        /\ x.n \in Generations /\ (After(x.since) => x.n <= gen.n)
    BY <1>1, <2>1 DEF ReaderInv
  <2>4. /\ x.first \in Nat /\ x.first <= written /\ x.floor <= x.first
        /\ Reflects(x.first, x.n)
    BY <1>1, <2>1, <2>2, <2>3
  <2>5. ~ InDoubt(x.since) =>
          /\ \A q \in Queries : Alive(entry[q][x.n]) => x.floor <= entry[q][x.n].first
          /\ \A s \in Readers \ {r} :
               reader[s].at \in {"last", "store"} /\ reader[s].n = x.n =>
                 x.floor <= reader[s].first
    BY <1>1, <2>1 DEF FloorInv
  <2>6. \A s \in Readers \ {r} :
          reader[s].at \in {"look", "first", "last", "store"} => reader[s].floor <= x.first
    BY <1>1, <2>1 DEF ReaderInv
  <2> HIDE DEF x
  <2> QED
    BY <1>1, <2>1, <2>3, <2>4, <2>5, <2>6, FreshMove
<1>6. CASE SelectsLast(r)
  <2> DEFINE x == reader'[r]
  <2>1. /\ reader' = [reader EXCEPT ![r] = x] /\ reader[r].at = "last"
        /\ x.at = "store" /\ x.query = reader[r].query /\ x.floor = reader[r].floor
        /\ x.since = reader[r].since /\ x.n = reader[r].n
        /\ x.first = reader[r].first /\ x.last = written
        /\ UNCHANGED <<now, written, gen, writer, acked, lapse, entry>>
    BY <1>1, <1>6 DEF SelectsLast
  <2>2. /\ x.query \in Queries /\ x.floor \in Nat /\ x.floor <= acked
        /\ x.n \in Generations /\ (After(x.since) => x.n <= gen.n)
        /\ x.first \in Nat /\ x.first <= written
        /\ After(x.since) => Reflects(x.first, x.n)
        /\ x.last \in Nat /\ x.first <= x.last /\ x.last <= written
    BY <1>1, <2>1 DEF ReaderInv
  <2>3. ~ InDoubt(x.since) =>
          /\ \A q \in Queries : Alive(entry[q][x.n]) => x.floor <= entry[q][x.n].first
          /\ \A s \in Readers \ {r} :
               reader[s].at \in {"last", "store"} /\ reader[s].n = x.n =>
                 x.floor <= reader[s].first
    BY <1>1, <2>1 DEF FloorInv
  <2>4. /\ ~ InDoubt(x.since) => x.floor <= x.first
        /\ \A s \in Readers \ {r} :
             /\ reader[s].at \in {"look", "first", "last", "store"} /\ reader[s].n = x.n
             /\ ~ InDoubt(reader[s].since)
             => reader[s].floor <= x.first
    BY <1>1, <2>1 DEF FloorInv
  <2> HIDE DEF x
  <2> QED
    BY <1>1, <2>1, <2>2, <2>3, <2>4, FreshMove
<1>7. CASE Hits(r) \/ ReaderFails(r)
  <2>1. /\ reader' = [reader EXCEPT ![r] = Idle] /\ Idle.at = "idle"
        /\ UNCHANGED <<now, written, gen, writer, acked, lapse, entry>>
    BY <1>7 DEF Hits, ReaderFails, Idle
  <2> HIDE DEF Idle
  <2> QED
    BY <1>1, <2>1, FreshMove
<1> QED
  BY <1>2, <1>3, <1>4, <1>5, <1>6, <1>7

\* A request keeps what it read under the key it looked under.
LEMMA FreshStore ==
  ASSUME FreshInv, AgeInv', NEW r \in Readers, Stores(r)
  PROVE  FreshInv'
<1>1. /\ ReaderInv /\ EntryInv /\ FloorInv /\ reader[r].at = "store"
      /\ reader' = [reader EXCEPT ![r] = Idle]
      /\ UNCHANGED <<now, written, gen, writer, acked, lapse>>
      /\ reader = [s \in Readers |-> reader[s]]
      /\ entry = [q \in Queries |-> [g \in Generations |-> entry[q][g]]]
  BY DEF Stores, FreshInv, AgeInv
<1>2. PICK life \in Lives :
        entry' = [entry EXCEPT ![reader[r].query][reader[r].n] =
          [first |-> reader[r].first, time |-> reader[r].time,
           last |-> reader[r].last, until |-> now + life]]
  BY DEF Stores, KeyOf, KeptUntil
<1> DEFINE e == [first |-> reader[r].first, time |-> reader[r].time,
                 last |-> reader[r].last, until |-> now + life]
<1>3. e.first = reader[r].first /\ e.last = reader[r].last /\ e.time = reader[r].time
  OBVIOUS
<1> HIDE DEF e
<1>4. \A q \in Queries, g \in Generations :
        \/ entry'[q][g] = entry[q][g]
        \/ entry'[q][g] = e /\ g = reader[r].n
  BY <1>1, <1>2 DEF e
<1>5. \A s \in Readers : s # r => reader'[s] = reader[s]
  BY <1>1
<1>6. reader'[r].at = "idle"
  BY <1>1 DEF Idle
<1>7. /\ \A f, g : Reflects(f, g) => Reflects(f, g)'
      /\ \A t : After(t)' <=> After(t)
      /\ \A t : InDoubt(t)' <=> InDoubt(t)
  BY <1>1 DEF Reflects, Pending, After, InDoubt
<1>8. WriterInv' /\ CounterInv' /\ CountInv'
  BY <1>1 DEF FreshInv, WriterInv, CounterInv, CountInv, Pending
<1>9. EntryInv'
  <2>1. /\ reader[r].first \in Nat /\ reader[r].last \in Nat
        /\ reader[r].first <= reader[r].last /\ reader[r].last <= written
        /\ After(reader[r].since) => reader[r].n <= gen.n /\ Reflects(reader[r].first, reader[r].n)
    BY <1>1 DEF ReaderInv
  <2>2. AfterAll(e) => After(reader[r].since)
    <3>1. /\ reader[r].since \in Nat /\ reader[r].time \in Nat /\ reader[r].time <= now
          /\ now <= reader[r].since + Patience /\ now \in Nat /\ Patience \in Nat
          /\ lapse \subseteq Nat
      BY <1>1, Constants DEF FreshInv, AgeInv, RequestsAreYoung, CounterInv, Idle
    <3> SUFFICES ASSUME NEW l \in lapse, l + Patience < reader[r].time
                 PROVE  l < reader[r].since
      BY <1>3 DEF AfterAll, After
    <3> QED
      BY <3>1
  <2> SUFFICES ASSUME NEW q \in Queries, NEW g \in Generations, Alive(entry'[q][g])
               PROVE  /\ entry'[q][g].first \in Nat /\ entry'[q][g].last \in Nat
                      /\ entry'[q][g].first <= entry'[q][g].last
                      /\ entry'[q][g].last <= written'
                      /\ AfterAll(entry[q][g])' =>
                           g <= gen'.n /\ Reflects(entry[q][g].first, g)'
    BY DEF EntryInv, Alive
  <2>3. CASE entry'[q][g] = entry[q][g]
    BY <1>1, <1>7, <2>3 DEF EntryInv, AfterAll, Reflects, Pending, Alive
  <2>4. CASE entry'[q][g] = e /\ g = reader[r].n
    BY <1>1, <1>3, <2>1, <2>2, <2>4 DEF AfterAll, Reflects, Pending
  <2> QED
    BY <1>4, <2>3, <2>4
<1>10. ReaderInv'
  BY <1>1, <1>5, <1>6, <1>7 DEF ReaderInv
<1>11. FloorInv'
  <2> SUFFICES ASSUME NEW s \in Readers, s # r,
                      reader[s].at \in {"look", "first", "last", "store"},
                      ~ InDoubt(reader[s].since)
               PROVE  /\ \A q \in Queries : Alive(entry'[q][reader[s].n]) =>
                           reader[s].floor <= entry'[q][reader[s].n].first
                      /\ \A u \in Readers : reader'[u].at \in {"last", "store"}
                                            /\ reader'[u].n = reader[s].n =>
                           reader[s].floor <= reader'[u].first
    BY <1>5, <1>6, <1>7 DEF FloorInv, Alive
  <2>1. reader[s].n \in Generations
    BY <1>1 DEF ReaderInv
  <2>2. /\ \A q \in Queries : Alive(entry[q][reader[s].n]) =>
             reader[s].floor <= entry[q][reader[s].n].first
        /\ \A u \in Readers : reader[u].at \in {"last", "store"} /\ reader[u].n = reader[s].n =>
             reader[s].floor <= reader[u].first
    BY <1>1 DEF FloorInv
  <2>3. ASSUME NEW q \in Queries, Alive(entry'[q][reader[s].n])
        PROVE  reader[s].floor <= entry'[q][reader[s].n].first
    <3>1. CASE entry'[q][reader[s].n] = entry[q][reader[s].n]
      BY <2>2, <2>3, <3>1
    <3>2. CASE entry'[q][reader[s].n] = e /\ reader[s].n = reader[r].n
      BY <1>1, <1>3, <2>2, <3>2
    <3> QED
      BY <1>4, <2>1, <3>1, <3>2
  <2>4. \A u \in Readers : reader'[u].at \in {"last", "store"} => u # r /\ reader'[u] = reader[u]
    BY <1>5, <1>6
  <2> QED
    BY <2>2, <2>3, <2>4
<1> QED
  BY <1>8, <1>9, <1>10, <1>11 DEF FreshInv

\* Every step of writers, readers and time.
LEMMA FreshStep == FreshInv /\ [Next]_vars => FreshInv'
<1> SUFFICES ASSUME FreshInv, [Next]_vars PROVE FreshInv'
  OBVIOUS
<1>1. AgeInv'
  BY AgeStep DEF FreshInv
<1>2. CASE UNCHANGED vars
  BY <1>1, <1>2 DEF vars, FreshInv, WriterInv, CounterInv, CountInv, Pending, EntryInv, ReaderInv,
                    FloorInv, Reflects, After, AfterAll, InDoubt, Alive
<1>3. CASE Next
  BY <1>1, <1>3, FreshCommit, FreshElsewhere, FreshAnswers, FreshGet, FreshSet, FreshTick,
     FreshReader, FreshStore DEF Next
<1> QED
  BY <1>2, <1>3

\* Once no write is in progress, a kept summary that a request would find is the
\* table as it is, unless the request that filled it was begun before the last lapse:
\* for any number of writers, in any order of their reads and writes of the counter.
THEOREM QuietIsCurrent == Spec => []QuietCacheIsCurrent
<1>1. FreshInv => QuietCacheIsCurrent
  <2> SUFFICES ASSUME FreshInv, \A w \in Writers : writer[w] = Idle,
                      NEW q \in Queries, Alive(entry[q][gen.n]), AfterAll(entry[q][gen.n])
               PROVE  entry[q][gen.n].first = written /\ entry[q][gen.n].last = written
    BY DEF QuietCacheIsCurrent, Gen, AfterAll, FreshInv, CounterInv
  <2>1. Pending = {}
    BY DEF Pending, Idle
  <2>2. gen.n \in Generations /\ written \in Nat
    BY CounterIsGeneration DEF FreshInv, CounterInv
  <2>3. /\ entry[q][gen.n].first \in Nat /\ entry[q][gen.n].last \in Nat
        /\ entry[q][gen.n].first <= entry[q][gen.n].last /\ entry[q][gen.n].last <= written
        /\ Reflects(entry[q][gen.n].first, gen.n)
    BY <2>2 DEF FreshInv, EntryInv
  <2>4. ~ (written \in entry[q][gen.n].first + 1 .. written)
    BY <2>1, <2>3 DEF Reflects
  <2> QED
    BY <2>2, <2>3, <2>4
<1> QED
  BY <1>1, FreshInit, FreshStep, PTL DEF Spec

-----------------------------------------------------------------------------
(* The refinement.                                                         *)

\* The abstract floor and steadiness, and what a step of a request does to them.
Floor == [r \in Readers |->
  IF reader[r] = Idle THEN -1
  ELSE IF InDoubt(reader[r].since) THEN 0 ELSE reader[r].floor]

Steady == ~ InDoubt(now)

LEMMA FloorMoves ==
  ASSUME AgeInv, UNCHANGED lapse, NEW r \in Readers, NEW x, reader' = [reader EXCEPT ![r] = x]
  PROVE  Floor' = [Floor EXCEPT ![r] =
           IF x = Idle THEN -1 ELSE IF InDoubt(x.since) THEN 0 ELSE x.floor]
BY DEF AgeInv, Floor, InDoubt

LEMMA StaysAsSteady ==
  ASSUME UNCHANGED <<lapse, now>> PROVE UNCHANGED Steady
BY DEF Steady, InDoubt

LEMMA Beyond ==
  ASSUME NEW t \in Nat, NEW m \in Nat, NEW l \in Nat, NEW p \in Nat, t <= m
  PROVE  t <= m + l + 2 * p
OBVIOUS

\* A lapse releases every question that waits.
LEMMA Releases ==
  ASSUME FreshInv, reader' = reader, lapse' = {now'}, now' \in {now, now + 1}
  PROVE  /\ Steady' = FALSE
         /\ Floor' = [r \in Readers |-> IF Floor[r] = -1 THEN -1 ELSE 0]
<1>1. PICK life \in Lives : life \in Nat
  BY Constants
<1>2. now' \in Nat /\ Patience \in Nat /\ now \in Nat
  BY Constants DEF FreshInv, CounterInv
<1>3. ASSUME NEW t \in Nat, t <= now' PROVE InDoubt(t)'
  <2>1. t <= now' + life + 2 * Patience
    BY <1>1, <1>2, <1>3, Beyond
  <2> QED
    BY <2>1 DEF InDoubt
<1>4. Steady' = FALSE
  BY <1>2, <1>3 DEF Steady, InDoubt
<1>5. ASSUME NEW r \in Readers, reader[r] # Idle
      PROVE  InDoubt(reader[r].since)' /\ Floor[r] # -1
  <2>1. reader[r].at # "idle"
    BY <1>5 DEF FreshInv, AgeInv, RequestsAreYoung
  <2>2. reader[r].since \in Nat /\ reader[r].since <= now' /\ reader[r].floor \in Nat
    <3>1. /\ reader[r].since \in Nat /\ reader[r].since <= now
          /\ reader[r].floor \in Nat /\ now \in Nat
      BY <1>2, <1>5, <2>1 DEF FreshInv, AgeInv, RequestsAreYoung, ReaderInv
    <3>2. now <= now'
      BY <1>2
    <3> QED
      BY <1>2, <3>1, <3>2
  <2> QED
    BY <1>3, <1>5, <2>2 DEF Floor
<1>6. \A r \in Readers : Floor'[r] = IF Floor[r] = -1 THEN -1 ELSE 0
  BY <1>5 DEF Floor
<1> QED
  BY <1>4, <1>6 DEF Floor

\* The abstract state is that of FreshReads.
LEMMA Mapped ==
  /\ Reads!Next <=>
       \/ written' = written + 1 /\ UNCHANGED <<acked, Steady, Floor, answer>>
       \/ acked' \in acked + 1 .. written /\ UNCHANGED <<written, Steady, Floor, answer>>
       \/ /\ written' \in written .. written + 1 /\ acked' \in acked .. written
          /\ Steady' = FALSE
          /\ Floor' = [r \in Readers |-> IF Floor[r] = -1 THEN -1 ELSE 0]
          /\ UNCHANGED answer
       \/ ~ Steady /\ Steady' = TRUE /\ UNCHANGED <<written, acked, Floor, answer>>
       \/ \E r \in Readers :
            \/ /\ Floor[r] = -1 /\ Floor' = [Floor EXCEPT ![r] = IF Steady THEN acked ELSE 0]
               /\ answer' = -1 /\ UNCHANGED <<written, acked, Steady>>
            \/ /\ Floor[r] # -1 /\ answer' \in Floor[r] .. written
               /\ Floor' = [Floor EXCEPT ![r] = -1] /\ UNCHANGED <<written, acked, Steady>>
            \/ /\ Floor[r] # -1 /\ Floor' = [Floor EXCEPT ![r] = -1]
               /\ answer' = -1 /\ UNCHANGED <<written, acked, Steady>>
  /\ UNCHANGED (Reads!vars) <=> UNCHANGED <<written, acked, Steady, Floor, answer>>
BY DEF Reads!Next, Reads!Write, Reads!Acknowledge, Reads!Lapse, Reads!Settle, Reads!Ask,
       Reads!Answer, Reads!GiveUp, Reads!vars, Reads!Idle, Floor, Steady

\* Steps that touch neither the requests nor the times show in the writes alone.
LEMMA FloorStays ==
  ASSUME UNCHANGED <<now, lapse, reader>> PROVE UNCHANGED <<Steady, Floor>>
BY DEF Steady, Floor, InDoubt

\* What a writer does to the register.
LEMMA ImplementsWriter ==
  ASSUME FreshInv, NEW w \in Writers,
         \/ Commit(w) \/ CommitsElsewhere(w) \/ Answers(w) \/ ReadsGen(w) \/ SetsGen(w)
         \/ WriterFails(w)
  PROVE  [Reads!Next]_(Reads!vars)
<1>1. /\ acked \in Nat /\ written \in Nat /\ acked <= written /\ WriterInv
      /\ reader' = reader /\ now' = now
  BY WriterLeaves DEF FreshInv, CounterInv
<1>2. CASE Commit(w)
  BY <1>1, <1>2, FloorStays, Mapped DEF Commit
<1>3. CASE ReadsGen(w)
  BY <1>1, <1>3, FloorStays, Mapped DEF ReadsGen
<1>4. CASE CommitsElsewhere(w) \/ WriterFails(w)
  <2>1. /\ lapse' = {now'} /\ written' \in {written, written + 1} /\ acked' = acked
        /\ UNCHANGED answer
    BY <1>1, <1>4 DEF CommitsElsewhere, WriterFails
  <2>2. written' \in written .. written + 1 /\ acked' \in acked .. written
    BY <1>1, <2>1
  <2> QED
    BY <1>1, <2>1, <2>2, Releases, Mapped
<1>5. CASE Answers(w) \/ SetsGen(w)
  <2>1. /\ writer[w].at # "idle" /\ UNCHANGED <<written, answer>>
        /\ acked' = IF writer[w].write > acked THEN writer[w].write ELSE acked
        /\ lapse' = lapse \/ lapse' = {now'}
    BY <1>1, <1>5 DEF Answers, SetsGen, Acknowledged
  <2>2. writer[w].write \in Nat /\ writer[w].write <= written
    BY <1>1, <2>1 DEF WriterInv
  <2>3. acked' = acked \/ acked' \in acked + 1 .. written
    BY <1>1, <2>1, <2>2
  <2>4. acked' \in acked .. written /\ written' \in written .. written + 1
    BY <1>1, <2>1, <2>2
  <2>5. CASE lapse' = lapse
    <3>1. UNCHANGED <<Steady, Floor>>
      BY <1>1, <2>5, FloorStays
    <3> QED
      BY <2>1, <2>3, <3>1, Mapped
  <2>6. CASE lapse' = {now'}
    BY <1>1, <2>1, <2>4, <2>6, Releases, Mapped
  <2> QED
    BY <2>1, <2>5, <2>6
<1> QED
  BY <1>2, <1>3, <1>4, <1>5

\* Time, in which the counter may run out and a doubt may end.
LEMMA ImplementsTick ==
  ASSUME FreshInv, Ticks
  PROVE  [Reads!Next]_(Reads!vars)
<1>1. /\ now' = now + 1 /\ UNCHANGED <<written, reader, acked, answer>>
      /\ lapse' = lapse \/ lapse' = {now'}
      /\ acked \in Nat /\ written \in Nat /\ acked <= written /\ now \in Nat
  BY DEF Ticks, FreshInv, CounterInv
<1>2. CASE lapse' = {now'}
  <2>1. written' \in written .. written + 1 /\ acked' \in acked .. written
    BY <1>1
  <2> QED
    BY <1>1, <1>2, <2>1, Releases, Mapped
<1>3. CASE lapse' = lapse
  <2>1. UNCHANGED Floor
    BY <1>1, <1>3 DEF Floor, InDoubt
  <2>2. Steady => Steady'
    <3> SUFFICES ASSUME NEW l \in lapse, NEW life \in Lives, now' <= l + life + 2 * Patience
                 PROVE  now <= l + life + 2 * Patience
      BY <1>3 DEF Steady, InDoubt
    <3>1. l \in Nat /\ life \in Nat /\ Patience \in Nat
      BY Constants DEF FreshInv, CounterInv
    <3> QED
      BY <1>1, <3>1
  <2>3. Steady \in BOOLEAN /\ Steady' \in BOOLEAN
    BY DEF Steady, InDoubt
  <2> QED
    BY <1>1, <2>1, <2>2, <2>3, Mapped
<1> QED
  BY <1>1, <1>2, <1>3

\* The steps of a request.
LEMMA ImplementsReader ==
  ASSUME FreshInv, NEW r \in Readers,
         \/ \E q \in Queries : Asks(r, q)
         \/ MakesKey(r) \/ Hits(r) \/ Misses(r) \/ SelectsFirst(r) \/ SelectsLast(r)
         \/ Stores(r) \/ ReaderFails(r)
  PROVE  [Reads!Next]_(Reads!vars)
<1>1. /\ ReaderInv /\ EntryInv /\ FloorInv /\ AgeInv /\ acked \in Nat /\ written \in Nat
      /\ acked <= written /\ reader = [s \in Readers |-> reader[s]]
  BY DEF FreshInv, CounterInv, AgeInv
<1>2. UNCHANGED <<now, lapse, written, acked>> /\ UNCHANGED Steady
  BY StaysAsSteady DEF Asks, MakesKey, Hits, Misses, SelectsFirst, SelectsLast, Stores, ReaderFails
<1>3. ASSUME reader[r] # Idle
      PROVE  /\ Floor[r] = IF InDoubt(reader[r].since) THEN 0 ELSE reader[r].floor
             /\ Floor[r] \in Nat /\ Floor[r] # -1
  <2>1. Floor[r] = IF InDoubt(reader[r].since) THEN 0 ELSE reader[r].floor
    BY <1>3 DEF Floor
  <2>2. reader[r].floor \in Nat
    BY <1>1, <1>3 DEF ReaderInv, AgeInv, RequestsAreYoung
  <2> QED
    BY <2>1, <2>2
<1>4. ASSUME NEW q \in Queries, Asks(r, q) PROVE Reads!Next
  <2> DEFINE x == [at |-> "gen", query |-> q, since |-> now, floor |-> acked]
  <2>1. reader[r] = Idle /\ reader' = [reader EXCEPT ![r] = x] /\ answer' = -1
    BY <1>4 DEF Asks, NoAnswer
  <2>2. x # Idle /\ x.floor = acked /\ x.since = now
    BY DEF Idle
  <2> HIDE DEF x
  <2>3. Floor' = [Floor EXCEPT ![r] = IF InDoubt(now) THEN 0 ELSE acked]
    BY <1>1, <1>2, <2>1, <2>2, FloorMoves
  <2>4. Floor[r] = -1 /\ (IF InDoubt(now) THEN 0 ELSE acked) = (IF Steady THEN acked ELSE 0)
    BY <2>1 DEF Floor, Steady
  <2> QED
    BY <1>2, <2>1, <2>3, <2>4, Mapped
<1>5. ASSUME MakesKey(r) \/ Misses(r) \/ SelectsFirst(r) \/ SelectsLast(r)
      PROVE  UNCHANGED (Reads!vars)
  <2>1. /\ reader' = [reader EXCEPT ![r] = reader'[r]] /\ reader[r] # Idle
        /\ reader'[r] # Idle /\ reader'[r].floor = reader[r].floor
        /\ reader'[r].since = reader[r].since /\ UNCHANGED answer
    BY <1>1, <1>5 DEF MakesKey, Misses, SelectsFirst, SelectsLast, Idle
  <2>2. Floor' = [Floor EXCEPT ![r] = Floor[r]]
    BY <1>1, <1>2, <1>3, <2>1, FloorMoves
  <2>3. Floor' = Floor
    BY <2>2 DEF Floor
  <2> QED
    BY <1>2, <2>1, <2>3, Mapped
<1>6. ASSUME Hits(r) \/ Stores(r) PROVE Reads!Next
  <2>1. /\ reader' = [reader EXCEPT ![r] = Idle] /\ reader[r].at \in {"look", "store"}
        /\ reader[r] # Idle /\ reader[r].at # "idle"
    BY <1>6 DEF Hits, Stores, Idle
  <2>2. /\ answer' \in Nat /\ answer' <= written
        /\ ~ InDoubt(reader[r].since) => reader[r].floor <= answer'
    <3>1. CASE Hits(r)
      <4>1. reader[r].query \in Queries /\ reader[r].n \in Generations /\ reader[r].at = "look"
        BY <1>1, <2>1, <3>1 DEF Hits, ReaderInv
      <4>2. /\ Alive(entry[reader[r].query][reader[r].n])
            /\ answer' = entry[reader[r].query][reader[r].n].first
        BY <3>1 DEF Hits
      <4>3. /\ answer' \in Nat /\ entry[reader[r].query][reader[r].n].last \in Nat
            /\ answer' <= entry[reader[r].query][reader[r].n].last
            /\ entry[reader[r].query][reader[r].n].last <= written
        BY <1>1, <4>1, <4>2 DEF EntryInv
      <4>4. ~ InDoubt(reader[r].since) => reader[r].floor <= answer'
        BY <1>1, <4>1, <4>2 DEF FloorInv
      <4> QED
        BY <1>1, <4>3, <4>4
    <3>2. CASE Stores(r)
      <4>1. answer' = reader[r].first /\ reader[r].at = "store"
        BY <3>2 DEF Stores
      <4> QED
        BY <1>1, <4>1 DEF FloorInv, ReaderInv
    <3> QED
      BY <1>6, <3>1, <3>2
  <2>3. Floor' = [Floor EXCEPT ![r] = -1]
    BY <1>1, <1>2, <2>1, FloorMoves
  <2>4. Floor[r] \in Nat /\ Floor[r] # -1 /\ Floor[r] <= answer'
    BY <1>3, <2>1, <2>2
  <2>5. answer' \in Floor[r] .. written
    BY <1>1, <2>2, <2>4
  <2> QED
    BY <1>2, <2>3, <2>4, <2>5, Mapped
<1>7. ASSUME ReaderFails(r) PROVE Reads!Next
  <2>1. reader[r] # Idle /\ reader' = [reader EXCEPT ![r] = Idle] /\ answer' = -1
    BY <1>7 DEF ReaderFails, NoAnswer
  <2>2. Floor' = [Floor EXCEPT ![r] = -1]
    BY <1>1, <1>2, <2>1, FloorMoves
  <2> QED
    BY <1>2, <1>3, <2>1, <2>2, Mapped
<1> QED
  BY <1>4, <1>5, <1>6, <1>7

\* Every step of the cache is one of the register, or none.
LEMMA Implements == FreshInv /\ [Next]_vars => [Reads!Next]_(Reads!vars)
<1> SUFFICES ASSUME FreshInv, [Next]_vars PROVE [Reads!Next]_(Reads!vars)
  OBVIOUS
<1>1. CASE UNCHANGED vars
  BY <1>1, FloorStays, Mapped DEF vars
<1>2. CASE Next
  BY <1>2, ImplementsWriter, ImplementsTick, ImplementsReader DEF Next
<1> QED
  BY <1>1, <1>2

\* The cache is the register it stands in front of: for any number of writers, whose
\* invalidations may overlap, and a counter that may run out, no answer misses a write
\* that was acknowledged before the question, unless a lapse met the question or came
\* no more than the longest life of a key and the patience of two requests before it.
THEOREM CacheIsFresh == Spec => SummariesAreFresh
<1>1. Init => Reads!Init
  <2> SUFFICES ASSUME Init PROVE Reads!Init
    OBVIOUS
  <2>1. lapse = {} /\ \A r \in Readers : reader[r] = Idle
    BY DEF Init, NoLapse
  <2>2. Steady = TRUE
    BY <2>1 DEF Steady, InDoubt
  <2>3. Floor = [r \in Readers |-> -1]
    BY <2>1 DEF Floor
  <2> QED
    BY <2>2, <2>3 DEF Init, NoAnswer, Reads!Init, Reads!Idle, Floor, Steady
<1>2. FreshInv /\ [Next]_vars => [Reads!Next]_(Reads!vars)
  BY Implements
<1> QED
  BY <1>1, <1>2, FreshInit, FreshStep, PTL DEF Spec, SummariesAreFresh, Reads!Spec
=============================================================================
