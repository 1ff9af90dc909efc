--------------------------- MODULE ServicesProofs ---------------------------
(***************************************************************************)
(* What the services around the ledger promise, for every number of        *)
(* requests in progress, of rows and of calls that fail.  They share no    *)
(* state, so each has an invariant of its own.                             *)
(***************************************************************************)
EXTENDS Accounts, ResetCodes, RateLimits, Inbox, Registries,
        TotalsTheorems, FiniteSetTheorems, TLAPS

-----------------------------------------------------------------------------
(***************************************************************************)
(* Rate limits                                                             *)
(***************************************************************************)

\* What the proofs use of the assumption on the constants.
LEMMA LimitsAreNumbers ==
  /\ limit \in Nat /\ ttl \in Nat /\ blockDuration \in Nat /\ maxAttempts \in Nat \ {0}
  /\ windowMs \in Nat \ {0} /\ blockDurationMs \in Nat /\ blockDurationMs >= windowMs
BY RateLimitsAssumption

-----------------------------------------------------------------------------
(* The throttler: a request is let through by the hit it has counted.      *)

HitsInv ==
  /\ hits.n \in Nat /\ passed \in Nat
  /\ passed <= hits.n /\ passed <= limit

\* Every step of the limiters keeps the throttler's invariant.
LEMMA HitsStep == HitsInv /\ [LimitsNext]_limitsVars => HitsInv'
<1> SUFFICES ASSUME HitsInv, [LimitsNext]_limitsVars PROVE HitsInv'
  OBVIOUS
<1>1. ASSUME UNCHANGED <<hits, passed>> PROVE HitsInv'
  BY <1>1 DEF HitsInv
<1>2. ASSUME NEW v \in Visitors, CountsHit(v) PROVE HitsInv'
  <2>1. /\ hits' = [n |-> hits.n + 1, until |-> tick + ttl]
        /\ passed' = passed \/ (hits.n + 1 <= limit /\ passed' = passed + 1)
    BY <1>2, LimitsAreNumbers DEF CountsHit, OverLimit, HitsInv
  <2> QED
    BY <2>1, LimitsAreNumbers DEF HitsInv
<1>3. ASSUME NEW v \in Visitors,
             \/ Visits(v) \/ Halts(v) \/ Guards(v) \/ Succeeds(v)
             \/ ReadsTries(v) \/ SetsTries(v) \/ Blocks(v) \/ VisitFails(v)
      PROVE  UNCHANGED <<hits, passed>>
  BY <1>3 DEF Visits, Halts, Guards, Succeeds, ReadsTries, SetsTries, Blocks, VisitFails
<1>4. CASE Elapses
  <2>1. \/ hits' = NoCount /\ passed' = 0
        \/ UNCHANGED <<hits, passed>>
    BY <1>4 DEF Elapses
  <2> QED
    BY <1>1, <2>1, LimitsAreNumbers DEF HitsInv, NoCount
<1> QED
  BY <1>1, <1>2, <1>3, <1>4 DEF LimitsNext, limitsVars

\* However many requests overlap, no more than `limit` of them pass the throttler
\* while its counter lives.
THEOREM ThrottlerHolds == LimitsSpec => []NoMoreThanLimit
<1>1. LimitsInit => HitsInv
  BY LimitsAreNumbers DEF LimitsInit, HitsInv, NoCount
<1>2. HitsInv => NoMoreThanLimit
  BY DEF HitsInv, NoMoreThanLimit
<1> QED
  BY <1>1, <1>2, HitsStep, PTL DEF LimitsSpec

-----------------------------------------------------------------------------
(* The blocks on addresses.                                                *)

Blocking == \E v \in Visitors : visit[v].at = "block"

\* A count of failed logins that has reached the maximum is about to be followed by
\* a block, or the block outlives it.
BlockInv ==
  /\ tick \in Nat /\ blocked \in Nat /\ lapsed \in BOOLEAN
  /\ tries.n \in Nat /\ tries.until \in Nat /\ tries.until <= tick + windowMs
  /\ tries # NoCount => tick < tries.until
  /\ visit = [v \in Visitors |-> visit[v]]
  /\ \A v \in Visitors : visit[v].at = "try" => visit[v].n \in Nat
  /\ tries.n >= maxAttempts /\ ~ lapsed => Blocking \/ tries.until <= blocked

\* A request that leaves the counter, the block and its own duty to block alone.
LEMMA OtherVisit ==
  ASSUME BlockInv, NEW v \in Visitors, NEW x, visit' = [visit EXCEPT ![v] = x],
         visit[v].at # "block", x.at # "try" \/ x.n \in Nat,
         UNCHANGED <<tick, tries, blocked, lapsed>>
  PROVE  BlockInv'
<1>1. Blocking => Blocking'
  BY DEF BlockInv, Blocking
<1> QED
  BY <1>1 DEF BlockInv

\* Every step of the limiters keeps the block at least as long as the count.
LEMMA BlockStep == BlockInv /\ [LimitsNext]_limitsVars => BlockInv'
<1> SUFFICES ASSUME BlockInv, [LimitsNext]_limitsVars PROVE BlockInv'
  OBVIOUS
<1>1. ASSUME NEW v \in Visitors,
             Visits(v) \/ CountsHit(v) \/ Halts(v) \/ Guards(v) \/ ReadsTries(v)
      PROVE  BlockInv'
  <2>1. /\ visit' = [visit EXCEPT ![v] = visit'[v]] /\ visit[v].at # "block"
        /\ visit'[v].at # "try" \/ visit'[v].n \in Nat
        /\ UNCHANGED <<tick, tries, blocked, lapsed>>
    BY <1>1 DEF Visits, CountsHit, Halts, Guards, ReadsTries, Turns, Away, BlockInv
  <2> QED
    BY <2>1, OtherVisit
<1>2. ASSUME NEW v \in Visitors, Succeeds(v) PROVE BlockInv'
  BY <1>2, LimitsAreNumbers DEF Succeeds, Turns, Away, NoCount, BlockInv, Blocking
<1>3. ASSUME NEW v \in Visitors, SetsTries(v) PROVE BlockInv'
  <2>1. /\ visit[v].n \in Nat
        /\ tries'.n = visit[v].n /\ tries'.until = tick + windowMs
        /\ UNCHANGED <<tick, blocked, lapsed>>
    BY <1>3 DEF SetsTries, BlockInv
  <2>2. /\ visit' = [visit EXCEPT ![v] = visit'[v]]
        /\ visit'[v].at = IF visit[v].n >= maxAttempts THEN "block" ELSE "away"
    BY <1>3 DEF SetsTries, Turns, Away, BlockInv
  <2>3. tries'.n >= maxAttempts => Blocking'
    BY <2>1, <2>2 DEF Blocking
  <2> QED
    BY <2>1, <2>2, <2>3, LimitsAreNumbers DEF BlockInv
<1>4. ASSUME NEW v \in Visitors, Blocks(v) PROVE BlockInv'
  <2>1. /\ blocked' = tick + blockDurationMs /\ visit' = [visit EXCEPT ![v] = Away]
        /\ UNCHANGED <<tick, tries, lapsed>>
    BY <1>4 DEF Blocks, BlockUntil, Turns
  <2> QED
    BY <2>1, LimitsAreNumbers DEF BlockInv, Away
<1>5. ASSUME NEW v \in Visitors, VisitFails(v) PROVE BlockInv'
  <2>1. CASE visit[v].at = "block"
    BY <1>5, <2>1 DEF VisitFails, Turns, Away, BlockInv
  <2>2. CASE visit[v].at # "block"
    <3>1. lapsed' = lapsed
      BY <1>5, <2>2 DEF VisitFails, BlockInv
    <3> QED
      BY <1>5, <2>2, <3>1, OtherVisit DEF VisitFails, Turns, Away
  <2> QED
    BY <2>1, <2>2
<1>6. CASE Elapses
  <2>1. /\ tick' = tick + 1 /\ UNCHANGED <<visit, blocked, lapsed>>
        /\ tries' = IF tries.until <= tick + 1 THEN NoCount ELSE tries
    BY <1>6 DEF Elapses
  <2>2. Blocking => Blocking'
    BY <2>1 DEF Blocking
  <2> QED
    BY <2>1, <2>2, LimitsAreNumbers DEF BlockInv, NoCount
<1>7. CASE UNCHANGED limitsVars
  BY <1>7 DEF limitsVars, BlockInv, Blocking
<1> QED
  BY <1>1, <1>2, <1>3, <1>4, <1>5, <1>6, <1>7 DEF LimitsNext

\* Whoever was blocked starts from zero: for every window no longer than the block,
\* a count at its maximum never outlives the block it led to.
THEOREM BlockOutlives == LimitsSpec => []BlockOutlivesCount
<1>1. LimitsInit => BlockInv
  <2> SUFFICES ASSUME LimitsInit PROVE BlockInv
    OBVIOUS
  <2>1. tries = NoCount /\ tries.n = 0 /\ tries.until = 0 /\ tick = 0 /\ blocked = 0 /\ lapsed = FALSE
    BY DEF LimitsInit, NoCount
  <2>2. ~ (tries.n >= maxAttempts)
    BY <2>1, LimitsAreNumbers
  <2>3. visit = [v \in Visitors |-> visit[v]] /\ \A v \in Visitors : visit[v].at = "away"
    BY DEF LimitsInit, Away
  <2>4. lapsed \in BOOLEAN
    BY <2>1
  <2>5. tries.until <= tick + windowMs /\ tick \in Nat /\ blocked \in Nat
        /\ tries.n \in Nat /\ tries.until \in Nat
    BY <2>1, LimitsAreNumbers
  <2>6. \A v \in Visitors : visit[v].at # "try"
    BY <2>3
  <2> QED
    BY <2>1, <2>2, <2>3, <2>4, <2>5, <2>6, Zenon DEF BlockInv
<1>2. BlockInv => BlockOutlivesCount
  <2> SUFFICES ASSUME BlockInv, tries.n >= maxAttempts, ~ lapsed, ~ Blocking
               PROVE  Alive(blocked)
    BY DEF BlockOutlivesCount, Blocking
  <2>1. tries # NoCount
    BY LimitsAreNumbers DEF BlockInv, NoCount
  <2> QED
    BY <2>1 DEF BlockInv, Alive
<1> QED
  BY <1>1, <1>2, BlockStep, PTL DEF LimitsSpec

-----------------------------------------------------------------------------
(***************************************************************************)
(* Notifications                                                           *)
(***************************************************************************)

Ids == 1 .. MaxNotices

Client == [at : {"connected"}, room : BOOLEAN, knows : SUBSET Ids, seen : SUBSET Ids,
           list : {"none", "out", "in", "current"},
           listed : SUBSET Ids, read : SUBSET Ids, late : SUBSET Ids]

Shape ==
  /\ Notices \subseteq Ids
  /\ notice = [n \in Notices |-> notice[n]]
  /\ socket = [s \in Sockets |-> socket[s]]
  /\ \A s \in Sockets : socket[s] # Offline => socket[s] \in Client
  /\ job = [j \in Jobs |-> job[j]]
  /\ \A j \in Jobs : job[j].at = "emit" => job[j].id \in Ids

Announcing(n) == \E j \in Jobs : job[j].at = "emit" /\ job[j].id = n
Confirming(n) == \E j \in Jobs : job[j].at = "confirm" /\ n \in job[j].ids

\* What a client knows of, and what it shows as read or was told of too soon, once
\* the list on its way has come.
Heard(c)  == c.knows \cup c.listed
Marked(c) == ((c.seen \ c.listed) \cup c.read) \cup c.late

\* A client that stayed in the room since its list was read.
Follows(c) == c # Offline /\ c.list \in {"in", "current"}

\* What a client that follows the room is, or is about to be, up to.
UpToDate(s) ==
  Follows(socket[s]) =>
    /\ socket[s].room
    /\ socket[s].list = "current" => socket[s].listed = {} /\ socket[s].read = {}
    /\ \A n \in Notices : n \in Heard(socket[s]) \/ notice[n] = "removed" \/ Announcing(n)
    /\ \A n \in Notices \ crossed :
         notice[n] = "read" => n \in Marked(socket[s]) \/ Confirming(n)

InboxInv == Shape /\ \A s \in Sockets : UpToDate(s)

\* What the proofs use of the assumption on the constants.
LEMMA Bound == MaxNotices \in Nat
BY InboxAssumption

\* A new notification gets an id within the bound.
LEMMA NextId ==
  ASSUME Shape, Cardinality(Notices) < MaxNotices
  PROVE  Cardinality(Notices) + 1 \in Ids
<1>1. IsFiniteSet(Ids)
  BY Bound, FS_Interval DEF Ids
<1>2. IsFiniteSet(Notices)
  BY <1>1, FS_Subset DEF Shape
<1>3. Cardinality(Notices) \in Nat
  BY <1>2, FS_CardinalityType
<1> QED
  BY <1>3, Bound DEF Ids

\* A client knows and shows all that a message tells it.
LEMMA HearingOne ==
  ASSUME NEW c \in Client, NEW new \in SUBSET Ids, NEW read
  PROVE  LET t == Hearing(c, new, read) IN
         /\ t \in Client /\ t # Offline /\ t.room = c.room /\ t.list = c.list
         /\ t.listed = c.listed /\ t.read = c.read
         /\ Heard(c) \cup new \subseteq Heard(t)
         /\ Marked(c) \cup (read \cap Heard(c)) \subseteq Marked(t)
<1> DEFINE t == Hearing(c, new, read)
<1>1. /\ t.at = "connected" /\ t.room = c.room /\ t.list = c.list
      /\ t.listed = c.listed /\ t.read = c.read
      /\ t.knows = c.knows \cup new /\ t.seen = c.seen \cup (read \cap c.knows)
      /\ t.late = c.late \cup (read \cap (c.listed \ c.read))
  BY DEF Client, Hearing
<1>2. t \in Client
  BY DEF Client, Hearing
<1> HIDE DEF t
<1>3. t # Offline
  BY <1>2 DEF Client, Offline
<1>4. Heard(c) \cup new \subseteq Heard(t)
  BY <1>1 DEF Heard
<1>5. Marked(c) \cup (read \cap Heard(c)) \subseteq Marked(t)
  BY <1>1 DEF Marked, Heard
<1> QED
  BY <1>1, <1>2, <1>3, <1>4, <1>5 DEF t

\* What a message to the room does to a socket.
LEMMA ToldEffect ==
  ASSUME Shape, NEW new \in SUBSET Ids, NEW read, NEW s \in Sockets
  PROVE  LET c == socket[s]
             t == Told(new, read)[s] IN
         /\ t = Offline <=> c = Offline
         /\ c # Offline => t \in Client /\ t.room = c.room /\ t.list = c.list
                           /\ t.listed = c.listed /\ t.read = c.read
         /\ c # Offline /\ c.room =>
              /\ Heard(c) \cup new \subseteq Heard(t)
              /\ Marked(c) \cup (read \cap Heard(c)) \subseteq Marked(t)
<1> DEFINE c == socket[s]
           t == Told(new, read)[s]
<1>1. c # Offline => c \in Client
  BY DEF Shape
<1>2. t = IF c # Offline /\ c.room THEN Hearing(c, new, read) ELSE c
  BY DEF Told, Reached
<1> HIDE DEF c, t
<1>3. /\ t = Offline <=> c = Offline
      /\ c # Offline => t \in Client /\ t.room = c.room /\ t.list = c.list
                        /\ t.listed = c.listed /\ t.read = c.read
      /\ c # Offline /\ c.room =>
           /\ Heard(c) \cup new \subseteq Heard(t)
           /\ Marked(c) \cup (read \cap Heard(c)) \subseteq Marked(t)
  <2>1. CASE c # Offline /\ c.room
    BY <1>1, <1>2, <2>1, HearingOne
  <2>2. CASE ~ (c # Offline /\ c.room)
    BY <1>1, <1>2, <2>2
  <2> QED
    BY <2>1, <2>2
<1> QED
  BY <1>3 DEF c, t

\* What its own doings make of a client.
LEMMA Entering ==
  ASSUME NEW c \in Client
  PROVE  Inside(c) \in Client /\ Inside(c).list = c.list
BY DEF Client, Inside

LEMMA Leaving ==
  ASSUME NEW c \in Client
  PROVE  Outside(c) \in Client /\ Outside(c).list \in {"none", "out"}
<1>1. CASE c.list \in {"in", "out"}
  BY <1>1 DEF Client, Outside
<1>2. CASE c.list \notin {"in", "out"}
  BY <1>2 DEF Client, Outside
<1> QED
  BY <1>1, <1>2

LEMMA AskingFor ==
  ASSUME NEW c \in Client, NEW listed \in SUBSET Ids, NEW read \in SUBSET Ids
  PROVE  LET t == Asking(c, listed, read) IN
         /\ t \in Client /\ t.room = c.room /\ t.list = IF c.room THEN "in" ELSE "out"
         /\ t.listed = listed /\ t.read = read
<1>1. CASE c.room
  BY <1>1 DEF Client, Asking
<1>2. CASE ~ c.room
  BY <1>2 DEF Client, Asking
<1> QED
  BY <1>1, <1>2

LEMMA Answering ==
  ASSUME NEW c \in Client
  PROVE  LET t == Answered(c) IN
         /\ t \in Client /\ t.room = c.room /\ t.listed = {} /\ t.read = {}
         /\ t.list = IF c.list = "in" THEN "current" ELSE "none"
         /\ Heard(t) = Heard(c) /\ Marked(t) = Marked(c)
<1> DEFINE t == Answered(c)
<1>1. /\ t.room = c.room /\ t.listed = {} /\ t.read = {} /\ t.late = c.late
      /\ t.knows = c.knows \cup c.listed /\ t.seen = (c.seen \ c.listed) \cup c.read
      /\ t.list = IF c.list = "in" THEN "current" ELSE "none"
  BY DEF Client, Answered
<1>2. t \in Client
  <2>1. CASE c.list = "in"
    BY <2>1 DEF Client, Answered
  <2>2. CASE c.list # "in"
    BY <2>2 DEF Client, Answered
  <2> QED
    BY <2>1, <2>2
<1> HIDE DEF t
<1>3. Heard(t) = Heard(c) /\ Marked(t) = Marked(c)
  BY <1>1 DEF Heard, Marked
<1> QED
  BY <1>1, <1>2, <1>3 DEF t

\* Nobody is connected and nothing is on file.
LEMMA InboxStart == InboxInit => InboxInv
<1> SUFFICES ASSUME InboxInit PROVE InboxInv
  OBVIOUS
<1>1. Notices = {} /\ notice = [n \in Notices |-> notice[n]]
  BY DEF InboxInit, Notices
<1>2. /\ \A s \in Sockets : socket[s] = Offline
      /\ \A j \in Jobs : job[j].at = "over"
  BY DEF InboxInit, Over
<1> QED
  BY <1>1, <1>2 DEF InboxInit, InboxInv, Shape, UpToDate, Follows

-----------------------------------------------------------------------------
(* The steps.                                                              *)

\* A client changes by its own doing.
LEMMA SocketStep ==
  ASSUME InboxInv, NEW s \in Sockets,
         \/ Connects(s) \/ Joins(s) \/ Leaves(s) \/ Disconnects(s)
         \/ FetchesList(s) \/ GetsList(s)
  PROVE  InboxInv'
<1>1. /\ UNCHANGED <<notice, job, crossed>>
      /\ \A r \in Sockets \ {s} : socket'[r] = socket[r]
      /\ socket' = [r \in Sockets |-> socket'[r]]
  BY DEF Connects, Joins, Leaves, FetchesList, GetsList, Disconnects, InboxInv, Shape
<1> DEFINE c == socket[s]
           t == socket'[s]
<1>2. /\ Notices' = Notices /\ Notices \subseteq Ids
      /\ c # Offline => c \in Client
  BY <1>1 DEF InboxInv, Shape, Notices
<1>3. c \in Client => c.room \in BOOLEAN
  BY DEF Client
<1>4. /\ t # Offline => t \in Client
      /\ UpToDate(s)'
  <2>1. CASE Connects(s)
    <3> DEFINE d == [at |-> "connected", room |-> FALSE, knows |-> {}, seen |-> {},
                     list |-> "none", listed |-> {}, read |-> {}, late |-> {}]
    <3>1. t = d
      BY <2>1 DEF Connects, InboxInv, Shape
    <3>2. d \in Client /\ d.list = "none"
      BY DEF Client
    <3> HIDE DEF d
    <3> QED
      BY <3>1, <3>2 DEF UpToDate, Follows
  <2>2. CASE Joins(s)
    <3>1. c # Offline /\ ~ c.room /\ t = Inside(c)
      BY <2>2 DEF Joins, InboxInv, Shape
    <3>2. ~ Follows(c)
      BY <3>1 DEF InboxInv, UpToDate
    <3>3. t \in Client /\ t.list = c.list
      BY <1>2, <3>1, Entering
    <3> QED
      BY <3>1, <3>2, <3>3 DEF UpToDate, Follows
  <2>3. CASE Leaves(s)
    <3>1. c # Offline /\ t = Outside(c)
      BY <2>3 DEF Leaves, InboxInv, Shape
    <3>2. t \in Client /\ t.list \in {"none", "out"}
      BY <1>2, <3>1, Leaving
    <3> QED
      BY <3>2 DEF UpToDate, Follows
  <2>4. CASE FetchesList(s)
    <3> DEFINE listed == {n \in Notices : notice[n] # "removed"}
               read   == {n \in Notices : notice[n] = "read"}
    <3>1. c # Offline /\ t = Asking(c, listed, read)
      BY <2>4 DEF FetchesList, InboxInv, Shape
    <3>2. /\ listed \subseteq Ids /\ read \subseteq Ids
          /\ \A n \in Notices : n \in listed \/ notice[n] = "removed"
          /\ \A n \in Notices : notice[n] = "read" => n \in read
      BY <1>2
    <3> HIDE DEF listed, read
    <3>3. /\ t \in Client /\ t.room = c.room /\ t.list = IF c.room THEN "in" ELSE "out"
          /\ t.listed = listed /\ t.read = read
      BY <1>2, <3>1, <3>2, AskingFor
    <3>4. listed \subseteq Heard(t) /\ read \subseteq Marked(t)
      BY <3>3 DEF Heard, Marked
    <3>5. Follows(t) => t.room /\ t.list = "in"
      BY <1>2, <1>3, <3>1, <3>3 DEF Follows
    <3>6. UpToDate(s)'
      BY <1>1, <1>2, <3>2, <3>4, <3>5 DEF UpToDate
    <3> QED
      BY <3>3, <3>6
  <2>5. CASE GetsList(s)
    <3>1. c # Offline /\ c.list \in {"in", "out"} /\ t = Answered(c)
      BY <2>5 DEF GetsList, InboxInv, Shape
    <3>2. /\ t \in Client /\ t.room = c.room /\ t.listed = {} /\ t.read = {}
          /\ t.list = IF c.list = "in" THEN "current" ELSE "none"
          /\ Heard(t) = Heard(c) /\ Marked(t) = Marked(c)
      BY <1>2, <3>1, Answering
    <3>3. Follows(t) => Follows(c)
      BY <3>1, <3>2 DEF Follows
    <3>4. UpToDate(s)
      BY DEF InboxInv
    <3>5. UpToDate(s)'
      BY <1>1, <1>2, <3>2, <3>3, <3>4 DEF UpToDate, Announcing, Confirming
    <3> QED
      BY <3>2, <3>5
  <2>6. CASE Disconnects(s)
    BY <2>6 DEF Disconnects, InboxInv, Shape, UpToDate, Follows
  <2> QED
    BY <2>1, <2>2, <2>3, <2>4, <2>5, <2>6
<1> HIDE DEF c, t
<1>5. Shape'
  BY <1>1, <1>4 DEF InboxInv, Shape, Notices, t
<1>6. \A r \in Sockets \ {s} : UpToDate(r)'
  BY <1>1 DEF InboxInv, UpToDate, Notices, Announcing, Confirming
<1> QED
  BY <1>4, <1>5, <1>6 DEF InboxInv

\* A request changes the table, while it neither had anything to tell nor is told.
LEMMA TableStep ==
  ASSUME InboxInv, socket' = socket, NEW j \in Jobs, NEW x,
         job' = [job EXCEPT ![j] = x], job[j].at \notin {"emit", "confirm"},
         x.at = "emit" => x.id \in Ids,
         Notices' \subseteq Ids, notice' = [n \in Notices' |-> notice'[n]],
         crossed \subseteq crossed',
         \A n \in Notices' :
           \/ n \in Notices /\ notice'[n] = notice[n]
           \/ n \in Notices /\ notice'[n] = "removed"
           \/ n \in Notices /\ notice[n] # "removed" /\ notice'[n] = "read"
                /\ x.at = "confirm" /\ n \in x.ids
           \/ n \in Notices /\ notice[n] # "removed" /\ n \in crossed'
           \/ notice'[n] = "unread" /\ x.at = "emit" /\ x.id = n
  PROVE  InboxInv'
<1>1. job'[j] = x /\ \A o \in Jobs \ {j} : job'[o] = job[o]
  BY DEF InboxInv, Shape
<1>2. /\ \A n : Announcing(n) => Announcing(n)'
      /\ \A n : Confirming(n) => Confirming(n)'
      /\ \A n : x.at = "emit" /\ x.id = n => Announcing(n)'
      /\ \A n : x.at = "confirm" /\ n \in x.ids => Confirming(n)'
  BY <1>1 DEF Announcing, Confirming
<1>3. Shape'
  BY <1>1 DEF InboxInv, Shape
<1>4. ASSUME NEW s \in Sockets, Follows(socket[s])
      PROVE  /\ socket[s].room
             /\ socket[s].list = "current" => socket[s].listed = {} /\ socket[s].read = {}
             /\ \A n \in Notices' :
                  n \in Heard(socket[s]) \/ notice'[n] = "removed" \/ Announcing(n)'
             /\ \A n \in Notices' \ crossed' :
                  notice'[n] = "read" => n \in Marked(socket[s]) \/ Confirming(n)'
  <2>1. UpToDate(s)
    BY DEF InboxInv
  <2>2. /\ socket[s].room
        /\ socket[s].list = "current" => socket[s].listed = {} /\ socket[s].read = {}
    BY <1>4, <2>1 DEF UpToDate
  <2>3. ASSUME NEW n \in Notices'
        PROVE  n \in Heard(socket[s]) \/ notice'[n] = "removed" \/ Announcing(n)'
    BY <1>2, <1>4, <2>1, <2>3 DEF UpToDate
  <2>4. ASSUME NEW n \in Notices' \ crossed', notice'[n] = "read"
        PROVE  n \in Marked(socket[s]) \/ Confirming(n)'
    BY <1>2, <1>4, <2>1, <2>4 DEF UpToDate
  <2> QED
    BY <2>2, <2>3, <2>4
<1>5. \A s \in Sockets : UpToDate(s)'
  BY <1>4 DEF UpToDate
<1> QED
  BY <1>3, <1>5 DEF InboxInv

\* The word of a request reaches the room.
LEMMA WordStep ==
  ASSUME InboxInv, NEW j \in Jobs, Emits(j) \/ Confirms(j)
  PROVE  InboxInv'
<1> DEFINE new  == IF job[j].at = "emit" THEN {job[j].id} ELSE {}
           read == IF job[j].at = "confirm" THEN job[j].ids ELSE {}
<1>1. /\ notice' = notice /\ job' = [job EXCEPT ![j] = Over]
      /\ job[j].at \in {"emit", "confirm"}
      /\ crossed \subseteq crossed'
      /\ job[j].at = "confirm" =>
           crossed' = crossed \cup {n \in Notices \cap job[j].ids : Announcing(n)}
  BY DEF Emits, Confirms, Works, Announcing
<1>2. /\ Notices \subseteq Ids
      /\ \A s \in Sockets : socket[s] # Offline => socket[s] \in Client
      /\ job[j].at = "emit" => job[j].id \in Ids
  BY DEF InboxInv, Shape
<1>3. new \subseteq Ids
  BY <1>2
<1>4. socket' = Told(new, read)
  <2>1. CASE Emits(j)
    BY <2>1 DEF Emits
  <2>2. CASE Confirms(j)
    BY <2>2 DEF Confirms, Confirmed
  <2> QED
    BY <2>1, <2>2
<1> HIDE DEF new, read
<1>5. \A s \in Sockets :
        /\ socket'[s] = Offline <=> socket[s] = Offline
        /\ socket[s] # Offline =>
             /\ socket'[s] \in Client /\ socket'[s].room = socket[s].room
             /\ socket'[s].list = socket[s].list
             /\ socket'[s].listed = socket[s].listed /\ socket'[s].read = socket[s].read
        /\ socket[s] # Offline /\ socket[s].room =>
             /\ Heard(socket[s]) \cup new \subseteq Heard(socket'[s])
             /\ Marked(socket[s]) \cup (read \cap Heard(socket[s])) \subseteq Marked(socket'[s])
  <2> TAKE s \in Sockets
  <2> DEFINE c == socket[s]
             t == socket'[s]
  <2>1. t = Told(new, read)[s]
    BY <1>4
  <2>2. Shape /\ new \in SUBSET Ids /\ c = socket[s]
    BY <1>3 DEF InboxInv
  <2> HIDE DEF c, t
  <2>3. /\ t = Offline <=> c = Offline
        /\ c # Offline => t \in Client /\ t.room = c.room /\ t.list = c.list
                          /\ t.listed = c.listed /\ t.read = c.read
        /\ c # Offline /\ c.room =>
             /\ Heard(c) \cup new \subseteq Heard(t)
             /\ Marked(c) \cup (read \cap Heard(c)) \subseteq Marked(t)
    BY <2>1, <2>2, ToldEffect
  <2> QED
    BY <2>3 DEF c, t
<1>6. job'[j] = Over /\ \A o \in Jobs \ {j} : job'[o] = job[o]
  BY <1>1 DEF InboxInv, Shape
<1>7. Shape'
  <2>1. socket' = [s \in Sockets |-> socket'[s]]
    BY <1>4 DEF Told
  <2> QED
    BY <1>1, <1>5, <1>6, <2>1 DEF InboxInv, Shape, Notices, Over
<1>8. \A n \in Notices : Announcing(n) => Announcing(n)' \/ n \in new
  BY <1>6 DEF Announcing, new
<1>9. \A n \in Notices : Confirming(n) => Confirming(n)' \/ n \in read
  BY <1>2, <1>6 DEF Confirming, read
<1>10. ASSUME NEW s \in Sockets, Follows(socket[s])
       PROVE  /\ socket'[s].room
              /\ socket'[s].list = "current" => socket'[s].listed = {} /\ socket'[s].read = {}
              /\ \A n \in Notices :
                   n \in Heard(socket'[s]) \/ notice[n] = "removed" \/ Announcing(n)'
              /\ \A n \in Notices \ crossed' :
                   notice[n] = "read" => n \in Marked(socket'[s]) \/ Confirming(n)'
  <2> DEFINE c == socket[s]
             t == socket'[s]
  <2>1. /\ c # Offline /\ c.room
        /\ c.list = "current" => c.listed = {} /\ c.read = {}
        /\ \A n \in Notices : n \in Heard(c) \/ notice[n] = "removed" \/ Announcing(n)
        /\ \A n \in Notices \ crossed :
             notice[n] = "read" => n \in Marked(c) \/ Confirming(n)
    BY <1>10 DEF InboxInv, UpToDate, Follows
  <2>2. /\ t.room = c.room /\ t.list = c.list /\ t.listed = c.listed /\ t.read = c.read
        /\ Heard(c) \cup new \subseteq Heard(t)
        /\ Marked(c) \cup (read \cap Heard(c)) \subseteq Marked(t)
    BY <1>5, <2>1
  <2> HIDE DEF c, t
  <2>3. ASSUME NEW n \in Notices
        PROVE  n \in Heard(t) \/ notice[n] = "removed" \/ Announcing(n)'
    BY <1>8, <2>1, <2>2, <2>3
  <2>4. ASSUME NEW n \in Notices \ crossed', notice[n] = "read"
        PROVE  n \in Marked(t) \/ Confirming(n)'
    <3>1. n \in Marked(c) \/ Confirming(n)' \/ n \in read
      BY <1>1, <1>9, <2>1, <2>4
    <3>2. ASSUME n \in read PROVE n \in Heard(c)
      <4>1. ~ Announcing(n)
        BY <1>1, <2>4, <3>2 DEF read
      <4> QED
        BY <2>1, <2>4, <4>1
    <3> QED
      BY <2>2, <3>1, <3>2
  <2> QED
    BY <2>1, <2>2, <2>3, <2>4 DEF t
<1>11. \A s \in Sockets : Follows(socket'[s]) => Follows(socket[s])
  BY <1>5 DEF Follows
<1>12. \A s \in Sockets : UpToDate(s)'
  BY <1>1, <1>10, <1>11 DEF UpToDate, Notices
<1> QED
  BY <1>7, <1>12 DEF InboxInv

\* Every step keeps what current clients know.
LEMMA InboxStep == InboxInv /\ [InboxNext]_inboxVars => InboxInv'
<1> SUFFICES ASSUME InboxInv, [InboxNext]_inboxVars PROVE InboxInv'
  OBVIOUS
<1>1. /\ Notices \subseteq Ids /\ notice = [n \in Notices |-> notice[n]]
      /\ Over.at = "over"
  BY DEF InboxInv, Shape, Over
<1>2. ASSUME NEW j \in Jobs, Creates(j) PROVE InboxInv'
  <2> DEFINE n == Cardinality(Notices) + 1
             x == [at |-> "emit", id |-> n]
  <2>1. /\ Cardinality(Notices) < MaxNotices /\ UNCHANGED <<socket, crossed>>
        /\ job[j] = Over /\ job' = [job EXCEPT ![j] = x]
        /\ notice' = [k \in Notices \cup {n} |-> IF k = n THEN "unread" ELSE notice[k]]
    BY <1>2 DEF Creates, Begins, Works
  <2>2. n \in Ids
    BY <2>1, NextId DEF InboxInv
  <2>3. x.at = "emit" /\ x.id = n
    OBVIOUS
  <2> HIDE DEF n, x
  <2>4. /\ Notices' = Notices \cup {n} /\ notice' = [k \in Notices' |-> notice'[k]]
        /\ notice'[n] = "unread" /\ \A k \in Notices \ {n} : notice'[k] = notice[k]
    BY <2>1 DEF Notices
  <2>5. \A k \in Notices' : \/ k \in Notices /\ notice'[k] = notice[k]
                            \/ notice'[k] = "unread" /\ x.at = "emit" /\ x.id = k
    BY <2>3, <2>4
  <2>6. job[j].at \notin {"emit", "confirm"} /\ x.id \in Ids
        /\ Notices' \subseteq Ids /\ crossed \subseteq crossed'
    BY <1>1, <2>1, <2>2, <2>3, <2>4
  <2> QED
    BY <2>1, <2>4, <2>5, <2>6, TableStep
<1>3. ASSUME NEW j \in Jobs, MarksAll(j) PROVE InboxInv'
  <2> DEFINE x == [at |-> "confirm", ids |-> Ids]
  <2>1. /\ UNCHANGED <<socket, crossed>>
        /\ job[j] = Over /\ job' = [job EXCEPT ![j] = x]
        /\ notice' = [n \in Notices |-> IF notice[n] = "unread" THEN "read" ELSE notice[n]]
    BY <1>3 DEF MarksAll, Begins, Works, Ids
  <2>2. x.at = "confirm" /\ x.ids = Ids
    OBVIOUS
  <2> HIDE DEF x
  <2>3. Notices' = Notices /\ notice' = [n \in Notices' |-> notice'[n]]
    BY <2>1 DEF Notices
  <2>4. \A n \in Notices' :
          \/ notice'[n] = notice[n]
          \/ notice[n] # "removed" /\ notice'[n] = "read" /\ n \in x.ids
    BY <1>1, <2>1, <2>2, <2>3
  <2>5. job[j].at \notin {"emit", "confirm"}
    BY <1>1, <2>1
  <2> QED
    BY <1>1, <2>1, <2>2, <2>3, <2>4, <2>5, TableStep
<1>4. ASSUME NEW j \in Jobs, NEW n \in Notices, NEW for \in {"mark", "update", "delete"},
             Finds(j, n, for)
      PROVE  InboxInv'
  <2> DEFINE x == [at |-> for, id |-> n, was |-> notice[n]]
  <2>1. /\ UNCHANGED <<notice, socket, crossed>>
        /\ job[j] = Over /\ job' = [job EXCEPT ![j] = x]
    BY <1>4 DEF Finds, Begins, Works
  <2>2. x.at # "emit" /\ job[j].at \notin {"emit", "confirm"}
    BY <1>1, <2>1
  <2> HIDE DEF x
  <2>3. Notices' = Notices
    BY <2>1 DEF Notices
  <2> QED
    BY <1>1, <2>1, <2>2, <2>3, TableStep
<1>5. ASSUME NEW j \in Jobs, MarksRead(j) PROVE InboxInv'
  <2> DEFINE i == job[j].id
             x == [at |-> "confirm", ids |-> {i}]
  <2>1. /\ UNCHANGED <<socket, crossed>> /\ job[j].at = "mark"
        /\ \/ notice' = notice /\ job' = [job EXCEPT ![j] = Over]
           \/ /\ notice[i] # "removed"
              /\ notice' = [notice EXCEPT ![i] = "read"] /\ job' = [job EXCEPT ![j] = x]
    BY <1>5 DEF MarksRead, Works
  <2>2. x.at = "confirm" /\ x.ids = {i}
    OBVIOUS
  <2> HIDE DEF i, x
  <2>3. /\ Notices' = Notices /\ notice' = [n \in Notices' |-> notice'[n]]
        /\ \A n \in Notices : n # i => notice'[n] = notice[n]
        /\ i \in Notices /\ notice' # notice => notice'[i] = "read"
    BY <1>1, <2>1 DEF Notices
  <2>4. CASE notice' = notice /\ job' = [job EXCEPT ![j] = Over]
    BY <1>1, <2>1, <2>3, <2>4, TableStep
  <2>5. CASE /\ notice[i] # "removed"
             /\ notice' = [notice EXCEPT ![i] = "read"] /\ job' = [job EXCEPT ![j] = x]
    <3>1. \A n \in Notices' :
            \/ notice'[n] = notice[n]
            \/ notice[n] # "removed" /\ notice'[n] = "read" /\ n \in x.ids
      BY <1>1, <2>2, <2>3, <2>5
    <3> QED
      BY <1>1, <2>1, <2>2, <2>3, <2>5, <3>1, TableStep
  <2> QED
    BY <2>1, <2>4, <2>5
<1>6. ASSUME NEW j \in Jobs, Updates(j) PROVE InboxInv'
  <2> DEFINE i == job[j].id
  <2>1. /\ UNCHANGED socket /\ job[j].at = "update" /\ job' = [job EXCEPT ![j] = Over]
        /\ \/ notice' = notice
           \/ notice[i] # "removed" /\ notice' = [notice EXCEPT ![i] = job[j].was]
        /\ crossed' = IF notice[i] = job[j].was THEN crossed ELSE crossed \cup {i}
    BY <1>6 DEF Updates, Works
  <2> HIDE DEF i
  <2>2. /\ Notices' = Notices /\ notice' = [n \in Notices' |-> notice'[n]]
        /\ crossed \subseteq crossed'
    BY <1>1, <2>1 DEF Notices
  <2>3. \A n \in Notices' :
          notice'[n] = notice[n] \/ (notice[n] # "removed" /\ n \in crossed')
    BY <1>1, <2>1, <2>2
  <2> QED
    BY <1>1, <2>1, <2>2, <2>3, TableStep
<1>7. ASSUME NEW j \in Jobs, Deletes(j) PROVE InboxInv'
  <2>1. /\ UNCHANGED <<socket, crossed>> /\ job[j].at = "delete"
        /\ job' = [job EXCEPT ![j] = Over]
        /\ notice' = [notice EXCEPT ![job[j].id] = "removed"]
    BY <1>7 DEF Deletes, Works
  <2>2. /\ Notices' = Notices /\ notice' = [n \in Notices' |-> notice'[n]]
        /\ \A n \in Notices' : notice'[n] = notice[n] \/ notice'[n] = "removed"
    BY <1>1, <2>1 DEF Notices
  <2> QED
    BY <1>1, <2>1, <2>2, TableStep
<1>8. ASSUME NEW j \in Jobs, JobFails(j) PROVE InboxInv'
  <2>1. /\ UNCHANGED <<notice, socket, crossed>> /\ job[j].at \notin {"emit", "confirm"}
        /\ job' = [job EXCEPT ![j] = Over]
    BY <1>8 DEF JobFails, Works
  <2>2. Notices' = Notices
    BY <2>1 DEF Notices
  <2> QED
    BY <1>1, <2>1, <2>2, TableStep
<1>9. CASE Stops
  <2>1. /\ \A s \in Sockets : socket'[s] = Offline
        /\ \A j \in Jobs : job'[j].at = "over"
    BY <1>9 DEF Stops, Over
  <2> QED
    BY <1>9, <2>1 DEF Stops, InboxInv, Shape, Notices, UpToDate, Follows
<1>10. CASE Fades \/ UNCHANGED inboxVars
  <2>1. UNCHANGED <<notice, socket, job, crossed>>
    BY <1>10 DEF Fades, inboxVars
  <2> QED
    BY <2>1 DEF InboxInv, Shape, UpToDate, Notices, Announcing, Confirming
<1> QED
  BY <1>2, <1>3, <1>4, <1>5, <1>6, <1>7, <1>8, <1>9, <1>10, SocketStep, WordStep DEF InboxNext

\* The inductive invariant holds in every reachable state of the inbox.
LEMMA InboxInvariance == InboxSpec => []InboxInv
BY InboxStart, InboxStep, PTL DEF InboxSpec

-----------------------------------------------------------------------------
(* The theorems.                                                           *)

\* A client that was in its room from when its list was read misses no notification,
\* whatever is announced before the list arrives.
THEOREM NothingMissed == InboxSpec => []NothingIsMissed
<1>1. InboxInv => NothingIsMissed
  BY DEF InboxInv, UpToDate, NothingIsMissed, Current, Follows, Heard, Announcing
<1> QED
  BY <1>1, InboxInvariance, PTL

\* And it shows as read what was read on any device, unless two requests crossed or
\* the word came while a list that shows the notification unread was on its way.
THEOREM ReadsReported == InboxSpec => []ReadsAreReported
<1>1. InboxInv => ReadsAreReported
  BY DEF InboxInv, UpToDate, ReadsAreReported, Current, Follows, Marked, Confirming
<1> QED
  BY <1>1, InboxInvariance, PTL

-----------------------------------------------------------------------------
(***************************************************************************)
(* Registries: categories, companies, periods, assets and the like         *)
(***************************************************************************)

(* What a table and the requests on it look like.                          *)

CreateOrder == [at : {"look", "insert"}, name : Names, note : Notes]
EditOrder   == [at : {"edit"}, id : EntryIds, copy : EntryRow, change : Change]
RemoveOrder == [at : {"remove"}, id : EntryIds, copy : EntryRow]

RegistryShape ==
  /\ RegistriesTypeOK
  /\ clerk \in [Clerks -> {NoOrder} \cup CreateOrder \cup EditOrder \cup RemoveOrder]

\* A row no two requests overlapped on is as the answers say, and the request that
\* holds it has it as it is, alone.
RowsHeldOnce ==
  \A i \in EntryIds \ met :
    /\ entry[i] = told[i]
    /\ \A c \in Clerks : Holding(c, i) =>
         clerk[c].copy = entry[i] /\ \A o \in Clerks : Holding(o, i) => o = c

\* Where an index refuses a second row of a name there is none.
IndexHolds ==
  table.unique =>
    \A i, j \in EntryIds : Exists(i) /\ Exists(j) /\ entry[i].name = entry[j].name => i = j

\* Where creation looks first, a name on which no two creations overlapped has one
\* row or one creation that found none, and nothing renames a row.
KeepsName(c) ==
  /\ clerk[c].at \in {"edit", "remove"} => clerk[c].copy.name = entry[clerk[c].id].name
  /\ clerk[c].at = "edit" => clerk[c].change.name = Unsaid

Named(i, name) == Exists(i) /\ entry[i].name = name

CreatesAlone(c) ==
  clerk[c].at \in {"look", "insert"} /\ clerk[c].name \notin met =>
    /\ \A o \in Clerks : BeingCreated(o, clerk[c].name) => o = c
    /\ clerk[c].at = "insert" => \A i \in EntryIds : ~ Named(i, clerk[c].name)

OneRowEach ==
  \A i, j \in EntryIds : \A n \in Names \ met : Named(i, n) /\ Named(j, n) => i = j

LooksSuffice ==
  table.looks /\ ~ table.unique =>
    OneRowEach /\ \A c \in Clerks : KeepsName(c) /\ CreatesAlone(c)

RegistryInv == RegistryShape /\ RowsHeldOnce /\ IndexHolds /\ LooksSuffice

\* The orders of the clerks, and what each has.
LEMMA OrderShapes ==
  ASSUME RegistryShape, NEW c \in Clerks
  PROVE  /\ clerk[c] \in {NoOrder} \cup CreateOrder \cup EditOrder \cup RemoveOrder
         /\ clerk[c].at = "idle" <=> clerk[c] = NoOrder
         /\ clerk[c].at \in {"look", "insert"} <=> clerk[c] \in CreateOrder
         /\ clerk[c].at = "edit" <=> clerk[c] \in EditOrder
         /\ clerk[c].at = "remove" <=> clerk[c] \in RemoveOrder
<1>1. clerk[c] \in {NoOrder} \cup CreateOrder \cup EditOrder \cup RemoveOrder
  BY DEF RegistryShape
<1> QED
  BY <1>1 DEF NoOrder, CreateOrder, EditOrder, RemoveOrder

\* The rows of a table are those of its index.
LEMMA Rows ==
  ASSUME RegistryShape
  PROVE  /\ EntryIds = 1 .. Len(entry) /\ DOMAIN told = EntryIds /\ Len(entry) \in Nat
         /\ \A i \in EntryIds : i \in Nat /\ i # 0 /\ entry[i] \in EntryRow /\ told[i] \in EntryRow
BY DEF RegistryShape, RegistriesTypeOK, EntryIds

-----------------------------------------------------------------------------
(* Requests that only change what a clerk holds.                           *)

\* A clerk that turns to an order of the right shape.
LEMMA ShapeTurn ==
  ASSUME RegistryShape, NEW c \in Clerks, NEW what, Turn(c, what),
         what \in {NoOrder} \cup CreateOrder \cup EditOrder \cup RemoveOrder,
         orders' \in 0 .. MaxOrders, UNCHANGED <<table, entry, told>>
  PROVE  RegistryShape'
<1>1. UNCHANGED <<EntryIds, CreateOrder, EditOrder, RemoveOrder>>
  BY DEF EntryIds, CreateOrder, EditOrder, RemoveOrder
<1>2. clerk' \in [Clerks -> ({NoOrder} \cup CreateOrder \cup EditOrder \cup RemoveOrder)']
  BY <1>1 DEF RegistryShape, Turn
<1>3. \A o \in Clerks : clerk'[o].at \in {"idle", "look", "insert", "edit", "remove"}
  BY <1>1, <1>2 DEF NoOrder, CreateOrder, EditOrder, RemoveOrder
<1> QED
  BY <1>2, <1>3 DEF RegistryShape, RegistriesTypeOK

\* What a step leaves alone when it only turns a clerk.
LEMMA Turned ==
  ASSUME RegistryShape, NEW c \in Clerks, NEW what, Turn(c, what)
  PROVE  clerk'[c] = what /\ \A o \in Clerks \ {c} : clerk'[o] = clerk[o]
BY DEF RegistryShape, Turn

\* What a clerk creates alone it goes on creating alone, while no other turns to
\* the name and no row gets it.
LEMMA StillAlone ==
  ASSUME NEW c \in Clerks, CreatesAlone(c), clerk'[c] = clerk[c], met \subseteq met',
         clerk[c].at \in {"look", "insert"} /\ clerk[c].name \notin met' =>
           /\ \A o \in Clerks : BeingCreated(o, clerk[c].name)' => BeingCreated(o, clerk[c].name)
           /\ \A i \in EntryIds' : Named(i, clerk[c].name)' => i \in EntryIds /\ Named(i, clerk[c].name)
  PROVE  CreatesAlone(c)'
<1> SUFFICES ASSUME clerk'[c].at \in {"look", "insert"}, clerk'[c].name \notin met'
             PROVE  /\ \A o \in Clerks : BeingCreated(o, clerk[c].name)' => o = c
                    /\ clerk'[c].at = "insert" => \A i \in EntryIds' : ~ Named(i, clerk[c].name)'
  BY DEF CreatesAlone, BeingCreated, Named, Exists
<1>1. PICK n : n = clerk[c].name
  OBVIOUS
<1>2. clerk'[c].name = n /\ n \notin met /\ n \notin met'
  BY <1>1
<1>3. \A o \in Clerks : BeingCreated(o, n)' => o = c
  BY <1>1, <1>2 DEF CreatesAlone
<1>4. clerk[c].at = "insert" => \A i \in EntryIds' : ~ Named(i, n)'
  BY <1>1, <1>2 DEF CreatesAlone
<1> QED
  BY <1>1, <1>2, <1>3, <1>4

\* A step that leaves the rows and the columns of a table alone leaves the names alone.
LEMMA NamesStay ==
  ASSUME UNCHANGED <<table, entry>>, met \subseteq met'
  PROVE  /\ UNCHANGED EntryIds /\ \A i \in EntryIds : UNCHANGED Exists(i)
         /\ \A n : \A i \in EntryIds : Named(i, n)' <=> Named(i, n)
         /\ OneRowEach => OneRowEach'
         /\ IndexHolds => IndexHolds'
<1>1. UNCHANGED EntryIds /\ \A i \in EntryIds : UNCHANGED Exists(i)
  BY DEF EntryIds, Exists
<1>2. \A n : \A i \in EntryIds : Named(i, n)' <=> Named(i, n)
  BY <1>1 DEF Named
<1>3. OneRowEach => OneRowEach'
  BY <1>1, <1>2 DEF OneRowEach
<1>4. IndexHolds => IndexHolds'
  BY <1>1 DEF IndexHolds
<1> QED
  BY <1>1, <1>2, <1>3, <1>4

\* A step that leaves the rows alone and what the other clerks hold, and turns one
\* to nothing or to a row whose name it keeps.
LEMMA LooksStay ==
  ASSUME RegistryInv, NEW c \in Clerks, NEW what, Turn(c, what),
         UNCHANGED <<table, entry>>, met \subseteq met',
         what.at \notin {"look", "insert"},
         what.at \in {"edit", "remove"} => what.copy.name = entry[what.id].name,
         table.looks /\ what.at = "edit" => what.change.name = Unsaid
  PROVE  LooksSuffice'
<1> USE DEF RegistryInv
<1> SUFFICES ASSUME table.looks, ~ table.unique
             PROVE  OneRowEach' /\ \A o \in Clerks : KeepsName(o)' /\ CreatesAlone(o)'
  BY DEF LooksSuffice
<1>1. clerk'[c] = what /\ \A o \in Clerks \ {c} : clerk'[o] = clerk[o]
  BY Turned
<1>2. OneRowEach /\ \A o \in Clerks : KeepsName(o) /\ CreatesAlone(o)
  BY DEF LooksSuffice
<1>3. \A o \in Clerks : KeepsName(o)'
  BY <1>1, <1>2 DEF KeepsName
<1>4. \A o \in Clerks : \A n : BeingCreated(o, n)' => BeingCreated(o, n)
  BY <1>1 DEF BeingCreated
<1>5. CreatesAlone(c)'
  BY <1>1 DEF CreatesAlone
<1>6. ASSUME NEW o \in Clerks \ {c} PROVE CreatesAlone(o)'
  BY <1>1, <1>2, <1>4, StillAlone, NamesStay
<1> QED
  BY <1>2, <1>3, <1>5, <1>6, NamesStay

\* A clerk is done: nothing it held is held.
LEMMA OrderEnds ==
  ASSUME RegistryInv, NEW c \in Clerks, Turn(c, NoOrder),
         UNCHANGED <<table, entry, orders, told, met>>
  PROVE  RegistryInv'
<1> USE DEF RegistryInv
<1>1. clerk'[c] = NoOrder /\ \A o \in Clerks \ {c} : clerk'[o] = clerk[o]
  BY Turned
<1>2. clerk'[c].at = "idle"
  BY <1>1 DEF NoOrder
<1>3. UNCHANGED EntryIds /\ \A i \in EntryIds : UNCHANGED Exists(i)
  BY DEF EntryIds, Exists
<1>4. \A o \in Clerks, i \in EntryIds : Holding(o, i)' => Holding(o, i) /\ o # c
  BY <1>1, <1>2 DEF Holding
<1>5. \A o \in Clerks : \A n : BeingCreated(o, n)' => BeingCreated(o, n) /\ o # c
  BY <1>1, <1>2 DEF BeingCreated
<1>6. RegistryShape'
  BY ShapeTurn DEF RegistryShape, RegistriesTypeOK
<1>7. RowsHeldOnce'
  BY <1>1, <1>3, <1>4 DEF RowsHeldOnce
<1>8. IndexHolds'
  BY NamesStay
<1>9. LooksSuffice'
  BY LooksStay DEF NoOrder
<1> QED
  BY <1>6, <1>7, <1>8, <1>9

\* A request for a row begins.
LEMMA OrdersEntryStep ==
  ASSUME RegistryInv, NEW c \in Clerks, NEW name \in Names, NEW note \in Notes,
         OrdersEntry(c, name, note)
  PROVE  RegistryInv'
<1> USE DEF RegistryInv
<1> DEFINE what == [at |-> IF table.looks THEN "look" ELSE "insert", name |-> name, note |-> note]
<1>1. /\ clerk[c] = NoOrder /\ Turn(c, what) /\ orders' \in 0 .. MaxOrders
      /\ UNCHANGED <<table, entry, told>> /\ met \subseteq met'
      /\ (\E o \in Clerks : BeingCreated(o, name)) => name \in met'
  BY RegistriesAssumption DEF OrdersEntry, Orders, RegistryShape, RegistriesTypeOK
<1>2. what \in CreateOrder /\ what.at \in {"look", "insert"} /\ what.name = name
      /\ (table.looks => what.at = "look")
  BY DEF CreateOrder
<1> HIDE DEF what
<1>3. clerk'[c] = what /\ \A o \in Clerks \ {c} : clerk'[o] = clerk[o]
  BY <1>1, Turned
<1>4. UNCHANGED EntryIds /\ \A i \in EntryIds : UNCHANGED Exists(i)
  BY <1>1 DEF EntryIds, Exists
<1>5. \A o \in Clerks, i \in EntryIds : Holding(o, i)' => Holding(o, i) /\ o # c
  BY <1>2, <1>3 DEF Holding
<1>6. RegistryShape'
  BY <1>1, <1>2, ShapeTurn
<1>7. RowsHeldOnce'
  BY <1>1, <1>3, <1>4, <1>5 DEF RowsHeldOnce
<1>8. IndexHolds'
  BY <1>1, NamesStay
<1>9. LooksSuffice'
  <2> SUFFICES ASSUME table.looks, ~ table.unique
               PROVE  OneRowEach' /\ \A o \in Clerks : KeepsName(o)' /\ CreatesAlone(o)'
    BY <1>1 DEF LooksSuffice
  <2>1. OneRowEach /\ \A o \in Clerks : KeepsName(o) /\ CreatesAlone(o)
    BY DEF LooksSuffice
  <2>2. \A o \in Clerks : KeepsName(o)'
    BY <1>1, <1>2, <1>3, <2>1 DEF KeepsName
  <2>3. CreatesAlone(c)'
    <3>1. name \notin met' => \A o \in Clerks : ~ BeingCreated(o, name)
      BY <1>1
    <3>2. name \notin met' => \A o \in Clerks : BeingCreated(o, name)' => o = c
      BY <1>3, <3>1 DEF BeingCreated
    <3> QED
      BY <1>2, <1>3, <3>2 DEF CreatesAlone, BeingCreated
  <2>4. ASSUME NEW o \in Clerks \ {c} PROVE CreatesAlone(o)'
    <3>1. ASSUME clerk[o].at \in {"look", "insert"}, clerk[o].name \notin met'
          PROVE  \A p \in Clerks : BeingCreated(p, clerk[o].name)' => BeingCreated(p, clerk[o].name)
      <4>1. clerk[o].name # name
        BY <1>1, <3>1 DEF BeingCreated
      <4> QED
        BY <1>2, <1>3, <4>1 DEF BeingCreated
    <3> QED
      BY <1>1, <1>3, <2>1, <3>1, StillAlone, NamesStay
  <2> QED
    BY <1>1, <2>1, <2>2, <2>3, <2>4, NamesStay
<1> QED
  BY <1>6, <1>7, <1>8, <1>9

\* A creation that looks goes on only where there is no row of the name.
LEMMA LooksForNameStep ==
  ASSUME RegistryInv, NEW c \in Clerks, LooksForName(c)
  PROVE  RegistryInv'
<1> USE DEF RegistryInv
<1>1. CASE \E i \in EntryIds : Exists(i) /\ entry[i].name = clerk[c].name
  BY <1>1, OrderEnds DEF LooksForName
<1>2. CASE ~ \E i \in EntryIds : Exists(i) /\ entry[i].name = clerk[c].name
  <2> DEFINE what == [clerk[c] EXCEPT !.at = "insert"]
  <2>1. /\ clerk[c].at = "look" /\ clerk[c] \in CreateOrder /\ Turn(c, what)
        /\ UNCHANGED <<table, entry, orders, told, met>>
    BY <1>2, OrderShapes DEF LooksForName
  <2>2. what \in CreateOrder /\ what.at = "insert" /\ what.name = clerk[c].name
    BY <2>1 DEF CreateOrder
  <2> HIDE DEF what
  <2>3. clerk'[c] = what /\ \A o \in Clerks \ {c} : clerk'[o] = clerk[o]
    BY <2>1, Turned
  <2>4. UNCHANGED EntryIds /\ \A i \in EntryIds : UNCHANGED Exists(i)
    BY <2>1 DEF EntryIds, Exists
  <2>5. \A o \in Clerks, i \in EntryIds : Holding(o, i)' => Holding(o, i) /\ o # c
    BY <2>2, <2>3 DEF Holding
  <2>6. \A o \in Clerks : \A n : BeingCreated(o, n)' => BeingCreated(o, n)
    BY <2>1, <2>2, <2>3 DEF BeingCreated
  <2>7. RegistryShape'
    BY <2>1, <2>2, ShapeTurn DEF RegistryShape, RegistriesTypeOK
  <2>8. RowsHeldOnce'
    BY <2>1, <2>3, <2>4, <2>5 DEF RowsHeldOnce
  <2>9. IndexHolds'
    BY <2>1, NamesStay
  <2>10. LooksSuffice'
    <3> SUFFICES ASSUME table.looks, ~ table.unique
                 PROVE  OneRowEach' /\ \A o \in Clerks : KeepsName(o)' /\ CreatesAlone(o)'
      BY <2>1 DEF LooksSuffice
    <3>1. OneRowEach /\ \A o \in Clerks : KeepsName(o) /\ CreatesAlone(o)
      BY DEF LooksSuffice
    <3>2. \A o \in Clerks : KeepsName(o)'
      BY <2>1, <2>2, <2>3, <3>1 DEF KeepsName
    <3>3. CreatesAlone(c)'
      <4>1. PICK n : n = clerk[c].name
        OBVIOUS
      <4>2. clerk'[c].name = n /\ UNCHANGED <<met, EntryIds>>
        BY <2>1, <2>2, <2>3, <4>1, NamesStay
      <4>3. n \notin met => \A o \in Clerks : BeingCreated(o, n)' => o = c
        BY <2>1, <2>6, <3>1, <4>1 DEF CreatesAlone
      <4>4. \A i \in EntryIds : ~ Named(i, n)
        BY <1>2, <4>1 DEF Named
      <4>5. \A i \in EntryIds : ~ Named(i, n)'
        BY <2>1, <4>4, NamesStay
      <4> QED
        BY <4>2, <4>3, <4>5 DEF CreatesAlone
    <3>4. ASSUME NEW o \in Clerks \ {c} PROVE CreatesAlone(o)'
      BY <2>1, <2>3, <2>6, <3>1, StillAlone, NamesStay
    <3> QED
      BY <2>1, <3>1, <3>2, <3>3, <3>4, NamesStay
  <2> QED
    BY <2>7, <2>8, <2>9, <2>10
<1> QED
  BY <1>1, <1>2

\* A request finds a row: with it alone, or on a row that is met.
LEMMA FindsEntryStep ==
  ASSUME RegistryInv, NEW c \in Clerks, NEW i \in EntryIds,
         NEW what \in EditOrder \cup RemoveOrder, what.id = i, what.copy = entry[i],
         table.looks /\ what.at = "edit" => what.change.name = Unsaid,
         FindsEntry(c, i, what)
  PROVE  RegistryInv'
<1> USE DEF RegistryInv
<1>1. /\ clerk[c] = NoOrder /\ Turn(c, what) /\ orders' \in 0 .. MaxOrders
      /\ UNCHANGED <<table, entry, told>> /\ met \subseteq met'
      /\ (\E o \in Clerks : Holding(o, i)) => i \in met'
  BY RegistriesAssumption DEF FindsEntry, Orders, RegistryShape, RegistriesTypeOK
<1>2. what.at \in {"edit", "remove"}
  BY DEF EditOrder, RemoveOrder
<1>3. clerk'[c] = what /\ \A o \in Clerks \ {c} : clerk'[o] = clerk[o]
  BY <1>1, Turned
<1>4. UNCHANGED EntryIds /\ \A j \in EntryIds : UNCHANGED Exists(j)
  BY <1>1 DEF EntryIds, Exists
<1>5. \A o \in Clerks : \A n : BeingCreated(o, n)' => BeingCreated(o, n) /\ o # c
  BY <1>2, <1>3 DEF BeingCreated
<1>6. RegistryShape'
  BY <1>1, <1>2, ShapeTurn
<1>7. RowsHeldOnce'
  <2> SUFFICES ASSUME NEW j \in EntryIds, j \notin met'
               PROVE  /\ entry[j] = told[j]
                      /\ \A o \in Clerks : Holding(o, j)' =>
                           clerk'[o].copy = entry[j] /\ \A p \in Clerks : Holding(p, j)' => p = o
    BY <1>1, <1>4 DEF RowsHeldOnce
  <2>1. j \notin met
    BY <1>1
  <2>2. CASE j = i
    <3>1. \A o \in Clerks : ~ Holding(o, i)
      BY <1>1, <2>2
    <3>2. \A o \in Clerks : Holding(o, i)' => o = c
      BY <1>3, <3>1 DEF Holding
    <3> QED
      BY <1>3, <2>1, <2>2, <3>2 DEF RowsHeldOnce
  <2>3. CASE j # i
    <3>1. \A o \in Clerks : Holding(o, j)' => o # c /\ Holding(o, j)
      BY <1>3, <2>3 DEF Holding
    <3> QED
      BY <1>3, <2>1, <3>1 DEF RowsHeldOnce
  <2> QED
    BY <2>2, <2>3
<1>8. IndexHolds'
  BY <1>1, NamesStay
<1>9. LooksSuffice'
  BY <1>1, <1>2, LooksStay
<1> QED
  BY <1>6, <1>7, <1>8, <1>9

-----------------------------------------------------------------------------
(* Requests that write a row.                                              *)

\* What a clerk still holds when another has written keeps its shape.
LEMMA ShapeWrite ==
  ASSUME RegistryShape, NEW c \in Clerks, Turn(c, NoOrder),
         entry' \in Seq(EntryRow), told' \in Seq(EntryRow), Len(entry') = Len(told'),
         EntryIds \subseteq EntryIds', UNCHANGED <<table, orders>>
  PROVE  RegistryShape'
<1>1. CreateOrder' = CreateOrder /\ EditOrder \subseteq EditOrder' /\ RemoveOrder \subseteq RemoveOrder'
  BY DEF CreateOrder, EditOrder, RemoveOrder
<1>2. clerk'[c] = NoOrder /\ \A o \in Clerks \ {c} : clerk'[o] = clerk[o]
  BY Turned
<1>3. \A o \in Clerks : /\ clerk'[o] \in ({NoOrder} \cup CreateOrder \cup EditOrder \cup RemoveOrder)'
                        /\ clerk'[o].at \in {"idle", "look", "insert", "edit", "remove"}
  <2> SUFFICES ASSUME NEW o \in Clerks
               PROVE  /\ clerk'[o] \in ({NoOrder} \cup CreateOrder \cup EditOrder \cup RemoveOrder)'
                      /\ clerk'[o].at \in {"idle", "look", "insert", "edit", "remove"}
    OBVIOUS
  <2>1. CASE o = c
    BY <1>2, <2>1 DEF NoOrder
  <2>2. CASE o # c
    BY <1>1, <1>2, <2>2 DEF RegistryShape, RegistriesTypeOK
  <2> QED
    BY <2>1, <2>2
<1>4. clerk' = [o \in Clerks |-> clerk'[o]]
  BY DEF RegistryShape, Turn
<1>5. clerk' \in [Clerks -> ({NoOrder} \cup CreateOrder \cup EditOrder \cup RemoveOrder)']
  BY <1>3, <1>4, Zenon
<1> QED
  BY <1>3, <1>5 DEF RegistryShape, RegistriesTypeOK

\* A row is added: no index refuses it, and where creation looks it found none.
LEMMA InsertsEntryStep ==
  ASSUME RegistryInv, NEW c \in Clerks, InsertsEntry(c)
  PROVE  RegistryInv'
<1> USE DEF RegistryInv
<1>0. PICK state \in {"live", "removed"} :
        LET new == [name |-> clerk[c].name, note |-> clerk[c].note, state |-> state] IN
        IF Refused(new.name, 0) \/ Len(entry) = MaxEntries
        THEN UNCHANGED <<entry, told>>
        ELSE entry' = Append(entry, new) /\ told' = Append(told, new)
  BY DEF InsertsEntry
<1> DEFINE new == [name |-> clerk[c].name, note |-> clerk[c].note, state |-> state]
           k == Len(entry) + 1
<1>1. clerk[c].at = "insert" /\ clerk[c] \in CreateOrder /\ new \in EntryRow /\ new.name = clerk[c].name
  BY <1>0, OrderShapes DEF InsertsEntry, CreateOrder, EntryRow
<1>2. CASE Refused(new.name, 0) \/ Len(entry) = MaxEntries
  BY <1>0, <1>2, OrderEnds DEF InsertsEntry
<1>3. CASE ~ (Refused(new.name, 0) \/ Len(entry) = MaxEntries)
  <2>1. /\ entry' = Append(entry, new) /\ told' = Append(told, new)
        /\ Turn(c, NoOrder) /\ UNCHANGED <<table, orders, met>>
    BY <1>0, <1>3 DEF InsertsEntry
  <2> HIDE DEF new
  <2>2. /\ entry' \in Seq(EntryRow) /\ told' \in Seq(EntryRow) /\ Len(entry') = Len(told')
        /\ EntryIds' = EntryIds \cup {k} /\ k \notin EntryIds
        /\ entry'[k] = new /\ told'[k] = new
        /\ \A i \in EntryIds : entry'[i] = entry[i] /\ told'[i] = told[i]
    BY <1>1, <2>1 DEF RegistryShape, RegistriesTypeOK, EntryIds
  <2>3. clerk'[c] = NoOrder /\ \A o \in Clerks \ {c} : clerk'[o] = clerk[o]
    BY <2>1, Turned
  <2>4. \A o \in Clerks, i \in EntryIds' : Holding(o, i)' => o # c /\ i \in EntryIds /\ Holding(o, i)
    <3> SUFFICES ASSUME NEW o \in Clerks, NEW i \in EntryIds', Holding(o, i)'
                 PROVE  o # c /\ i \in EntryIds /\ Holding(o, i)
      OBVIOUS
    <3>1. o # c /\ clerk'[o] = clerk[o] /\ Holding(o, i)
      BY <2>3 DEF Holding, NoOrder
    <3> QED
      BY <3>1, OrderShapes DEF Holding, EditOrder, RemoveOrder
  <2>5. \A i \in EntryIds' : \A n : Named(i, n)' => (i \in EntryIds /\ Named(i, n)) \/ (i = k /\ n = new.name)
    BY <2>2 DEF Named, Exists
  <2>6. RegistryShape'
    BY <2>1, <2>2, ShapeWrite
  <2>7. RowsHeldOnce'
    <3> SUFFICES ASSUME NEW i \in EntryIds', i \notin met
                 PROVE  /\ entry'[i] = told'[i]
                        /\ \A o \in Clerks : Holding(o, i)' =>
                             /\ clerk'[o].copy = entry'[i]
                             /\ \A p \in Clerks : Holding(p, i)' => p = o
      BY <2>1 DEF RowsHeldOnce
    <3>1. CASE i = k
      BY <2>2, <2>4, <3>1
    <3>2. CASE i # k
      <4>1. i \in EntryIds
        BY <2>2, <3>2
      <4> QED
        BY <2>2, <2>3, <2>4, <4>1 DEF RowsHeldOnce
    <3> QED
      BY <3>1, <3>2
  <2>8. IndexHolds'
    <3> SUFFICES ASSUME table.unique, NEW i \in EntryIds', NEW j \in EntryIds',
                        Exists(i)', Exists(j)', entry'[i].name = entry'[j].name
                 PROVE  i = j
      BY <2>1 DEF IndexHolds
    <3>1. \A o \in EntryIds : Exists(o) => entry[o].name # new.name
      BY <1>3, Rows DEF Refused
    <3>2. \A o \in EntryIds : Exists(o)' => Exists(o)
      BY <2>2 DEF Exists
    <3> QED
      BY <2>2, <3>1, <3>2 DEF IndexHolds
  <2>9. LooksSuffice'
    <3> SUFFICES ASSUME table.looks, ~ table.unique
                 PROVE  OneRowEach' /\ \A o \in Clerks : KeepsName(o)' /\ CreatesAlone(o)'
      BY <2>1 DEF LooksSuffice
    <3>1. OneRowEach /\ \A o \in Clerks : KeepsName(o) /\ CreatesAlone(o)
      BY DEF LooksSuffice
    <3>2. new.name \notin met => /\ \A o \in Clerks : BeingCreated(o, new.name) => o = c
                                 /\ \A i \in EntryIds : ~ Named(i, new.name)
      BY <1>1, <3>1 DEF CreatesAlone
    <3>3. OneRowEach'
      <4> SUFFICES ASSUME NEW i \in EntryIds', NEW j \in EntryIds', NEW n \in Names \ met,
                          Named(i, n)', Named(j, n)'
                   PROVE  i = j
        BY <2>1 DEF OneRowEach
      <4> QED
        BY <2>5, <3>1, <3>2 DEF OneRowEach
    <3>4. ASSUME NEW o \in Clerks PROVE KeepsName(o)'
      <4>1. CASE o = c
        BY <2>3, <4>1 DEF KeepsName, NoOrder
      <4>2. CASE o # c
        <5>1. clerk'[o] = clerk[o]
          BY <2>3, <4>2
        <5>2. clerk[o].at \in {"edit", "remove"} => clerk[o].id \in EntryIds
          BY OrderShapes DEF EditOrder, RemoveOrder
        <5> QED
          BY <2>2, <3>1, <5>1, <5>2 DEF KeepsName
      <4> QED
        BY <4>1, <4>2
    <3>5. CreatesAlone(c)'
      BY <2>3 DEF CreatesAlone, NoOrder
    <3>6. ASSUME NEW o \in Clerks \ {c} PROVE CreatesAlone(o)'
      <4>1. clerk'[o] = clerk[o] /\ met' = met
        BY <2>1, <2>3
      <4>2. ASSUME clerk[o].at \in {"look", "insert"}, clerk[o].name \notin met
            PROVE  clerk[o].name # new.name
        BY <3>2, <4>2 DEF BeingCreated
      <4>3. \A p \in Clerks : \A n : BeingCreated(p, n)' => BeingCreated(p, n)
        BY <2>3 DEF BeingCreated, NoOrder
      <4>4. ASSUME clerk[o].at \in {"look", "insert"}, clerk[o].name \notin met
            PROVE  \A i \in EntryIds' : Named(i, clerk[o].name)' => i \in EntryIds /\ Named(i, clerk[o].name)
        BY <2>5, <4>1, <4>2, <4>4
      <4> QED
        BY <3>1, <4>1, <4>3, <4>4, StillAlone
    <3> QED
      BY <3>3, <3>4, <3>5, <3>6
  <2> QED
    BY <2>6, <2>7, <2>8, <2>9
<1> QED
  BY <1>2, <1>3

\* A clerk saves the row it holds: what it writes is what it answers, unless others
\* held the row too; an index did not refuse it, and no creation looks for its name.
LEMMA WritesRow ==
  ASSUME RegistryInv, NEW c \in Clerks, NEW i \in EntryIds, Holding(c, i),
         NEW new \in EntryRow, NEW said \in EntryRow,
         Turn(c, NoOrder), UNCHANGED <<table, orders, met>>,
         entry' = [entry EXCEPT ![i] = new], told' = [told EXCEPT ![i] = said],
         i \notin met => new = said,
         table.unique /\ new.state # "dropped" =>
           \A j \in EntryIds \ {i} : Exists(j) => entry[j].name # new.name,
         table.looks /\ ~ table.unique =>
           new.name = entry[i].name /\ (new.state # "dropped" => Exists(i))
  PROVE  RegistryInv'
<1> USE DEF RegistryInv
<1>1. /\ entry' \in Seq(EntryRow) /\ told' \in Seq(EntryRow) /\ Len(entry') = Len(told')
      /\ UNCHANGED EntryIds /\ entry'[i] = new /\ told'[i] = said
      /\ \A j \in EntryIds \ {i} : entry'[j] = entry[j] /\ told'[j] = told[j]
  BY DEF RegistryShape, RegistriesTypeOK, EntryIds
<1>2. clerk'[c] = NoOrder /\ \A o \in Clerks \ {c} : clerk'[o] = clerk[o]
  BY Turned
<1>3. \A o \in Clerks, j \in EntryIds : Holding(o, j)' => o # c /\ Holding(o, j)
  BY <1>2 DEF Holding, NoOrder
<1>4. RegistryShape'
  BY <1>1, ShapeWrite
<1>5. RowsHeldOnce'
  <2> SUFFICES ASSUME NEW j \in EntryIds, j \notin met
               PROVE  /\ entry'[j] = told'[j]
                      /\ \A o \in Clerks : Holding(o, j)' =>
                           /\ clerk'[o].copy = entry'[j]
                           /\ \A p \in Clerks : Holding(p, j)' => p = o
    BY <1>1 DEF RowsHeldOnce
  <2>1. CASE j = i
    BY <1>1, <1>3, <2>1 DEF RowsHeldOnce
  <2>2. CASE j # i
    BY <1>1, <1>2, <1>3, <2>2 DEF RowsHeldOnce
  <2> QED
    BY <2>1, <2>2
<1>6. IndexHolds'
  BY <1>1 DEF IndexHolds, Exists
<1>7. LooksSuffice'
  <2> SUFFICES ASSUME table.looks, ~ table.unique
               PROVE  OneRowEach' /\ \A o \in Clerks : KeepsName(o)' /\ CreatesAlone(o)'
    BY DEF LooksSuffice
  <2>1. OneRowEach /\ \A o \in Clerks : KeepsName(o) /\ CreatesAlone(o)
    BY DEF LooksSuffice
  <2>2. \A j \in EntryIds : \A n : Named(j, n)' => Named(j, n)
    BY <1>1 DEF Named, Exists
  <2>3. OneRowEach'
    BY <1>1, <2>1, <2>2 DEF OneRowEach
  <2>4. ASSUME NEW o \in Clerks PROVE KeepsName(o)'
    <3>1. CASE o = c
      BY <1>2, <3>1 DEF KeepsName, NoOrder
    <3>2. CASE o # c
      <4>1. clerk'[o] = clerk[o]
        BY <1>2, <3>2
      <4>2. clerk[o].at \in {"edit", "remove"} => clerk[o].id \in EntryIds
        BY OrderShapes DEF EditOrder, RemoveOrder
      <4>3. \A j \in EntryIds : entry'[j].name = entry[j].name
        BY <1>1
      <4> QED
        BY <2>1, <4>1, <4>2, <4>3 DEF KeepsName
    <3> QED
      BY <3>1, <3>2
  <2>5. CreatesAlone(c)'
    BY <1>2 DEF CreatesAlone, NoOrder
  <2>6. ASSUME NEW o \in Clerks \ {c} PROVE CreatesAlone(o)'
    <3>1. \A p \in Clerks : \A n : BeingCreated(p, n)' => BeingCreated(p, n)
      BY <1>2 DEF BeingCreated, NoOrder
    <3> QED
      BY <1>1, <1>2, <2>1, <2>2, <3>1, StillAlone
  <2> QED
    BY <2>3, <2>4, <2>5, <2>6
<1> QED
  BY <1>4, <1>5, <1>6, <1>7

\* A row of which every column is written.
LEMMA Rewritten ==
  ASSUME NEW old \in EntryRow, NEW name, NEW note, NEW state
  PROVE  [old EXCEPT !.name = name, !.note = note, !.state = state]
           = [name |-> name, note |-> note, state |-> state]
<1>1. PICK a \in Names, b \in Notes, d \in {"live", "removed", "dropped"} : old = [name |-> a, note |-> b, state |-> d]
  BY DEF EntryRow
<1>2. [[name |-> a, note |-> b, state |-> d] EXCEPT !.name = name]
        = [name |-> name, note |-> b, state |-> d]
  OBVIOUS
<1>3. [[name |-> name, note |-> b, state |-> d] EXCEPT !.note = note]
        = [name |-> name, note |-> note, state |-> d]
  OBVIOUS
<1>4. [[name |-> name, note |-> note, state |-> d] EXCEPT !.state = state]
        = [name |-> name, note |-> note, state |-> state]
  OBVIOUS
<1> QED
  BY <1>1, <1>2, <1>3, <1>4

\* An edit writes the fields it names over the row it found.
LEMMA SavesEditStep ==
  ASSUME RegistryInv, NEW c \in Clerks, SavesEdit(c)
  PROVE  RegistryInv'
<1> USE DEF RegistryInv
<1>1. clerk[c].at = "edit" /\ clerk[c] \in EditOrder
  BY OrderShapes DEF SavesEdit
<1>2. PICK i, copy, change : i = clerk[c].id /\ copy = clerk[c].copy /\ change = clerk[c].change
  OBVIOUS
<1>3. i \in EntryIds /\ copy \in EntryRow /\ change \in Change /\ Holding(c, i)
  BY <1>1, <1>2 DEF EditOrder, Holding
<1> DEFINE new  == MergedEntry(copy, change)
           said == [name  |-> Said(change.name, told[i].name), note |-> Said(change.note, told[i].note),
                    state |-> IF change.active = Unsaid THEN told[i].state ELSE Flag(change.active)]
<1>4. CASE ~ Exists(i) \/ Refused(new.name, i)
  BY <1>2, <1>4, OrderEnds DEF SavesEdit
<1>5. CASE ~ (~ Exists(i) \/ Refused(new.name, i))
  <2>1. told[i] \in EntryRow /\ told \in Seq(EntryRow) /\ i \in DOMAIN told
    BY <1>3, Rows DEF RegistryShape, RegistriesTypeOK
  <2>2. /\ Turn(c, NoOrder) /\ UNCHANGED <<table, orders, met>>
        /\ entry' = [entry EXCEPT ![i] = new]
        /\ told' = [told EXCEPT ![i].name = Said(change.name, @),
                                ![i].note = Said(change.note, @),
                                ![i].state = IF change.active = Unsaid THEN @ ELSE Flag(change.active)]
    BY <1>2, <1>5 DEF SavesEdit
  <2>3. new \in EntryRow
    BY <1>3 DEF EntryRow, Change, MergedEntry, Said, Flag
  <2>4. said \in EntryRow
    BY <1>3, <2>1 DEF EntryRow, Change, Said, Flag
  <2>5. told' = [told EXCEPT ![i] = said]
    <3>1. said = [told[i] EXCEPT !.name = Said(change.name, @), !.note = Said(change.note, @),
                                 !.state = IF change.active = Unsaid THEN @ ELSE Flag(change.active)]
      <4>1. PICK n, m, d : /\ n = Said(change.name, told[i].name) /\ m = Said(change.note, told[i].note)
                           /\ d = IF change.active = Unsaid THEN told[i].state ELSE Flag(change.active)
        OBVIOUS
      <4>2. PICK old \in EntryRow : old = told[i]
        BY <2>1
      <4>3. [old EXCEPT !.name = n, !.note = m, !.state = d] = [name |-> n, note |-> m, state |-> d]
        BY Rewritten, Zenon
      <4> QED
        BY <4>1, <4>2, <4>3, Zenon
    <3> QED
      BY <2>1, <2>2, <3>1
  <2>6. i \notin met => new = said
    BY <1>2, <1>3 DEF RowsHeldOnce, MergedEntry
  <2>7. table.looks /\ ~ table.unique => new.name = entry[i].name
    BY <1>1, <1>2 DEF LooksSuffice, KeepsName, MergedEntry, Said
  <2>8. table.unique => \A j \in EntryIds \ {i} : Exists(j) => entry[j].name # new.name
    BY <1>5 DEF Refused
  <2> HIDE DEF new, said
  <2> QED
    BY <1>3, <1>5, <2>2, <2>3, <2>4, <2>5, <2>6, <2>7, <2>8, WritesRow
<1> QED
  BY <1>4, <1>5

\* A table with an index keeps the rows that are removed, and the one whose creation
\* only looks drops them.
LEMMA Removals ==
  ASSUME NEW t \in Tables
  PROVE  /\ t.removal \in {"flag", "mark", "drop"}
         /\ t.unique => t.removal = "flag"
         /\ t.looks /\ ~ t.unique => t.removal = "drop"
BY DEF Tables, FinancialPeriods, FinancialProfiles, Subcategories, CategoryTable, BankingEntities,
       Empresas, NewsItems, SupportRequests, CashArqueos

\* A removal writes a flag or a mark, or takes the row.
LEMMA SavesRemovalStep ==
  ASSUME RegistryInv, NEW c \in Clerks, SavesRemoval(c)
  PROVE  RegistryInv'
<1> USE DEF RegistryInv
<1>1. clerk[c].at = "remove" /\ clerk[c] \in RemoveOrder
  BY OrderShapes DEF SavesRemoval
<1>2. PICK i, copy : i = clerk[c].id /\ copy = clerk[c].copy
  OBVIOUS
<1>3. i \in EntryIds /\ copy \in EntryRow /\ Holding(c, i) /\ entry[i] \in EntryRow /\ told[i] \in EntryRow
  BY <1>1, <1>2, Rows DEF RemoveOrder, Holding
<1>4. PICK new : new = Cleared(i, copy)
  OBVIOUS
<1> DEFINE said == [told[i] EXCEPT !.state = new.state]
<1>5. CASE table.removal = "flag" /\ Refused(new.name, i)
  BY <1>2, <1>4, <1>5, OrderEnds DEF SavesRemoval
<1>6. CASE ~ (table.removal = "flag" /\ Refused(new.name, i))
  <2>1. /\ Turn(c, NoOrder) /\ UNCHANGED <<table, orders, met>>
        /\ entry' = [entry EXCEPT ![i] = new]
        /\ told' = [told EXCEPT ![i].state = new.state]
    BY <1>2, <1>4, <1>6 DEF SavesRemoval
  <2>2. /\ table.removal \in {"flag", "mark", "drop"}
        /\ table.unique => table.removal = "flag"
        /\ table.looks /\ ~ table.unique => table.removal = "drop"
    BY Removals DEF RegistryShape, RegistriesTypeOK
  <2>3. /\ table.removal = "flag" => new = [copy EXCEPT !.state = "removed"]
        /\ table.removal = "mark" => new = [entry[i] EXCEPT !.state = "removed"]
        /\ table.removal = "drop" => new = [entry[i] EXCEPT !.state = "dropped"]
    BY <1>4 DEF Cleared
  <2>4. new \in EntryRow /\ said \in EntryRow
    BY <1>3, <2>2, <2>3 DEF EntryRow
  <2>5. told' = [told EXCEPT ![i] = said]
    BY <1>3, <2>1
  <2>6. i \notin met => entry[i] = told[i] /\ copy = entry[i]
    BY <1>2, <1>3 DEF RowsHeldOnce
  <2>7. i \notin met => new = said
    BY <1>3, <2>2, <2>3, <2>6 DEF EntryRow
  <2>8. table.unique => \A j \in EntryIds \ {i} : Exists(j) => entry[j].name # new.name
    BY <1>6, <2>2 DEF Refused
  <2>9. table.looks /\ ~ table.unique => new.name = entry[i].name /\ new.state = "dropped"
    BY <1>3, <2>2, <2>3 DEF EntryRow
  <2> HIDE DEF said
  <2> QED
    BY <1>3, <2>1, <2>4, <2>5, <2>7, <2>8, <2>9, WritesRow
<1> QED
  BY <1>5, <1>6

-----------------------------------------------------------------------------
(* The theorems.                                                           *)

\* Every request keeps the invariant of the tables.
LEMMA RegistryStep == RegistryInv /\ [RegistriesNext]_registriesVars => RegistryInv'
<1> SUFFICES ASSUME RegistryInv, [RegistriesNext]_registriesVars PROVE RegistryInv'
  OBVIOUS
<1>1. ASSUME NEW c \in Clerks, NEW name \in Names, NEW note \in Notes, OrdersEntry(c, name, note)
      PROVE  RegistryInv'
  BY <1>1, OrdersEntryStep
<1>2. ASSUME NEW c \in Clerks, NEW i \in EntryIds, NEW change \in Change, FindsToEdit(c, i, change)
      PROVE  RegistryInv'
  <2> DEFINE what == [at |-> "edit", id |-> i, copy |-> entry[i], change |-> change]
  <2>1. FindsEntry(c, i, what) /\ (table.looks => change.name = Unsaid)
    BY <1>2 DEF FindsToEdit
  <2>2. what \in EditOrder
    BY Rows DEF EditOrder, RegistryInv
  <2>3. what.id = i /\ what.copy = entry[i] /\ what.change = change
    OBVIOUS
  <2> HIDE DEF what
  <2> QED
    BY <2>1, <2>2, <2>3, FindsEntryStep
<1>3. ASSUME NEW c \in Clerks, NEW i \in EntryIds, FindsToRemove(c, i) PROVE RegistryInv'
  <2> DEFINE what == [at |-> "remove", id |-> i, copy |-> entry[i]]
  <2>1. FindsEntry(c, i, what)
    BY <1>3 DEF FindsToRemove
  <2>2. what \in RemoveOrder
    BY Rows DEF RemoveOrder, RegistryInv
  <2>3. what.id = i /\ what.copy = entry[i] /\ what.at = "remove"
    OBVIOUS
  <2> HIDE DEF what
  <2> QED
    BY <2>1, <2>2, <2>3, FindsEntryStep
<1>4. ASSUME NEW c \in Clerks, OrderFails(c) PROVE RegistryInv'
  BY <1>4, OrderEnds DEF OrderFails
<1>5. CASE UNCHANGED registriesVars
  BY <1>5 DEF registriesVars, RegistryInv, RegistryShape, RegistriesTypeOK, RowsHeldOnce, IndexHolds,
              LooksSuffice, OneRowEach, KeepsName, CreatesAlone, Named, Holding, BeingCreated, Exists,
              EntryIds, CreateOrder, EditOrder, RemoveOrder
<1> QED
  BY <1>1, <1>2, <1>3, <1>4, <1>5, LooksForNameStep, InsertsEntryStep, SavesEditStep, SavesRemovalStep
     DEF RegistriesNext

\* The invariant holds of the empty table.
LEMMA RegistryStart == RegistriesInit => RegistryInv
<1> SUFFICES ASSUME RegistriesInit PROVE RegistryInv
  OBVIOUS
<1>1. /\ table \in Tables /\ entry = <<>> /\ told = <<>> /\ met = {} /\ orders = 0
      /\ clerk = [c \in Clerks |-> NoOrder] /\ EntryIds = {}
  BY DEF RegistriesInit, EntryIds
<1>2. RegistryShape
  BY <1>1, RegistriesAssumption DEF RegistryShape, RegistriesTypeOK, NoOrder
<1>3. \A c \in Clerks : clerk[c].at = "idle"
  BY <1>1 DEF NoOrder
<1> QED
  BY <1>1, <1>2, <1>3 DEF RegistryInv, RowsHeldOnce, IndexHolds, LooksSuffice, OneRowEach, KeepsName, CreatesAlone

\* The tables and the requests on them have their types.
THEOREM RegistriesType == RegistriesSpec => []RegistriesTypeOK
<1>1. RegistryInv => RegistriesTypeOK
  BY DEF RegistryInv, RegistryShape
<1> QED
  BY <1>1, RegistryStart, RegistryStep, PTL DEF RegistriesSpec

\* However many requests run at once on however many rows, a table that has an index
\* holds one row of a name; one whose creation only looks does too, except of a name
\* on which two creations overlapped.
THEOREM TablesHaveNoTwins == RegistriesSpec => []NoTwins
<1>1. RegistryInv => NoTwins
  <2> SUFFICES ASSUME RegistryInv, table.unique \/ table.looks, NEW i \in EntryIds, NEW j \in EntryIds,
                      Exists(i), Exists(j), entry[i].name = entry[j].name,
                      table.unique \/ entry[i].name \notin met
               PROVE  i = j
    BY DEF NoTwins
  <2>1. entry[i].name \in Names
    BY Rows DEF RegistryInv, EntryRow
  <2>2. CASE table.unique
    BY <2>2 DEF RegistryInv, IndexHolds
  <2>3. CASE ~ table.unique
    <3>1. OneRowEach /\ entry[i].name \in Names \ met
      BY <2>1, <2>3 DEF RegistryInv, LooksSuffice
    <3>2. Named(i, entry[i].name) /\ Named(j, entry[i].name)
      BY DEF Named
    <3> QED
      BY <3>1, <3>2 DEF OneRowEach
  <2> QED
    BY <2>2, <2>3
<1> QED
  BY <1>1, RegistryStart, RegistryStep, PTL DEF RegistriesSpec

\* In every table a row on which no two requests overlapped is as the answers given
\* so far say: an edit writes the fields it names and no other, a removal the state.
THEOREM AnswersHold == RegistriesSpec => []LastAnswerHolds
<1>1. RegistryInv => LastAnswerHolds
  BY DEF RegistryInv, RowsHeldOnce, LastAnswerHolds
<1> QED
  BY <1>1, RegistryStart, RegistryStep, PTL DEF RegistriesSpec

-----------------------------------------------------------------------------
(***************************************************************************)
(* Codes to reset a password                                               *)
(***************************************************************************)

CodeRow == [consumed : BOOLEAN, until : Nat, attempts : Nat]
Guess   == [at : {"save"}, code : DOMAIN code, right : BOOLEAN, attempts : Nat, late : BOOLEAN]

CodesShape ==
  /\ clock \in Nat
  /\ \E n \in Nat : code \in [1 .. n -> CodeRow] /\ wrong \in [1 .. n -> Nat]
  /\ verifier \in [Verifiers -> {Free} \cup Guess]
  /\ \A t \in token : t.of \in DOMAIN code

\* The row of a code counts its failures, and is open only below the maximum, if no
\* verification took the count of another back.
CountsAgree ==
  \A c \in DOMAIN code \ overrun :
    /\ wrong[c] = code[c].attempts
    /\ code[c].attempts <= OTP_MAX_ATTEMPTS
    /\ Open(c) => code[c].attempts < OTP_MAX_ATTEMPTS

\* A verification that was not overtaken read the count as it still is, when it was
\* below the maximum, and the code it read has no token.
GuessIsCurrent ==
  \A v \in Verifiers :
    verifier[v].at = "save" /\ ~ verifier[v].late /\ verifier[v].code \notin overrun =>
    LET c == verifier[v].code IN
      /\ verifier[v].attempts = code[c].attempts
      /\ code[c].attempts < OTP_MAX_ATTEMPTS
      /\ \A t \in token : t.of # c

\* A code with a token is closed, and has one.
TokensAreSpent ==
  /\ \A t \in token : t.of \notin overrun => ~ Open(t.of)
  /\ CodeBuysOneToken

CodesInv == CodesShape /\ CountsAgree /\ GuessIsCurrent /\ TokensAreSpent

\* What the proofs use of the assumption on the constants.
LEMMA CodeConstants ==
  /\ OTP_TTL \in Nat /\ OTP_MAX_ATTEMPTS \in Nat /\ OTP_MAX_ATTEMPTS > 0
  /\ MaxCodes \in Nat /\ MaxClock \in Nat
BY CodesAssumption

\* A non-empty set of numbers up to n has a largest element.
LEMMA LargestElement ==
  ASSUME NEW n \in Nat, NEW T \in SUBSET (1 .. n), T # {}
  PROVE  \E x \in T : \A y \in T : y <= x
<1> DEFINE D == {n - x : x \in T}
<1>1. D \in SUBSET Nat /\ D # {}
  <2>1. \A x \in T : x \in Nat /\ n - x \in Nat
    OBVIOUS
  <2> QED
    BY <2>1
<1>2. PICK d \in D : \A e \in D : d <= e
  BY <1>1, LeastElement
<1>3. PICK x \in T : d = n - x
  BY <1>2
<1>4. \A y \in T : n - x <= n - y
  BY <1>2, <1>3
<1> QED
  BY <1>3, <1>4

\* The codes and their counts, one by one.
LEMMA CodeTypes ==
  ASSUME CodesShape
  PROVE  /\ DOMAIN wrong = DOMAIN code /\ DOMAIN code \subseteq Nat
         /\ code \in [DOMAIN code -> CodeRow] /\ wrong \in [DOMAIN code -> Nat]
BY DEF CodesShape

\* What a verification in progress holds.
LEMMA GuessTypes ==
  ASSUME CodesShape, NEW v \in Verifiers
  PROVE  /\ verifier[v] \in {Free} \cup Guess
         /\ verifier[v].at = "save" <=> verifier[v] \in Guess
<1>1. verifier[v] \in {Free} \cup Guess
  BY DEF CodesShape
<1> QED
  BY <1>1 DEF Free, Guess

\* A step that only closes codes, or forgets a verification, keeps the invariant.
LEMMA ClosesOnly ==
  ASSUME CodesInv, clock' \in Nat, UNCHANGED <<token, wrong, overrun>>,
         code' = code \/ code' = Closed,
         verifier' = verifier \/ \E v \in Verifiers : verifier' = [verifier EXCEPT ![v] = Free]
  PROVE  CodesInv'
<1> USE DEF CodesInv
<1>1. /\ DOMAIN code' = DOMAIN code /\ code' \in [DOMAIN code -> CodeRow]
      /\ \A c \in DOMAIN code : code'[c].attempts = code[c].attempts /\ (Open(c)' => Open(c))
  <2>1. code \in [DOMAIN code -> CodeRow]
    BY CodeTypes
  <2>2. CASE code' = code
    BY <2>1, <2>2 DEF Open
  <2>3. CASE code' = Closed
    BY <2>1, <2>3 DEF Open, Closed, CodeRow
  <2> QED
    BY <2>2, <2>3
<1>2. verifier' \in [Verifiers -> {Free} \cup Guess]
  BY DEF CodesShape
<1>3. \A v \in Verifiers : verifier'[v].at = "save" => verifier'[v] = verifier[v] /\ verifier[v].at = "save"
  BY DEF CodesShape, Free
<1>4. CodesShape'
  <2>1. Guess' = Guess
    BY <1>1 DEF Guess
  <2>2. PICK n \in Nat : code \in [1 .. n -> CodeRow] /\ wrong \in [1 .. n -> Nat]
    BY DEF CodesShape
  <2>3. code' \in [1 .. n -> CodeRow] /\ wrong' \in [1 .. n -> Nat]
    BY <1>1, <2>2
  <2>4. \A t \in token : t.of \in DOMAIN code'
    BY <1>1 DEF CodesShape
  <2> QED
    BY <1>2, <2>1, <2>2, <2>3, <2>4 DEF CodesShape
<1>5. CountsAgree'
  BY <1>1 DEF CountsAgree
<1>6. GuessIsCurrent'
  <2> SUFFICES ASSUME NEW v \in Verifiers, verifier'[v].at = "save",
                      ~ verifier'[v].late, verifier'[v].code \notin overrun
               PROVE  LET c == verifier'[v].code IN
                        /\ verifier'[v].attempts = code'[c].attempts
                        /\ code'[c].attempts < OTP_MAX_ATTEMPTS
                        /\ \A t \in token : t.of # c
    BY DEF GuessIsCurrent
  <2>1. verifier'[v] = verifier[v] /\ verifier[v].at = "save"
    BY <1>3
  <2>2. verifier[v].code \in DOMAIN code
    BY <2>1, GuessTypes DEF Guess
  <2> QED
    BY <1>1, <2>1, <2>2 DEF GuessIsCurrent
<1>7. TokensAreSpent'
  BY <1>1 DEF TokensAreSpent, CodeBuysOneToken, CodesShape
<1> QED
  BY <1>4, <1>5, <1>6, <1>7

\* A new code has no failures and no token.
LEMMA SavesCodeStep ==
  ASSUME CodesInv, NEW a \in Askers, SavesCode(a)
  PROVE  CodesInv'
<1> USE DEF CodesInv
<1>1. PICK n \in Nat : code \in [1 .. n -> CodeRow] /\ wrong \in [1 .. n -> Nat]
  BY DEF CodesShape
<1>2. DOMAIN code = 1 .. n /\ Cardinality(DOMAIN code) = n
  BY <1>1, FS_Interval
<1> DEFINE new == [consumed |-> FALSE, until |-> clock + OTP_TTL, attempts |-> 0]
<1>3. /\ code' = [k \in 1 .. n \cup {n + 1} |-> IF k = n + 1 THEN new ELSE code[k]]
      /\ wrong' = [k \in 1 .. n \cup {n + 1} |-> IF k = n + 1 THEN 0 ELSE wrong[k]]
      /\ UNCHANGED <<clock, verifier, token, overrun>>
  BY <1>2 DEF SavesCode
<1>4. 1 .. n \cup {n + 1} = 1 .. n + 1 /\ n + 1 \in Nat /\ n + 1 \notin 1 .. n
  BY <1>1
<1>5. new \in CodeRow
  BY CodeConstants DEF CodeRow, CodesShape
<1>6. code' \in [1 .. n + 1 -> CodeRow] /\ wrong' \in [1 .. n + 1 -> Nat]
  BY <1>1, <1>3, <1>4, <1>5
<1>7. /\ code'[n + 1] = new /\ wrong'[n + 1] = 0
      /\ \A c \in 1 .. n : code'[c] = code[c] /\ wrong'[c] = wrong[c] /\ (Open(c)' <=> Open(c))
  BY <1>3, <1>4 DEF Open
<1>8. DOMAIN code' = 1 .. n + 1 /\ DOMAIN code \subseteq DOMAIN code'
  BY <1>2, <1>4, <1>6
<1>9. CodesShape'
  <2>1. Guess \subseteq Guess'
    BY <1>8 DEF Guess
  <2>2. verifier' \in [Verifiers -> ({Free} \cup Guess)']
    BY <1>3, <2>1 DEF CodesShape
  <2>3. \A t \in token' : t.of \in DOMAIN code'
    BY <1>3, <1>8 DEF CodesShape
  <2> QED
    BY <1>3, <1>4, <1>6, <2>2, <2>3 DEF CodesShape
<1>10. CountsAgree'
  <2>1. \A c \in (1 .. n) \ overrun : wrong'[c] = code'[c].attempts /\ code'[c].attempts <= OTP_MAX_ATTEMPTS
                          /\ (Open(c)' => code'[c].attempts < OTP_MAX_ATTEMPTS)
    BY <1>2, <1>7 DEF CountsAgree
  <2>2. /\ wrong'[n + 1] = code'[n + 1].attempts /\ code'[n + 1].attempts <= OTP_MAX_ATTEMPTS
        /\ code'[n + 1].attempts < OTP_MAX_ATTEMPTS
    BY <1>7, CodeConstants
  <2>3. \A c \in DOMAIN code' \ overrun' : c \in (1 .. n) \ overrun \/ c = n + 1
    BY <1>3, <1>4, <1>8
  <2> QED
    BY <2>1, <2>2, <2>3 DEF CountsAgree
<1>11. GuessIsCurrent'
  <2>1. \A v \in Verifiers : verifier[v].at = "save" => verifier[v].code \in 1 .. n
    BY <1>2, GuessTypes DEF Guess
  <2> QED
    BY <1>3, <1>7, <2>1 DEF GuessIsCurrent
<1>12. TokensAreSpent'
  BY <1>2, <1>3, <1>7 DEF TokensAreSpent, CodeBuysOneToken, CodesShape
<1> QED
  BY <1>9, <1>10, <1>11, <1>12

\* What a verification finds is open.
LEMMA FindsCodeStep ==
  ASSUME CodesInv, NEW v \in Verifiers, NEW guess, FindsCode(v, guess)
  PROVE  CodesInv'
<1> USE DEF CodesInv
<1> DEFINE valid == {c \in DOMAIN code : Valid(c)}
<1>1. UNCHANGED <<clock, code, token, wrong, overrun>>
  BY DEF FindsCode
<1>2. CASE valid = {}
  BY <1>1, <1>2, ClosesOnly DEF FindsCode, CodesShape
<1>3. CASE valid # {}
  <2>1. PICK c : c = CHOOSE n \in valid : \A o \in valid : o <= n
    OBVIOUS
  <2>2. c \in valid
    <3>1. PICK n \in Nat : DOMAIN code = 1 .. n
      BY DEF CodesShape
    <3>2. valid \in SUBSET (1 .. n)
      BY <3>1
    <3> HIDE DEF valid
    <3>3. \E m \in valid : \A o \in valid : o <= m
      BY <1>3, <3>1, <3>2, LargestElement
    <3> QED
      BY <2>1, <3>3
  <2>3. c \in DOMAIN code /\ Open(c)
    BY <2>2 DEF Valid
  <2>4. PICK g : g = [at |-> "save", code |-> c, right |-> guess = c,
                 attempts |-> code[c].attempts, late |-> FALSE]
    OBVIOUS
  <2>5. verifier' = [verifier EXCEPT ![v] = g]
    BY <1>3, <2>1, <2>4 DEF FindsCode
  <2>6. code[c].attempts \in Nat
    BY <2>3, CodeTypes DEF CodeRow
  <2>7. g \in Guess /\ g.code = c /\ g.attempts = code[c].attempts
    <3>1. (guess = c) \in BOOLEAN
      OBVIOUS
    <3> QED
      BY <2>3, <2>4, <2>6, <3>1 DEF Guess
  <2>8. Guess' = Guess
    BY <1>1 DEF Guess
  <2>9. CodesShape'
    BY <1>1, <2>5, <2>7, <2>8 DEF CodesShape
  <2>10. CountsAgree' /\ TokensAreSpent'
    BY <1>1 DEF CountsAgree, TokensAreSpent, CodeBuysOneToken, Open
  <2>11. GuessIsCurrent'
    <3>1. c \notin overrun => code[c].attempts < OTP_MAX_ATTEMPTS /\ \A t \in token : t.of # c
      BY <2>3 DEF CountsAgree, TokensAreSpent
    <3>2. verifier'[v] = g /\ \A w \in Verifiers \ {v} : verifier'[w] = verifier[w]
      BY <2>5 DEF CodesShape
    <3> QED
      BY <1>1, <2>7, <3>1, <3>2 DEF GuessIsCurrent
  <2> QED
    BY <2>9, <2>10, <2>11
<1> QED
  BY <1>2, <1>3

\* A verification that ends counts its failure, or spends the code for a token, and
\* the others of that code are overtaken.
LEMMA SavesGuessStep ==
  ASSUME CodesInv, NEW v \in Verifiers, SavesGuess(v)
  PROVE  CodesInv'
<1> USE DEF CodesInv
<1>1. verifier[v] \in Guess /\ verifier[v].at = "save"
  BY GuessTypes DEF SavesGuess
<1>2. PICK c, right : c = verifier[v].code /\ right = verifier[v].right
  OBVIOUS
<1>3. PICK more : more = IF right THEN 0 ELSE 1
  OBVIOUS
<1>4. PICK attempts : attempts = verifier[v].attempts + more
  OBVIOUS
<1>5. PICK t : t = [of |-> c, until |-> clock + RESET_TOKEN_TTL, nth |-> Cardinality(token)]
  OBVIOUS
<1>6. /\ code' = [code EXCEPT ![c].attempts = attempts, ![c].consumed = Spent(right, attempts)]
      /\ wrong' = [wrong EXCEPT ![c] = @ + more]
      /\ token' = IF right THEN token \cup {t} ELSE token
      /\ verifier' = Overtaken(c, v)
      /\ overrun' = IF verifier[v].late THEN overrun \cup {c} ELSE overrun
      /\ clock' = clock
  BY <1>2, <1>3, <1>4, <1>5 DEF SavesGuess
<1>7. /\ c \in DOMAIN code /\ right \in BOOLEAN /\ code[c] \in CodeRow /\ wrong[c] \in Nat
      /\ verifier[v].attempts \in Nat /\ more \in {0, 1} /\ attempts \in Nat
  BY <1>1, <1>2, <1>3, <1>4, CodeTypes DEF Guess
<1>8. c \notin overrun' =>
        /\ wrong[c] = code[c].attempts /\ verifier[v].attempts = code[c].attempts
        /\ code[c].attempts < OTP_MAX_ATTEMPTS
        /\ \A s \in token : s.of # c
  BY <1>1, <1>2, <1>6, <1>7 DEF GuessIsCurrent, CountsAgree
<1>9. Spent(right, attempts) \in BOOLEAN /\ (~ Spent(right, attempts) => ~ right /\ attempts < OTP_MAX_ATTEMPTS)
  <2>1. attempts < OTP_MAX_ATTEMPTS \/ attempts >= OTP_MAX_ATTEMPTS
    BY <1>7, CodeConstants
  <2> QED
    BY <1>7, <2>1, CodeConstants DEF Spent, Exhausted
<1>10. /\ code' \in [DOMAIN code -> CodeRow] /\ DOMAIN code' = DOMAIN code
       /\ code'[c].attempts = attempts /\ code'[c].consumed = Spent(right, attempts)
       /\ \A d \in DOMAIN code \ {c} : code'[d] = code[d]
  <2>1. PICK saved : saved = [code[c] EXCEPT !.attempts = attempts, !.consumed = Spent(right, attempts)]
    OBVIOUS
  <2>2. code' = [code EXCEPT ![c] = saved]
    BY <1>6, <1>7, <2>1, CodeTypes
  <2>3. saved \in CodeRow /\ saved.attempts = attempts /\ saved.consumed = Spent(right, attempts)
    BY <1>7, <1>9, <2>1 DEF CodeRow
  <2> QED
    BY <1>7, <2>2, <2>3, CodeTypes
<1>11. /\ wrong' \in [DOMAIN code -> Nat] /\ wrong'[c] = wrong[c] + more
       /\ \A d \in DOMAIN code \ {c} : wrong'[d] = wrong[d]
  BY <1>6, <1>7, CodeTypes
<1>12. overrun \subseteq overrun'
  BY <1>6
<1>13. \A w \in Verifiers :
         \/ verifier'[w] = Free
         \/ /\ verifier[w] \in Guess /\ verifier[w].code = c
            /\ verifier'[w] = [verifier[w] EXCEPT !.late = TRUE]
         \/ verifier'[w] = verifier[w] /\ (verifier[w].at = "save" => verifier[w].code # c)
  BY <1>6, GuessTypes DEF Overtaken
<1>14. \A w \in Verifiers : verifier'[w] \in {Free} \cup Guess
  <2> SUFFICES ASSUME NEW w \in Verifiers PROVE verifier'[w] \in {Free} \cup Guess
    OBVIOUS
  <2>1. ASSUME NEW g \in Guess PROVE [g EXCEPT !.late = TRUE] \in Guess
    BY DEF Guess
  <2> QED
    BY <1>13, <2>1, GuessTypes
<1>15. CodesShape'
  <2>1. Guess' = Guess
    BY <1>10 DEF Guess
  <2>2. PICK n \in Nat : code \in [1 .. n -> CodeRow] /\ wrong \in [1 .. n -> Nat]
    BY DEF CodesShape
  <2>3. code' \in [1 .. n -> CodeRow] /\ wrong' \in [1 .. n -> Nat]
    BY <1>10, <1>11, <2>2
  <2>4. \A s \in token' : s.of \in DOMAIN code'
    BY <1>5, <1>6, <1>7, <1>10 DEF CodesShape
  <2>5. verifier' \in [Verifiers -> {Free} \cup Guess]
    BY <1>6, <1>14 DEF Overtaken
  <2> QED
    BY <1>6, <2>1, <2>2, <2>3, <2>4, <2>5 DEF CodesShape
<1>16. CountsAgree'
  <2> SUFFICES ASSUME NEW d \in DOMAIN code, d \notin overrun'
               PROVE  /\ wrong'[d] = code'[d].attempts
                      /\ code'[d].attempts <= OTP_MAX_ATTEMPTS
                      /\ ~ code'[d].consumed => code'[d].attempts < OTP_MAX_ATTEMPTS
    BY <1>10 DEF CountsAgree, Open
  <2>1. CASE d = c
    <3>1. wrong[c] + more = attempts /\ attempts <= OTP_MAX_ATTEMPTS
      BY <1>4, <1>7, <1>8, <2>1, CodeConstants DEF CodeRow
    <3> QED
      BY <1>9, <1>10, <1>11, <2>1, <3>1
  <2>2. CASE d # c
    BY <1>10, <1>11, <1>12, <2>2 DEF CountsAgree, Open
  <2> QED
    BY <2>1, <2>2
<1>17. GuessIsCurrent'
  <2> SUFFICES ASSUME NEW w \in Verifiers, verifier'[w].at = "save", ~ verifier'[w].late,
                      verifier'[w].code \notin overrun'
               PROVE  /\ verifier'[w].attempts = code'[verifier'[w].code].attempts
                      /\ code'[verifier'[w].code].attempts < OTP_MAX_ATTEMPTS
                      /\ \A s \in token' : s.of # verifier'[w].code
    BY DEF GuessIsCurrent
  <2>1. verifier'[w] # Free
    BY DEF Free
  <2>2. ~ (verifier[w] \in Guess /\ verifier'[w] = [verifier[w] EXCEPT !.late = TRUE])
    BY DEF Guess
  <2>3. verifier'[w] = verifier[w] /\ verifier[w].code # c /\ verifier[w].at = "save"
    BY <1>13, <2>1, <2>2
  <2>4. verifier[w].code \in DOMAIN code \ {c} /\ verifier[w].code \notin overrun
    BY <1>12, <2>3, GuessTypes DEF Guess
  <2>5. /\ verifier[w].attempts = code[verifier[w].code].attempts
        /\ code[verifier[w].code].attempts < OTP_MAX_ATTEMPTS
        /\ \A s \in token : s.of # verifier[w].code
    BY <2>3, <2>4 DEF GuessIsCurrent
  <2>6. \A s \in token' : s.of # verifier[w].code
    BY <1>5, <1>6, <2>4, <2>5
  <2> QED
    BY <1>10, <2>3, <2>4, <2>5, <2>6
<1>18. TokensAreSpent'
  <2>1. ASSUME NEW s \in token', s.of \notin overrun'
        PROVE  code'[s.of].consumed
    <3>1. CASE s \in token
      <4>1. s.of \in DOMAIN code \ {c} /\ ~ Open(s.of)
        BY <1>8, <1>12, <2>1, <3>1 DEF TokensAreSpent, CodesShape
      <4> QED
        BY <1>10, <4>1 DEF Open
    <3>2. CASE s \notin token
      <4>1. right /\ s = t
        BY <1>6, <1>7, <3>2
      <4> QED
        BY <1>5, <1>9, <1>10, <4>1
    <3> QED
      BY <3>1, <3>2
  <2>2. CodeBuysOneToken'
    <3> SUFFICES ASSUME NEW s \in token', NEW u \in token', s.of = u.of, s.of \notin overrun'
                 PROVE  s = u
      BY DEF CodeBuysOneToken
    <3>1. s.of \notin overrun
      BY <1>12
    <3>2. CASE s.of = c
      BY <1>5, <1>6, <1>8, <3>2
    <3>3. CASE s.of # c
      BY <1>5, <1>6, <3>1, <3>3 DEF TokensAreSpent, CodeBuysOneToken
    <3> QED
      BY <3>2, <3>3
  <2> QED
    BY <2>1, <2>2 DEF TokensAreSpent, Open
<1> QED
  BY <1>15, <1>16, <1>17, <1>18

\* Every step keeps the invariant of the codes.
LEMMA CodesStep == CodesInv /\ [CodesNext]_codesVars => CodesInv'
<1> SUFFICES ASSUME CodesInv, [CodesNext]_codesVars PROVE CodesInv'
  OBVIOUS
<1>1. clock \in Nat
  BY DEF CodesInv, CodesShape
<1>2. ASSUME NEW a \in Askers, AskCode(a) \/ ClosesCodes(a) \/ AskerFails(a) \/ \E t \in token : AskReset(a, t)
      PROVE  CodesInv'
  BY <1>1, <1>2, ClosesOnly DEF AskCode, ClosesCodes, AskerFails, AskReset
<1>3. ASSUME NEW v \in Verifiers, VerifierFails(v) PROVE CodesInv'
  BY <1>1, <1>3, ClosesOnly DEF VerifierFails
<1>4. CASE TimePasses
  BY <1>1, <1>4, ClosesOnly DEF TimePasses
<1>5. CASE UNCHANGED codesVars
  BY <1>1, <1>5, ClosesOnly DEF codesVars
<1> QED
  BY <1>2, <1>3, <1>4, <1>5, SavesCodeStep, FindsCodeStep, SavesGuessStep DEF CodesNext

\* There are no codes to begin with.
LEMMA CodesStart == CodesInit => CodesInv
<1> SUFFICES ASSUME CodesInit PROVE CodesInv
  OBVIOUS
<1>1. /\ clock = 0 /\ code = <<>> /\ wrong = <<>> /\ token = {} /\ DOMAIN code = {}
      /\ verifier = [v \in Verifiers |-> Free]
  BY DEF CodesInit
<1>2. code \in [1 .. 0 -> CodeRow] /\ wrong \in [1 .. 0 -> Nat]
  BY <1>1
<1>3. \A v \in Verifiers : verifier[v].at # "save"
  BY <1>1 DEF Free
<1> QED
  BY <1>1, <1>2, <1>3 DEF CodesInv, CodesShape, CountsAgree, GuessIsCurrent, TokensAreSpent, CodeBuysOneToken

\* However many verifications, requests for codes and changes of the password run at
\* once, a code is exchanged for a token once, unless a verification saved it after
\* another had saved it since the first one's read.
THEOREM CodesBuyOneToken == CodesSpec => []CodeBuysOneToken
<1>1. CodesInv => CodeBuysOneToken
  BY DEF CodesInv, TokensAreSpent
<1> QED
  BY <1>1, CodesStart, CodesStep, PTL DEF CodesSpec

\* With the same exception no code is guessed at more often than the attempts allow,
\* also when a verification opens a code again that was closed meanwhile.
THEOREM CodesBoundGuesses == CodesSpec => []GuessesAreBounded
<1>1. CodesInv => GuessesAreBounded
  BY DEF CodesInv, CountsAgree, GuessesAreBounded, CodesShape, CodeRow
<1> QED
  BY <1>1, CodesStart, CodesStep, PTL DEF CodesSpec

-----------------------------------------------------------------------------
(***************************************************************************)
(* Accounts, in the database and in Keycloak                               *)
(***************************************************************************)

(* What a request holds, by the step it is at.                             *)

Creation == [at : {"account", "grant", "insert", "undo"}, user : Users, mail : Mails, active : BOOLEAN]
Update   == [at : {"compare", "mail", "load"}, user : Users, dto : UpdateUserDto]
Save     == [at : {"save"}, user : Users, dto : UpdateUserDto, copy : Row]
Plain    == [at : {"forget", "token", "password", "find"}, user : Users]
Switch   == [at : {"enable", "revoke", "status"}, user : Users, active : BOOLEAN, sure : BOOLEAN]
Wish     == [at : {"diff", "roles"}, user : Users, roles : SUBSET ALLOWED_REALM_ROLES]
Exchange == [at : {"remove", "assign"}, user : Users, roles : SUBSET ALLOWED_REALM_ROLES,
             drop : SUBSET ALLOWED_REALM_ROLES, add : SUBSET ALLOWED_REALM_ROLES]
Login    == [at : {"login"}, user : Users, roles : SUBSET ALLOWED_REALM_ROLES]
Verify   == [at : {"verify"}, user : Users, renamed : BOOLEAN]
Keep     == [at : {"keep"}, user : Users, copy : Row]

Order == Creation \cup Update \cup Save \cup Plain \cup Switch \cup Wish \cup Exchange
           \cup Login \cup Verify \cup Keep

On(r, u) == request[r] # Done /\ request[r].user = u

AccountsShape ==
  /\ account \in [Users -> {None} \cup Account]
  /\ row \in [Users -> {None} \cup Row]
  /\ profile \in [Users -> {None} \cup Row]
  /\ session \in [Users -> Nat]
  /\ request \in [Requests -> {Done} \cup Order]
  /\ \A r \in Requests : request[r].at = "mail" => request[r].dto.mail # None

-----------------------------------------------------------------------------
(* Registrations.                                                          *)

Halfway == {"grant", "insert", "undo"}
Updating == {"compare", "mail", "load", "save", "forget", "enable", "revoke", "status", "diff",
             "remove", "assign", "roles", "verify", "password", "find", "keep"}

\* A user with a row has an account; an account without a row belongs to the one
\* registration that made it, until it inserts the row or takes the account back, or
\* to nobody if that failed; every other change is of a user with a row.
Halves ==
  /\ \A u \in Users : row[u] # None => account[u] # None
  /\ \A u \in Users : row[u] = None => profile[u] = None
  /\ \A r \in Requests : request[r].at \in Halfway =>
       LET u == request[r].user IN
         /\ account[u] # None /\ row[u] = None
         /\ account[u].mail = request[r].mail
         /\ request[r].at = "insert" => account[u].roles = {"user"}
         /\ \A o \in Requests : request[o].at \in Halfway /\ request[o].user = u => o = r
  /\ \A r \in Requests : request[r].at \in Updating => row[request[r].user] # None
  /\ \A u \in Users \ stranded : account[u] # None /\ row[u] = None =>
       \E r \in Requests : request[r].at \in Halfway /\ request[r].user = u

-----------------------------------------------------------------------------
(* Deactivations.                                                          *)

\* A deactivation that nobody contradicts finds no activation under way; from its
\* first step on the account is disabled, and before its last it has no session.
Locks ==
  /\ \A u \in banned :
       /\ u \in Users /\ row[u] # None
       /\ ~ account[u].enabled /\ session[u] = 0 /\ Changing(u, TRUE) = {}
  /\ \A u \in Users : \A r \in Changing(u, FALSE) : request[r].sure =>
       /\ Changing(u, TRUE) = {}
       /\ request[r].at \in {"revoke", "status"} => ~ account[u].enabled
       /\ request[r].at = "status" => session[u] = 0

-----------------------------------------------------------------------------
(* Updates.                                                                *)

\* How far account, row and cached profile of a user agree while the one request
\* on the user is q.
Agrees(acct, rw, prof, q) ==
  /\ acct.mail = IF q.at \in {"load", "save"} THEN Given(q.dto.mail, rw.mail) ELSE rw.mail
  /\ q.at \in {"save", "keep"} => q.copy = rw
  /\ "user" \in acct.roles
  /\ q.at \in {"diff", "remove", "assign", "roles"} => "user" \in q.roles
  /\ q.at \notin {"assign", "roles"} => acct.roles = rw.roles
  /\ q.at = "remove" => q.drop = acct.roles \ q.roles /\ q.add = q.roles \ acct.roles
  /\ q.at = "assign" => acct.roles \cup q.add = q.roles
  /\ q.at \in {"roles", "login"} => acct.roles = q.roles
  /\ q.at # "forget" => prof \in {None, rw}

\* Nobody overlaps on a user who is not shaken, and the stores of one who is not
\* stranded either agree as far as the request under way has come.
Agreement ==
  \A u \in Users \ shaken :
    /\ \A r, o \in Requests : On(r, u) /\ On(o, u) => r = o
    /\ u \notin stranded /\ row[u] # None =>
         /\ \A r \in Requests : On(r, u) => Agrees(account[u], row[u], profile[u], request[r])
         /\ (\A r \in Requests : ~ On(r, u)) => Agrees(account[u], row[u], profile[u], Done)

AccountsInv == AccountsShape /\ Halves /\ Locks /\ Agreement

-----------------------------------------------------------------------------
(* One step of one request.                                                *)

\* What a request holds, by the step it is at.
LEMMA OrderKinds ==
  ASSUME AccountsShape, NEW r \in Requests
  PROVE  /\ request[r] \in {Done} \cup Order
         /\ request[r] = Done <=> request[r].at = "done"
         /\ request[r] # Done => request[r].user \in Users
         /\ request[r].at \in {"account", "grant", "insert", "undo"} => request[r] \in Creation
         /\ request[r].at \in {"compare", "mail", "load"} => request[r] \in Update
         /\ request[r].at = "save" => request[r] \in Save
         /\ request[r].at \in {"forget", "token", "password", "find"} => request[r] \in Plain
         /\ request[r].at \in {"enable", "revoke", "status"} => request[r] \in Switch
         /\ request[r].at \in {"diff", "roles"} => request[r] \in Wish
         /\ request[r].at \in {"remove", "assign"} => request[r] \in Exchange
         /\ request[r].at = "login" => request[r] \in Login
         /\ request[r].at = "verify" => request[r] \in Verify
         /\ request[r].at = "keep" => request[r] \in Keep
<1> DEFINE x == request[r]
<1>1. x \in {Done} \cup Order
  BY DEF AccountsShape
<1> HIDE DEF x
<1>2. \/ x = Done /\ x.at = "done"
      \/ x \in Creation /\ x.at \in {"account", "grant", "insert", "undo"} /\ x.user \in Users
      \/ x \in Update /\ x.at \in {"compare", "mail", "load"} /\ x.user \in Users
      \/ x \in Save /\ x.at = "save" /\ x.user \in Users
      \/ x \in Plain /\ x.at \in {"forget", "token", "password", "find"} /\ x.user \in Users
      \/ x \in Switch /\ x.at \in {"enable", "revoke", "status"} /\ x.user \in Users
      \/ x \in Wish /\ x.at \in {"diff", "roles"} /\ x.user \in Users
      \/ x \in Exchange /\ x.at \in {"remove", "assign"} /\ x.user \in Users
      \/ x \in Login /\ x.at = "login" /\ x.user \in Users
      \/ x \in Verify /\ x.at = "verify" /\ x.user \in Users
      \/ x \in Keep /\ x.at = "keep" /\ x.user \in Users
  <2>1. CASE x = Done
    BY <2>1 DEF Done
  <2>2. CASE x \in Creation \cup Update \cup Save
    BY <2>2 DEF Creation, Update, Save
  <2>3. CASE x \in Plain \cup Switch \cup Wish
    BY <2>3 DEF Plain, Switch, Wish
  <2>4. CASE x \in Exchange \cup Login \cup Verify \cup Keep
    BY <2>4 DEF Exchange, Login, Verify, Keep
  <2> QED
    BY <1>1, <2>1, <2>2, <2>3, <2>4 DEF Order
<1>3. x.at \in {"account", "grant", "insert", "undo", "compare", "mail", "load", "save", "forget", "token",
                "password", "find", "enable", "revoke", "status", "diff", "roles", "remove", "assign",
                "login", "verify", "keep", "done"}
  BY <1>2
<1>4. x = Done => x.at = "done"
  BY DEF Done
<1> QED
  BY <1>1, <1>2, <1>4 DEF x

\* A step of r leaves what it does next, and the account, row, cached profile and
\* number of sessions of its user.
Moves(r, q, a, w, p, s) ==
  /\ request' = [request EXCEPT ![r] = q]
  /\ account' = [account EXCEPT ![request[r].user] = a]
  /\ row' = [row EXCEPT ![request[r].user] = w]
  /\ profile' = [profile EXCEPT ![request[r].user] = p]
  /\ session' = [session EXCEPT ![request[r].user] = s]
  /\ shaken \subseteq shaken' /\ stranded \subseteq stranded'

IsMove(r, q, a, w, p, s) ==
  /\ request[r] # Done
  /\ q \in {Done} \cup Order /\ (q # Done => q.user = request[r].user)
  /\ q.at = "mail" => q.dto.mail # None
  /\ a \in {None} \cup Account /\ w \in {None} \cup Row /\ p \in {None} \cup Row
  /\ s \in Nat

\* The values after a step, one by one.
LEMMA Moved ==
  ASSUME AccountsShape, NEW r \in Requests, NEW q, NEW a, NEW w, NEW p, NEW s,
         IsMove(r, q, a, w, p, s), Moves(r, q, a, w, p, s), NEW u, u = request[r].user
  PROVE  /\ u \in Users /\ AccountsShape'
         /\ account'[u] = a /\ row'[u] = w /\ profile'[u] = p /\ session'[u] = s
         /\ \A v \in Users \ {u} : /\ account'[v] = account[v] /\ row'[v] = row[v]
                                   /\ profile'[v] = profile[v] /\ session'[v] = session[v]
         /\ request'[r] = q /\ \A o \in Requests \ {r} : request'[o] = request[o]
<1>1. u \in Users
  BY OrderKinds DEF IsMove
<1>2. Order' = Order
  BY DEF Order, Creation, Update, Save, Plain, Switch, Wish, Exchange, Login, Verify, Keep
<1>3. account' \in [Users -> {None} \cup Account] /\ row' \in [Users -> {None} \cup Row]
  BY <1>1 DEF IsMove, Moves, AccountsShape
<1>4. profile' \in [Users -> {None} \cup Row] /\ session' \in [Users -> Nat]
  BY <1>1 DEF IsMove, Moves, AccountsShape
<1>5. request' \in [Requests -> {Done} \cup Order]
  BY <1>1 DEF IsMove, Moves, AccountsShape
<1>6. \A o \in Requests : request'[o].at = "mail" => request'[o].dto.mail # None
  BY DEF IsMove, Moves, AccountsShape
<1>7. AccountsShape'
  BY <1>2, <1>3, <1>4, <1>5, <1>6 DEF AccountsShape
<1> QED
  BY <1>1, <1>7 DEF AccountsShape, Moves

\* What a step may do to the two stores of its user.
HalvesFit(r, q, a, w, p) ==
  LET u == request[r].user IN
    /\ w # None => a # None
    /\ row[u] # None => w # None
    /\ w = None => p = None
    /\ q.at \in Updating => w # None
    /\ q.at \in Halfway => /\ a # None /\ w = None /\ a.mail = q.mail
                           /\ q.at = "insert" => a.roles = {"user"}
                           /\ request[r].at \in Halfway \/ account[u] = None
    /\ request[r].at \notin Halfway /\ account[u] # None /\ row[u] = None => a = account[u] /\ w = None
    /\ u \notin stranded' /\ a # None /\ w = None =>
         q.at \in Halfway \/ (request[r].at \notin Halfway /\ account[u] # None)

\* Such a step keeps the registrations whole.
LEMMA HalvesKept ==
  ASSUME AccountsShape, Halves, NEW r \in Requests, NEW q, NEW a, NEW w, NEW p, NEW s,
         IsMove(r, q, a, w, p, s), Moves(r, q, a, w, p, s), HalvesFit(r, q, a, w, p)
  PROVE  Halves'
<1>1. PICK u : u = request[r].user
  OBVIOUS
<1>2. /\ u \in Users /\ account'[u] = a /\ row'[u] = w /\ profile'[u] = p
      /\ \A v \in Users \ {u} : account'[v] = account[v] /\ row'[v] = row[v] /\ profile'[v] = profile[v]
      /\ request'[r] = q /\ \A o \in Requests \ {r} : request'[o] = request[o]
  BY <1>1, Moved
<1>3. q.at \in Halfway \cup Updating => q.user = u
  BY <1>1 DEF IsMove, Done, Halfway, Updating
<1>4. \A v \in Users : (row'[v] # None => account'[v] # None) /\ (row'[v] = None => profile'[v] = None)
  BY <1>1, <1>2 DEF Halves, HalvesFit
<1>5. ASSUME NEW o \in Requests, request'[o].at \in Halfway
      PROVE  LET v == request'[o].user IN
               /\ account'[v] # None /\ row'[v] = None
               /\ account'[v].mail = request'[o].mail
               /\ request'[o].at = "insert" => account'[v].roles = {"user"}
               /\ \A b \in Requests : request'[b].at \in Halfway /\ request'[b].user = v => b = o
  <2>1. CASE o = r
    <3>1. /\ a # None /\ w = None /\ a.mail = q.mail /\ (q.at = "insert" => a.roles = {"user"})
          /\ request[r].at \in Halfway \/ account[u] = None
      BY <1>1, <1>2, <1>5, <2>1 DEF HalvesFit
    <3>2. \A b \in Requests : request'[b].at \in Halfway /\ request'[b].user = u => b = r
      BY <1>1, <1>2, <3>1 DEF Halves
    <3> QED
      BY <1>2, <1>3, <1>5, <2>1, <3>1, <3>2
  <2>2. CASE o # r
    <3>1. PICK v : v = request[o].user
      OBVIOUS
    <3>2. request'[o] = request[o] /\ request[o].at \in Halfway /\ v \in Users
      BY <1>2, <1>5, <2>2, <3>1, OrderKinds DEF Halfway
    <3>3. /\ account[v] # None /\ row[v] = None /\ account[v].mail = request[o].mail
          /\ request[o].at = "insert" => account[v].roles = {"user"}
          /\ \A b \in Requests : request[b].at \in Halfway /\ request[b].user = v => b = o
      BY <3>1, <3>2 DEF Halves
    <3>4. CASE v # u
      <4>1. \A b \in Requests : request'[b].at \in Halfway /\ request'[b].user = v => b = o
        BY <1>2, <1>3, <3>3, <3>4
      <4> QED
        BY <1>2, <3>1, <3>2, <3>3, <3>4, <4>1
    <3>5. CASE v = u
      <4>1. request[r].at \notin Halfway
        BY <1>1, <2>2, <3>3, <3>5
      <4>2. a = account[u] /\ w = None /\ q.at \notin Halfway
        BY <1>1, <3>3, <3>5, <4>1 DEF HalvesFit
      <4>3. \A b \in Requests : request'[b].at \in Halfway /\ request'[b].user = v => b = o
        BY <1>2, <3>3, <4>2
      <4> QED
        BY <1>2, <3>1, <3>2, <3>3, <3>5, <4>2, <4>3
    <3> QED
      BY <3>4, <3>5
  <2> QED
    BY <2>1, <2>2
<1>6. ASSUME NEW o \in Requests, request'[o].at \in Updating PROVE row'[request'[o].user] # None
  <2>1. CASE o = r
    BY <1>1, <1>2, <1>3, <1>6, <2>1 DEF HalvesFit
  <2>2. CASE o # r
    <3>1. request'[o] = request[o] /\ row[request[o].user] # None /\ request[o].user \in Users
      BY <1>2, <1>6, <2>2, OrderKinds DEF Halves, Updating
    <3> QED
      BY <1>1, <1>2, <3>1 DEF HalvesFit
  <2> QED
    BY <2>1, <2>2
<1>7. ASSUME NEW v \in Users \ stranded', account'[v] # None, row'[v] = None
      PROVE  \E o \in Requests : request'[o].at \in Halfway /\ request'[o].user = v
  <2>1. v \notin stranded
    BY DEF Moves
  <2>2. CASE v # u
    <3>1. PICK o \in Requests : request[o].at \in Halfway /\ request[o].user = v
      BY <1>2, <1>7, <2>1, <2>2 DEF Halves
    <3>2. o # r
      BY <1>1, <2>2, <3>1
    <3> QED
      BY <1>2, <3>1, <3>2
  <2>3. CASE v = u /\ q.at \in Halfway
    BY <1>2, <1>3, <2>3
  <2>4. CASE v = u /\ q.at \notin Halfway
    <3>1. request[r].at \notin Halfway /\ account[u] # None /\ row[u] = None
      BY <1>1, <1>2, <1>7, <2>4 DEF HalvesFit
    <3>2. PICK o \in Requests : request[o].at \in Halfway /\ request[o].user = v
      BY <2>1, <2>4, <3>1 DEF Halves
    <3>3. o # r
      BY <3>1, <3>2
    <3> QED
      BY <1>2, <3>2, <3>3
  <2> QED
    BY <2>2, <2>3, <2>4
<1>8. UNCHANGED <<Halfway, Updating>>
  BY DEF Halfway, Updating
<1> HIDE DEF Halfway, Updating
<1> QED
  BY <1>4, <1>5, <1>6, <1>7, <1>8 DEF Halves

\* What a step may do to a user who is being, or has been, deactivated.
LocksFit(r, q, a, w, s) ==
  LET u == request[r].user  old == request[r] IN
    /\ row[u] # None =>
         /\ w # None
         /\ a.enabled => account[u].enabled \/ r \in Changing(u, TRUE)
         /\ s # 0 => session[u] # 0 \/ account[u].enabled
    /\ q.at \in {"enable", "revoke", "status"} =>
         old.at \in {"enable", "revoke", "status"} /\ q.active = old.active /\ q.sure = old.sure
    /\ q.at \in {"revoke", "status"} /\ ~ q.active /\ q.sure => ~ a.enabled
    /\ q.at = "status" /\ ~ q.active /\ q.sure => s = 0
    /\ \/ banned' = banned
       \/ banned' = banned \cup {u} /\ old.at = "status" /\ ~ old.active /\ old.sure /\ q.at = "forget"

\* Such a step keeps whoever is deactivated out.
LEMMA LocksKept ==
  ASSUME AccountsShape, Halves, Locks, NEW r \in Requests, NEW q, NEW a, NEW w, NEW p, NEW s,
         IsMove(r, q, a, w, p, s), Moves(r, q, a, w, p, s), LocksFit(r, q, a, w, s)
  PROVE  Locks'
<1>1. PICK u : u = request[r].user
  OBVIOUS
<1>2. /\ u \in Users /\ account'[u] = a /\ row'[u] = w /\ session'[u] = s
      /\ \A v \in Users \ {u} : account'[v] = account[v] /\ row'[v] = row[v] /\ session'[v] = session[v]
      /\ request'[r] = q /\ \A o \in Requests \ {r} : request'[o] = request[o]
  BY <1>1, Moved
<1>3. q.at \in {"enable", "revoke", "status"} => q.user = u
  BY <1>1 DEF IsMove, Done
<1>4. \A v, b : Changing(v, b)' \subseteq Changing(v, b)
  BY <1>1, <1>2, <1>3 DEF Changing, LocksFit
<1>5. \A v \in Users \ {u} : \A b : \A o \in Changing(v, b)' : o # r /\ request'[o] = request[o]
  BY <1>2, <1>3 DEF Changing
<1>6. ASSUME row[u] # None, Changing(u, TRUE) = {}, ~ account[u].enabled
      PROVE  ~ a.enabled /\ w # None /\ (session[u] = 0 => s = 0)
  BY <1>1, <1>6 DEF LocksFit
<1>7. ASSUME NEW v \in Users, row[v] # None, ~ account[v].enabled, session[v] = 0, Changing(v, TRUE) = {}
      PROVE  row'[v] # None /\ ~ account'[v].enabled /\ session'[v] = 0 /\ Changing(v, TRUE)' = {}
  <2>1. Changing(v, TRUE)' = {}
    BY <1>4, <1>7
  <2> QED
    BY <1>2, <1>6, <1>7, <2>1
<1>8. ASSUME NEW v \in banned'
      PROVE  /\ v \in Users /\ row'[v] # None
             /\ ~ account'[v].enabled /\ session'[v] = 0 /\ Changing(v, TRUE)' = {}
  <2>1. CASE v \in banned
    BY <1>7, <2>1 DEF Locks
  <2>2. CASE v \notin banned
    <3>1. v = u /\ request[r].at = "status" /\ ~ request[r].active /\ request[r].sure
      BY <1>1, <1>8, <2>2 DEF LocksFit
    <3>2. request[r].active = FALSE
      BY <3>1, OrderKinds DEF Switch
    <3>3. r \in Changing(u, FALSE)
      BY <1>1, <3>1, <3>2 DEF Changing
    <3>4. row[u] # None
      BY <1>1, <3>1 DEF Halves, Updating
    <3> QED
      BY <1>2, <1>7, <3>1, <3>3, <3>4 DEF Locks
  <2> QED
    BY <2>1, <2>2
<1>9. ASSUME NEW v \in Users, NEW o \in Changing(v, FALSE)', request'[o].sure
      PROVE  /\ Changing(v, TRUE)' = {}
             /\ request'[o].at \in {"revoke", "status"} => ~ account'[v].enabled
             /\ request'[o].at = "status" => session'[v] = 0
  <2>1. o \in Changing(v, FALSE) /\ o \in Requests
    BY <1>4 DEF Changing
  <2>2. request[o].sure
    <3>1. CASE o = r
      <4>1. q.at \in {"enable", "revoke", "status"}
        BY <1>2, <3>1 DEF Changing
      <4> QED
        BY <1>1, <1>2, <1>9, <3>1, <4>1 DEF LocksFit
    <3>2. CASE o # r
      BY <1>2, <1>9, <2>1, <3>2
    <3> QED
      BY <3>1, <3>2
  <2>3. /\ Changing(v, TRUE) = {}
        /\ request[o].at \in {"revoke", "status"} => ~ account[v].enabled
        /\ request[o].at = "status" => session[v] = 0
    BY <2>1, <2>2 DEF Locks
  <2>4. Changing(v, TRUE)' = {}
    BY <1>4, <2>3
  <2>5. CASE o = r
    <3>1. v = u /\ q.at \in {"enable", "revoke", "status"} /\ q.active = FALSE /\ q.sure
      BY <1>1, <1>2, <1>3, <1>9, <2>5 DEF Changing
    <3> QED
      BY <1>1, <1>2, <2>4, <2>5, <3>1 DEF LocksFit
  <2>6. CASE o # r
    <3>1. request'[o] = request[o] /\ row[v] # None
      BY <1>2, <2>1, <2>6 DEF Halves, Updating, Changing
    <3>2. CASE v # u
      BY <1>2, <2>3, <2>4, <3>1, <3>2
    <3>3. CASE v = u
      BY <1>2, <1>6, <2>3, <2>4, <3>1, <3>3
    <3> QED
      BY <3>2, <3>3
  <2> QED
    BY <2>5, <2>6
<1> QED
  BY <1>8, <1>9 DEF Locks

\* Such a step keeps the stores of a user nobody overlaps on in agreement.
LEMMA AgreementKept ==
  ASSUME AccountsShape, Agreement, NEW r \in Requests, NEW q, NEW a, NEW w, NEW p, NEW s,
         IsMove(r, q, a, w, p, s), Moves(r, q, a, w, p, s),
         request[r].user \notin shaken' \cup stranded' /\ w # None => Agrees(a, w, p, q)
  PROVE  Agreement'
<1>1. PICK u : u = request[r].user
  OBVIOUS
<1>2. /\ u \in Users /\ account'[u] = a /\ row'[u] = w /\ profile'[u] = p
      /\ \A v \in Users \ {u} : account'[v] = account[v] /\ row'[v] = row[v] /\ profile'[v] = profile[v]
      /\ request'[r] = q /\ \A o \in Requests \ {r} : request'[o] = request[o]
  BY <1>1, Moved
<1>3. On(r, u) /\ (q # Done => q.user = u) /\ shaken \subseteq shaken' /\ stranded \subseteq stranded'
  BY <1>1 DEF On, IsMove, Moves
<1>4. \A o \in Requests : \A v : On(o, v)' => On(o, v)
  BY <1>2, <1>3 DEF On
<1>5. \A o \in Requests : \A v : v # u /\ On(o, v) => On(o, v)' /\ request'[o] = request[o]
  BY <1>2, <1>3 DEF On
<1> SUFFICES ASSUME NEW v \in Users \ shaken'
             PROVE  /\ \A b, o \in Requests : On(b, v)' /\ On(o, v)' => b = o
                    /\ v \notin stranded' /\ row'[v] # None =>
                         /\ \A b \in Requests : On(b, v)' => Agrees(account'[v], row'[v], profile'[v], request'[b])
                         /\ (\A b \in Requests : ~ On(b, v)') => Agrees(account'[v], row'[v], profile'[v], Done)
  BY DEF Agreement, Agrees, Given
<1>6. \A b, o \in Requests : On(b, v)' /\ On(o, v)' => b = o
  BY <1>3, <1>4 DEF Agreement
<1>7. ASSUME v \notin stranded', row'[v] # None, v # u
      PROVE  /\ \A b \in Requests : On(b, v)' => Agrees(account'[v], row'[v], profile'[v], request'[b])
             /\ (\A b \in Requests : ~ On(b, v)') => Agrees(account'[v], row'[v], profile'[v], Done)
  BY <1>2, <1>3, <1>4, <1>5, <1>7 DEF Agreement
<1>8. ASSUME v \notin stranded', row'[v] # None, v = u
      PROVE  /\ \A b \in Requests : On(b, v)' => Agrees(account'[v], row'[v], profile'[v], request'[b])
             /\ (\A b \in Requests : ~ On(b, v)') => Agrees(account'[v], row'[v], profile'[v], Done)
  <2>1. Agrees(a, w, p, q)
    BY <1>1, <1>2, <1>8
  <2>2. \A b \in Requests : On(b, v)' => b = r
    BY <1>3, <1>4, <1>8 DEF Agreement
  <2>3. (\A b \in Requests : ~ On(b, v)') => q = Done
    BY <1>2, <1>3, <1>8 DEF On
  <2> QED
    BY <1>2, <1>8, <2>1, <2>2, <2>3
<1> QED
  BY <1>6, <1>7, <1>8

\* The three together.
LEMMA RequestMoves ==
  ASSUME AccountsInv, NEW r \in Requests, NEW q, NEW a, NEW w, NEW p, NEW s,
         IsMove(r, q, a, w, p, s), Moves(r, q, a, w, p, s),
         HalvesFit(r, q, a, w, p), LocksFit(r, q, a, w, s),
         request[r].user \notin shaken' \cup stranded' /\ w # None => Agrees(a, w, p, q)
  PROVE  AccountsInv'
<1>1. AccountsShape'
  BY Moved DEF AccountsInv
<1> QED
  BY <1>1, HalvesKept, LocksKept, AgreementKept DEF AccountsInv

\* What is known of the user of a request, before it goes on.
LEMMA Before ==
  ASSUME AccountsInv, NEW r \in Requests, request[r] # Done, NEW u, u = request[r].user
  PROVE  /\ u \in Users
         /\ account[u] \in {None} \cup Account /\ row[u] \in {None} \cup Row
         /\ profile[u] \in {None} \cup Row /\ session[u] \in Nat
         /\ row[u] # None => account[u] \in Account /\ row[u] \in Row
         /\ row[u] = None => profile[u] = None
         /\ request[r].at \in Updating => row[u] # None
         /\ u \notin shaken \cup stranded /\ row[u] # None =>
              Agrees(account[u], row[u], profile[u], request[r])
<1>1. u \in Users
  BY OrderKinds DEF AccountsInv
<1> QED
  BY <1>1 DEF AccountsInv, AccountsShape, Halves, Agreement, On

-----------------------------------------------------------------------------
(* The steps of the requests.                                              *)

\* Every kind of request is an order.
LEMMA Kinds ==
  /\ Creation \subseteq Order /\ Update \subseteq Order /\ Save \subseteq Order /\ Plain \subseteq Order
  /\ Switch \subseteq Order /\ Wish \subseteq Order /\ Exchange \subseteq Order /\ Login \subseteq Order
  /\ Verify \subseteq Order /\ Keep \subseteq Order
BY DEF Order

\* The stores of a user stay as they are when nothing is said of them.
LEMMA StoresStay ==
  ASSUME AccountsShape, NEW u \in Users
  PROVE  /\ account = [account EXCEPT ![u] = account[u]] /\ row = [row EXCEPT ![u] = row[u]]
         /\ profile = [profile EXCEPT ![u] = profile[u]] /\ session = [session EXCEPT ![u] = session[u]]
BY DEF AccountsShape

\* What the proofs use of the assumption on the constants.
LEMMA NoneIsNothing ==
  None \notin Mails /\ None \notin BOOLEAN /\ None \notin Account /\ None \notin Row
BY AccountsAssumption

\* A request stops where the stores agree, or its user is shaken.
LEMMA Continues ==
  ASSUME AccountsInv, NEW r \in Requests, request[r] # Done, request[r].at \notin Halfway,
         request' = [request EXCEPT ![r] = Done],
         UNCHANGED <<account, session, row, profile, banned>>,
         shaken \subseteq shaken', stranded \subseteq stranded',
         NEW u, u = request[r].user,
         request[r].at \in {"assign", "roles", "forget"} => u \in shaken',
         request[r].at \in {"load", "save"} => request[r].dto.mail = None \/ u \in shaken'
  PROVE  AccountsInv'
<1>1. Moves(r, Done, account[u], row[u], profile[u], session[u])
  BY Before, StoresStay DEF Moves, AccountsInv
<1>2. IsMove(r, Done, account[u], row[u], profile[u], session[u])
  BY Before DEF IsMove, Done
<1>3. HalvesFit(r, Done, account[u], row[u], profile[u])
  BY Before DEF HalvesFit, Done, Halfway, Updating, AccountsInv, Halves
<1>4. LocksFit(r, Done, account[u], row[u], session[u])
  BY DEF LocksFit, Done
<1>5. u \notin shaken' \cup stranded' /\ row[u] # None => Agrees(account[u], row[u], profile[u], Done)
  BY Before DEF Agrees, Done, Given
<1> QED
  BY <1>1, <1>2, <1>3, <1>4, <1>5, RequestMoves

\* A request that only reads goes on with what it read.
LEMMA Reads ==
  ASSUME AccountsInv, NEW r \in Requests, request[r] # Done, request[r].at \notin Halfway,
         NEW q \in Order, NEW u, u = request[r].user, q.user = u,
         request' = [request EXCEPT ![r] = q],
         UNCHANGED <<account, session, row, profile, banned, shaken, stranded>>,
         q.at \notin Halfway \cup {"enable", "revoke", "status"},
         q.at = "mail" => q.dto.mail # None,
         q.at \in Updating => row[u] # None,
         row[u] # None /\ Agrees(account[u], row[u], profile[u], request[r]) =>
           Agrees(account[u], row[u], profile[u], q)
  PROVE  AccountsInv'
<1>1. Moves(r, q, account[u], row[u], profile[u], session[u])
  BY Before, StoresStay DEF Moves, AccountsInv
<1>2. IsMove(r, q, account[u], row[u], profile[u], session[u])
  BY Before DEF IsMove
<1>3. HalvesFit(r, q, account[u], row[u], profile[u])
  BY Before DEF HalvesFit, AccountsInv, Halves
<1>4. LocksFit(r, q, account[u], row[u], session[u])
  BY DEF LocksFit
<1>5. u \notin shaken' \cup stranded' /\ row[u] # None => Agrees(account[u], row[u], profile[u], q)
  BY Before
<1> QED
  BY <1>1, <1>2, <1>3, <1>4, <1>5, RequestMoves

\* The mail is told to Keycloak only if it changes.
LEMMA ComparesMailStep ==
  ASSUME AccountsInv, NEW r \in Requests, ComparesMail(r)
  PROVE  AccountsInv'
<1>1. request[r] \in Update /\ request[r].at = "compare" /\ request[r] # Done
  BY OrderKinds DEF ComparesMail, AccountsInv
<1>2. PICK u : u = request[r].user
  OBVIOUS
<1>3. u \in Users /\ account[u] \in {None} \cup Account /\ row[u] \in {None} \cup Row
  BY <1>1, <1>2, Before
<1>4. PICK q : q = [request[r] EXCEPT
         !.at = IF request[r].dto.mail # None /\ request[r].dto.mail # row[u].mail THEN "mail" ELSE "load"]
  OBVIOUS
<1>5. /\ q \in Update /\ q.user = u /\ q.dto = request[r].dto
      /\ q.at = IF q.dto.mail # None /\ q.dto.mail # row[u].mail THEN "mail" ELSE "load"
  BY <1>1, <1>2, <1>4 DEF Update
<1>6. row[u] # None
  BY <1>1, <1>2, Before DEF Updating
<1>7. Agrees(account[u], row[u], profile[u], request[r]) => Agrees(account[u], row[u], profile[u], q)
  BY <1>1, <1>5 DEF Agrees, Given
<1>8. request' = [request EXCEPT ![r] = q]
      /\ UNCHANGED <<account, session, row, profile, banned, shaken, stranded>>
  BY <1>2, <1>4 DEF ComparesMail, Continue
<1> QED
  BY <1>1, <1>2, <1>5, <1>6, <1>7, <1>8, Kinds, Reads DEF Halfway

\* Keycloak gets the mail before the row does.
LEMMA SetsMailStep ==
  ASSUME AccountsInv, NEW r \in Requests, SetsMail(r)
  PROVE  AccountsInv'
<1>1. request[r] \in Update /\ request[r].at = "mail" /\ request[r] # Done
  BY OrderKinds DEF SetsMail, AccountsInv
<1>2. PICK u : u = request[r].user
  OBVIOUS
<1>3. u \in Users /\ account[u] \in {None} \cup Account /\ row[u] \in {None} \cup Row
  BY <1>1, <1>2, Before
<1>4. PICK mail : mail = request[r].dto.mail
  OBVIOUS
<1>5. mail \in Mails /\ row[u] # None /\ account[u] \in Account
  <2>1. mail # None /\ mail \in Mails \cup {None}
    BY <1>1, <1>4 DEF AccountsInv, AccountsShape, Update, UpdateUserDto
  <2> QED
    BY <1>1, <1>2, <2>1, Before DEF Updating
<1>6. CASE Taken(account, u, mail)
  BY <1>1, <1>2, <1>4, <1>6, Continues DEF SetsMail, Continue, Halfway
<1>7. CASE ~ Taken(account, u, mail)
  <2>1. PICK a, q : a = [account[u] EXCEPT !.mail = mail] /\ q = [request[r] EXCEPT !.at = "load"]
    OBVIOUS
  <2>2. /\ a \in Account /\ a.mail = mail /\ a.enabled = account[u].enabled /\ a.roles = account[u].roles
    BY <1>5, <2>1 DEF Account
  <2>3. q \in Update /\ q.user = u /\ q.at = "load" /\ q.dto.mail = mail
    BY <1>1, <1>2, <1>4, <2>1 DEF Update
  <2>4. Moves(r, q, a, row[u], profile[u], session[u]) /\ UNCHANGED <<shaken, stranded, banned>>
    BY <1>2, <1>3, <1>4, <1>7, <2>1, StoresStay DEF SetsMail, Continue, Moves, AccountsInv
  <2>5. IsMove(r, q, a, row[u], profile[u], session[u])
    BY <1>1, <1>2, <2>2, <2>3, Before, Kinds DEF IsMove
  <2>6. HalvesFit(r, q, a, row[u], profile[u])
    BY <1>1, <1>2, <1>5, <2>2, <2>3, NoneIsNothing DEF HalvesFit, Halfway
  <2>7. LocksFit(r, q, a, row[u], session[u])
    BY <1>2, <2>2, <2>3, <2>4 DEF LocksFit
  <2>8. u \notin shaken' \cup stranded' => Agrees(a, row[u], profile[u], q)
    BY <1>1, <1>2, <1>5, <2>2, <2>3, <2>4, Before, NoneIsNothing DEF Agrees, Given
  <2> QED
    BY <1>2, <2>4, <2>5, <2>6, <2>7, <2>8, RequestMoves
<1> QED
  BY <1>6, <1>7

\* The row is read.
LEMMA LoadsRowStep ==
  ASSUME AccountsInv, NEW r \in Requests, LoadsRow(r)
  PROVE  AccountsInv'
<1>1. request[r] \in Update /\ request[r].at = "load" /\ request[r] # Done
  BY OrderKinds DEF LoadsRow, AccountsInv
<1>2. PICK u : u = request[r].user
  OBVIOUS
<1>3. u \in Users /\ account[u] \in {None} \cup Account /\ row[u] \in {None} \cup Row
  BY <1>1, <1>2, Before
<1>4. row[u] # None
  BY <1>1, <1>2, Before DEF Updating
<1>5. PICK q : q = [at |-> "save", user |-> u, dto |-> request[r].dto, copy |-> row[u]]
  OBVIOUS
<1>6. q \in Save /\ q.at = "save" /\ q.user = u /\ q.dto = request[r].dto /\ q.copy = row[u]
  BY <1>1, <1>3, <1>4, <1>5 DEF Update, Save
<1>7. Agrees(account[u], row[u], profile[u], request[r]) => Agrees(account[u], row[u], profile[u], q)
  BY <1>1, <1>6 DEF Agrees
<1>8. request' = [request EXCEPT ![r] = q]
      /\ UNCHANGED <<account, session, row, profile, banned, shaken, stranded>>
  BY <1>2, <1>5 DEF LoadsRow, Continue
<1> QED
  BY <1>1, <1>2, <1>4, <1>6, <1>7, <1>8, Kinds, Reads DEF Halfway

\* The row is saved whole, merged with what was asked.
LEMMA SavesRowStep ==
  ASSUME AccountsInv, NEW r \in Requests, SavesRow(r)
  PROVE  AccountsInv'
<1>1. request[r] \in Save /\ request[r].at = "save" /\ request[r] # Done
  BY OrderKinds DEF SavesRow, AccountsInv
<1>2. PICK u : u = request[r].user
  OBVIOUS
<1>3. u \in Users /\ account[u] \in {None} \cup Account /\ row[u] \in {None} \cup Row
  BY <1>1, <1>2, Before
<1>4. PICK dto, copy : dto = request[r].dto /\ copy = request[r].copy
  OBVIOUS
<1>5. PICK new : new = Merged(copy, dto)
  OBVIOUS
<1>6. copy \in Row /\ dto \in UpdateUserDto /\ row[u] # None
  BY <1>1, <1>2, <1>4, Before DEF Save, Updating
<1>7. /\ new \in Row /\ new.mail = Given(dto.mail, copy.mail) /\ new.roles = copy.roles
  BY <1>5, <1>6, NoneIsNothing DEF Merged, Row, UpdateUserDto, Given
<1>8. CASE Taken(row, u, new.mail)
  <2>1. /\ request' = [request EXCEPT ![r] = Done]
        /\ UNCHANGED <<account, session, row, profile, banned, stranded>>
        /\ shaken' = IF dto.mail = None THEN shaken ELSE shaken \cup {u}
    BY <1>2, <1>4, <1>5, <1>8 DEF SavesRow, Continue
  <2>2. shaken \subseteq shaken' /\ (dto.mail = None \/ u \in shaken')
    BY <2>1
  <2> QED
    BY <1>1, <1>2, <1>4, <2>1, <2>2, Continues DEF Halfway
<1>9. CASE ~ Taken(row, u, new.mail)
  <2>1. PICK q : q = [at |-> "forget", user |-> u]
    OBVIOUS
  <2>2. q \in Plain /\ q.at = "forget" /\ q.user = u
    BY <1>3, <2>1 DEF Plain
  <2>3. Moves(r, q, account[u], new, profile[u], session[u]) /\ UNCHANGED <<shaken, stranded, banned>>
    BY <1>2, <1>3, <1>4, <1>5, <1>9, <2>1, StoresStay DEF SavesRow, Continue, Moves, AccountsInv
  <2>4. IsMove(r, q, account[u], new, profile[u], session[u])
    BY <1>1, <1>2, <1>7, <2>2, Before, Kinds DEF IsMove
  <2>5. HalvesFit(r, q, account[u], new, profile[u])
    BY <1>1, <1>2, <1>6, <1>7, <2>2, Before, NoneIsNothing DEF HalvesFit, Halfway
  <2>6. LocksFit(r, q, account[u], new, session[u])
    BY <1>2, <1>7, <2>2, <2>3, NoneIsNothing DEF LocksFit
  <2>7. u \notin shaken' \cup stranded' => Agrees(account[u], new, profile[u], q)
    BY <1>1, <1>2, <1>4, <1>6, <1>7, <2>2, <2>3, Before DEF Agrees
  <2> QED
    BY <1>2, <2>3, <2>4, <2>5, <2>6, <2>7, RequestMoves
<1> QED
  BY <1>8, <1>9

\* The cached profile goes, and the request is done.
LEMMA ForgetsStep ==
  ASSUME AccountsInv, NEW r \in Requests, Forgets(r)
  PROVE  AccountsInv'
<1>1. request[r] \in Plain /\ request[r].at = "forget" /\ request[r] # Done
  BY OrderKinds DEF Forgets, AccountsInv
<1>2. PICK u : u = request[r].user
  OBVIOUS
<1>3. u \in Users /\ account[u] \in {None} \cup Account /\ row[u] \in {None} \cup Row
  BY <1>1, <1>2, Before
<1>4. row[u] # None
  BY <1>1, <1>2, Before DEF Updating
<1>5. Moves(r, Done, account[u], row[u], None, session[u]) /\ UNCHANGED <<shaken, stranded, banned>>
  BY <1>2, <1>3, StoresStay DEF Forgets, Continue, Moves, AccountsInv
<1>6. IsMove(r, Done, account[u], row[u], None, session[u])
  BY <1>1, <1>2, Before DEF IsMove, Done
<1>7. HalvesFit(r, Done, account[u], row[u], None)
  BY <1>1, <1>2, <1>4, Before, NoneIsNothing DEF HalvesFit, Halfway, Updating, Done
<1>8. LocksFit(r, Done, account[u], row[u], session[u])
  BY <1>2, <1>5 DEF LocksFit, Done
<1>9. u \notin shaken' \cup stranded' => Agrees(account[u], row[u], None, Done)
  BY <1>1, <1>2, <1>4, <1>5, Before DEF Agrees, Done
<1> QED
  BY <1>2, <1>5, <1>6, <1>7, <1>8, <1>9, RequestMoves

\* The account is enabled or disabled first.
LEMMA SetsEnabledStep ==
  ASSUME AccountsInv, NEW r \in Requests, SetsEnabled(r)
  PROVE  AccountsInv'
<1>1. request[r] \in Switch /\ request[r].at = "enable" /\ request[r] # Done
  BY OrderKinds DEF SetsEnabled, AccountsInv
<1>2. PICK u : u = request[r].user
  OBVIOUS
<1>3. u \in Users /\ account[u] \in {None} \cup Account /\ row[u] \in {None} \cup Row
  BY <1>1, <1>2, Before
<1>4. PICK active : active = request[r].active
  OBVIOUS
<1>5. active \in BOOLEAN /\ row[u] # None /\ account[u] \in Account
  BY <1>1, <1>2, <1>4, Before DEF Switch, Updating
<1>6. PICK a, q : a = [account[u] EXCEPT !.enabled = active] /\ q = [request[r] EXCEPT !.at = AfterEnabling(active)]
  OBVIOUS
<1>7. a \in Account /\ a.mail = account[u].mail /\ a.enabled = active /\ a.roles = account[u].roles
  BY <1>5, <1>6 DEF Account
<1>8. q \in Switch /\ q.user = u /\ q.active = active /\ q.sure = request[r].sure
      /\ q.at = IF active THEN "status" ELSE "revoke"
  BY <1>1, <1>2, <1>4, <1>5, <1>6 DEF Switch, AfterEnabling
<1>9. active => r \in Changing(u, TRUE)
  BY <1>1, <1>2, <1>4, <1>5 DEF Changing
<1>10. Moves(r, q, a, row[u], profile[u], session[u]) /\ UNCHANGED <<shaken, stranded, banned>>
  BY <1>2, <1>3, <1>4, <1>6, StoresStay DEF SetsEnabled, Continue, Moves, AccountsInv
<1>11. IsMove(r, q, a, row[u], profile[u], session[u])
  BY <1>1, <1>2, <1>7, <1>8, Before, Kinds DEF IsMove
<1>12. HalvesFit(r, q, a, row[u], profile[u])
  BY <1>1, <1>2, <1>5, <1>7, <1>8, Before, NoneIsNothing DEF HalvesFit, Halfway, Updating
<1>13. LocksFit(r, q, a, row[u], session[u])
  BY <1>1, <1>2, <1>4, <1>5, <1>7, <1>8, <1>9, <1>10, Before, NoneIsNothing DEF LocksFit
<1>14. u \notin shaken' \cup stranded' /\ row[u] # None => Agrees(a, row[u], profile[u], q)
  BY <1>1, <1>2, <1>5, <1>7, <1>8, <1>10, Before, NoneIsNothing DEF Agrees, Given
<1> QED
  BY <1>2, <1>10, <1>11, <1>12, <1>13, <1>14, RequestMoves

\* A deactivation ends the sessions.
LEMMA RevokesSessionsStep ==
  ASSUME AccountsInv, NEW r \in Requests, RevokesSessions(r)
  PROVE  AccountsInv'
<1>1. request[r] \in Switch /\ request[r].at = "revoke" /\ request[r] # Done
  BY OrderKinds DEF RevokesSessions, AccountsInv
<1>2. PICK u : u = request[r].user
  OBVIOUS
<1>3. u \in Users /\ account[u] \in {None} \cup Account /\ row[u] \in {None} \cup Row
  BY <1>1, <1>2, Before
<1>4. PICK q : q = [request[r] EXCEPT !.at = "status"]
  OBVIOUS
<1>5. q \in Switch /\ q.user = u /\ q.at = "status" /\ q.active = request[r].active /\ q.sure = request[r].sure
  BY <1>1, <1>2, <1>4 DEF Switch
<1>6. row[u] # None /\ account[u] \in Account
  BY <1>1, <1>2, Before DEF Updating
<1>7. ~ q.active /\ q.sure => ~ account[u].enabled
  <2>1. ~ q.active => request[r].active = FALSE
    BY <1>1, <1>5 DEF Switch
  <2>2. ~ q.active => r \in Changing(u, FALSE)
    BY <1>1, <1>2, <2>1 DEF Changing
  <2> QED
    BY <1>1, <1>3, <1>5, <2>2 DEF AccountsInv, Locks
<1>8. Moves(r, q, account[u], row[u], profile[u], 0) /\ UNCHANGED <<shaken, stranded, banned>>
  BY <1>2, <1>3, <1>4, StoresStay DEF RevokesSessions, Continue, Moves, AccountsInv
<1>9. IsMove(r, q, account[u], row[u], profile[u], 0)
  BY <1>1, <1>2, <1>5, Before, Kinds DEF IsMove
<1>10. HalvesFit(r, q, account[u], row[u], profile[u])
  BY <1>1, <1>2, <1>5, <1>6, Before, NoneIsNothing DEF HalvesFit, Halfway, Updating
<1>11. LocksFit(r, q, account[u], row[u], 0)
  BY <1>1, <1>2, <1>5, <1>6, <1>7, <1>8, Before, NoneIsNothing DEF LocksFit
<1>12. u \notin shaken' \cup stranded' /\ row[u] # None => Agrees(account[u], row[u], profile[u], q)
  BY <1>1, <1>2, <1>5, <1>6, <1>8, Before, NoneIsNothing DEF Agrees, Given
<1> QED
  BY <1>2, <1>8, <1>9, <1>10, <1>11, <1>12, RequestMoves

\* The row follows the account; a deactivation that is sure of itself is answered.
LEMMA SetsStatusStep ==
  ASSUME AccountsInv, NEW r \in Requests, SetsStatus(r)
  PROVE  AccountsInv'
<1>1. request[r] \in Switch /\ request[r].at = "status" /\ request[r] # Done
  BY OrderKinds DEF SetsStatus, AccountsInv
<1>2. PICK u : u = request[r].user
  OBVIOUS
<1>3. u \in Users /\ account[u] \in {None} \cup Account /\ row[u] \in {None} \cup Row
  BY <1>1, <1>2, Before
<1>4. PICK active : active = request[r].active
  OBVIOUS
<1>5. active \in BOOLEAN /\ row[u] \in Row /\ row[u] # None
  BY <1>1, <1>2, <1>4, Before DEF Switch, Updating
<1>6. PICK w, q : w = [row[u] EXCEPT !.active = active] /\ q = [at |-> "forget", user |-> u]
  OBVIOUS
<1>7. w \in Row /\ w # None /\ w.mail = row[u].mail /\ w.roles = row[u].roles
  BY <1>5, <1>6, NoneIsNothing DEF Row
<1>8. q \in Plain /\ q.user = u /\ q.at = "forget"
  BY <1>3, <1>6 DEF Plain
<1>9. banned' = IF ~ request[r].active /\ request[r].sure THEN banned \cup {u} ELSE banned
  BY <1>2 DEF SetsStatus
<1>10. Moves(r, q, account[u], w, profile[u], session[u]) /\ UNCHANGED <<shaken, stranded>>
  BY <1>2, <1>3, <1>4, <1>6, StoresStay DEF SetsStatus, Continue, Moves, AccountsInv
<1>11. IsMove(r, q, account[u], w, profile[u], session[u])
  BY <1>1, <1>2, <1>7, <1>8, Before, Kinds DEF IsMove
<1>12. HalvesFit(r, q, account[u], w, profile[u])
  BY <1>1, <1>2, <1>5, <1>7, <1>8, Before, NoneIsNothing DEF HalvesFit, Halfway, Updating
<1>13. LocksFit(r, q, account[u], w, session[u])
  BY <1>1, <1>2, <1>5, <1>7, <1>8, <1>9, <1>10, Before, NoneIsNothing DEF LocksFit
<1>14. u \notin shaken' \cup stranded' /\ w # None => Agrees(account[u], w, profile[u], q)
  BY <1>1, <1>2, <1>5, <1>7, <1>8, <1>10, Before, NoneIsNothing DEF Agrees, Given
<1> QED
  BY <1>2, <1>10, <1>11, <1>12, <1>13, <1>14, RequestMoves

\* The roles the account has are compared with those it shall have.
LEMMA ComparesRolesStep ==
  ASSUME AccountsInv, NEW r \in Requests, ComparesRoles(r)
  PROVE  AccountsInv'
<1>1. request[r] \in Wish /\ request[r].at = "diff" /\ request[r] # Done
  BY OrderKinds DEF ComparesRoles, AccountsInv
<1>2. PICK u : u = request[r].user
  OBVIOUS
<1>3. u \in Users /\ account[u] \in {None} \cup Account /\ row[u] \in {None} \cup Row
  BY <1>1, <1>2, Before
<1>4. PICK now, want : now = account[u].roles /\ want = request[r].roles
  OBVIOUS
<1>5. row[u] # None /\ now \in SUBSET ALLOWED_REALM_ROLES /\ want \in SUBSET ALLOWED_REALM_ROLES
  BY <1>1, <1>2, <1>4, Before DEF Updating, Account, Wish
<1>6. PICK q : q = [at |-> "remove", user |-> u, roles |-> want, drop |-> TooMany(now, want), add |-> want \ now]
  OBVIOUS
<1>7. q \in Exchange
  <2>1. TooMany(now, want) \in SUBSET ALLOWED_REALM_ROLES /\ want \ now \in SUBSET ALLOWED_REALM_ROLES
    BY <1>5 DEF TooMany
  <2> QED
    BY <1>3, <1>5, <1>6, <2>1 DEF Exchange
<1>8. /\ q.at = "remove" /\ q.user = u /\ q.roles = want /\ q.drop = now \ want /\ q.add = want \ now
  BY <1>6 DEF TooMany
<1>9. Agrees(account[u], row[u], profile[u], request[r]) => Agrees(account[u], row[u], profile[u], q)
  BY <1>1, <1>4, <1>8 DEF Agrees
<1>10. request' = [request EXCEPT ![r] = q]
       /\ UNCHANGED <<account, session, row, profile, banned, shaken, stranded>>
  BY <1>2, <1>4, <1>6 DEF ComparesRoles, Continue
<1> QED
  BY <1>1, <1>2, <1>5, <1>7, <1>8, <1>9, <1>10, Kinds, Reads DEF Halfway

\* The roles that are too many go.
LEMMA RemovesRolesStep ==
  ASSUME AccountsInv, NEW r \in Requests, RemovesRoles(r)
  PROVE  AccountsInv'
<1>1. request[r] \in Exchange /\ request[r].at = "remove" /\ request[r] # Done
  BY OrderKinds DEF RemovesRoles, AccountsInv
<1>2. PICK u : u = request[r].user
  OBVIOUS
<1>3. u \in Users /\ account[u] \in {None} \cup Account /\ row[u] \in {None} \cup Row
  BY <1>1, <1>2, Before
<1>4. PICK drop : drop = request[r].drop
  OBVIOUS
<1>5. row[u] # None /\ account[u] \in Account
  BY <1>1, <1>2, Before DEF Updating
<1>6. PICK a, q : a = [account[u] EXCEPT !.roles = @ \ drop] /\ q = [request[r] EXCEPT !.at = "assign"]
  OBVIOUS
<1>7. a \in Account /\ a.mail = account[u].mail /\ a.enabled = account[u].enabled /\ a.roles = account[u].roles \ drop
  <2>1. account[u].roles \ drop \in SUBSET ALLOWED_REALM_ROLES
    BY <1>5 DEF Account
  <2> QED
    BY <1>5, <1>6, <2>1 DEF Account
<1>8. q \in Exchange /\ q.user = u /\ q.at = "assign" /\ q.add = request[r].add /\ q.roles = request[r].roles
  BY <1>1, <1>2, <1>6 DEF Exchange
<1>9. "user" \in request[r].roles /\ request[r].drop = account[u].roles \ request[r].roles
      /\ request[r].add = request[r].roles \ account[u].roles /\ "user" \in account[u].roles =>
        "user" \in a.roles /\ a.roles \cup q.add = q.roles
  BY <1>4, <1>7, <1>8
<1>10. Moves(r, q, a, row[u], profile[u], session[u]) /\ UNCHANGED <<shaken, stranded, banned>>
  BY <1>2, <1>3, <1>4, <1>6, StoresStay DEF RemovesRoles, Continue, Moves, AccountsInv
<1>11. IsMove(r, q, a, row[u], profile[u], session[u])
  BY <1>1, <1>2, <1>7, <1>8, Before, Kinds DEF IsMove
<1>12. HalvesFit(r, q, a, row[u], profile[u])
  BY <1>1, <1>2, <1>5, <1>7, <1>8, Before, NoneIsNothing DEF HalvesFit, Halfway, Updating
<1>13. LocksFit(r, q, a, row[u], session[u])
  BY <1>1, <1>2, <1>5, <1>7, <1>8, <1>10, Before, NoneIsNothing DEF LocksFit
<1>14. u \notin shaken' \cup stranded' /\ row[u] # None => Agrees(a, row[u], profile[u], q)
  BY <1>1, <1>2, <1>5, <1>7, <1>8, <1>9, <1>10, Before, NoneIsNothing DEF Agrees, Given
<1> QED
  BY <1>2, <1>10, <1>11, <1>12, <1>13, <1>14, RequestMoves

\* The roles that are missing come.
LEMMA AssignsRolesStep ==
  ASSUME AccountsInv, NEW r \in Requests, AssignsRoles(r)
  PROVE  AccountsInv'
<1>1. request[r] \in Exchange /\ request[r].at = "assign" /\ request[r] # Done
  BY OrderKinds DEF AssignsRoles, AccountsInv
<1>2. PICK u : u = request[r].user
  OBVIOUS
<1>3. u \in Users /\ account[u] \in {None} \cup Account /\ row[u] \in {None} \cup Row
  BY <1>1, <1>2, Before
<1>4. PICK add : add = request[r].add
  OBVIOUS
<1>5. row[u] # None /\ account[u] \in Account
  BY <1>1, <1>2, Before DEF Updating
<1>6. PICK a, q : a = [account[u] EXCEPT !.roles = @ \cup add] /\ q = [at |-> "roles", user |-> u, roles |-> request[r].roles]
  OBVIOUS
<1>7. a \in Account /\ a.mail = account[u].mail /\ a.enabled = account[u].enabled /\ a.roles = account[u].roles \cup add
  <2>1. account[u].roles \cup add \in SUBSET ALLOWED_REALM_ROLES
    BY <1>1, <1>4, <1>5 DEF Account, Exchange
  <2> QED
    BY <1>5, <1>6, <2>1 DEF Account
<1>8. q \in Wish /\ q.user = u /\ q.at = "roles" /\ q.roles = request[r].roles
  BY <1>1, <1>3, <1>6 DEF Exchange, Wish
<1>9. Moves(r, q, a, row[u], profile[u], session[u]) /\ UNCHANGED <<shaken, stranded, banned>>
  BY <1>2, <1>3, <1>4, <1>6, StoresStay DEF AssignsRoles, Continue, Moves, AccountsInv
<1>10. IsMove(r, q, a, row[u], profile[u], session[u])
  BY <1>1, <1>2, <1>7, <1>8, Before, Kinds DEF IsMove
<1>11. HalvesFit(r, q, a, row[u], profile[u])
  BY <1>1, <1>2, <1>5, <1>7, <1>8, Before, NoneIsNothing DEF HalvesFit, Halfway, Updating
<1>12. LocksFit(r, q, a, row[u], session[u])
  BY <1>1, <1>2, <1>5, <1>7, <1>8, <1>9, Before, NoneIsNothing DEF LocksFit
<1>13. u \notin shaken' \cup stranded' /\ row[u] # None => Agrees(a, row[u], profile[u], q)
  BY <1>1, <1>2, <1>4, <1>5, <1>7, <1>8, <1>9, Before, NoneIsNothing DEF Agrees, Given
<1> QED
  BY <1>2, <1>9, <1>10, <1>11, <1>12, <1>13, RequestMoves

\* The row takes the roles over.
LEMMA SetsRolesStep ==
  ASSUME AccountsInv, NEW r \in Requests, SetsRoles(r)
  PROVE  AccountsInv'
<1>1. request[r] \in Wish /\ request[r].at = "roles" /\ request[r] # Done
  BY OrderKinds DEF SetsRoles, AccountsInv
<1>2. PICK u : u = request[r].user
  OBVIOUS
<1>3. u \in Users /\ account[u] \in {None} \cup Account /\ row[u] \in {None} \cup Row
  BY <1>1, <1>2, Before
<1>4. PICK roles : roles = request[r].roles
  OBVIOUS
<1>5. roles \in SUBSET ALLOWED_REALM_ROLES /\ row[u] \in Row /\ row[u] # None
  BY <1>1, <1>2, <1>4, Before DEF Wish, Updating
<1>6. PICK w, q : w = [row[u] EXCEPT !.roles = roles] /\ q = [at |-> "forget", user |-> u]
  OBVIOUS
<1>7. w \in Row /\ w # None /\ w.mail = row[u].mail /\ w.roles = roles
  BY <1>5, <1>6, NoneIsNothing DEF Row
<1>8. q \in Plain /\ q.user = u /\ q.at = "forget"
  BY <1>3, <1>6 DEF Plain
<1>9. Moves(r, q, account[u], w, profile[u], session[u]) /\ UNCHANGED <<shaken, stranded, banned>>
  BY <1>2, <1>3, <1>4, <1>6, StoresStay DEF SetsRoles, Continue, Moves, AccountsInv
<1>10. IsMove(r, q, account[u], w, profile[u], session[u])
  BY <1>1, <1>2, <1>7, <1>8, Before, Kinds DEF IsMove
<1>11. HalvesFit(r, q, account[u], w, profile[u])
  BY <1>1, <1>2, <1>5, <1>7, <1>8, Before, NoneIsNothing DEF HalvesFit, Halfway, Updating
<1>12. LocksFit(r, q, account[u], w, session[u])
  BY <1>1, <1>2, <1>5, <1>7, <1>8, <1>9, Before, NoneIsNothing DEF LocksFit
<1>13. u \notin shaken' \cup stranded' /\ w # None => Agrees(account[u], w, profile[u], q)
  BY <1>1, <1>2, <1>4, <1>5, <1>7, <1>8, <1>9, Before, NoneIsNothing DEF Agrees, Given
<1> QED
  BY <1>2, <1>9, <1>10, <1>11, <1>12, <1>13, RequestMoves

\* Keycloak opens a session for an enabled account.
LEMMA GetsTokenStep ==
  ASSUME AccountsInv, NEW r \in Requests, GetsToken(r)
  PROVE  AccountsInv'
<1>1. request[r] \in Plain /\ request[r].at = "token" /\ request[r] # Done
  BY OrderKinds DEF GetsToken, AccountsInv
<1>2. PICK u : u = request[r].user
  OBVIOUS
<1>3. u \in Users /\ account[u] \in {None} \cup Account /\ row[u] \in {None} \cup Row
  BY <1>1, <1>2, Before
<1>4. CASE account[u] = None \/ (account[u] # None /\ ~ account[u].enabled)
  BY <1>1, <1>2, <1>4, Continues DEF GetsToken, Continue, Halfway
<1>5. CASE ~ (account[u] = None \/ (account[u] # None /\ ~ account[u].enabled))
  <2>1. PICK q : q = [at |-> "login", user |-> u, roles |-> account[u].roles]
    OBVIOUS
  <2>2. q \in Login /\ q.user = u /\ q.at = "login" /\ q.roles = account[u].roles
    BY <1>3, <1>5, <2>1 DEF Login, Account
  <2>3. Moves(r, q, account[u], row[u], profile[u], session[u] + 1) /\ UNCHANGED <<shaken, stranded, banned>>
    BY <1>2, <1>3, <1>5, <2>1, StoresStay DEF GetsToken, Continue, Moves, AccountsInv, AccountsShape
  <2>4. IsMove(r, q, account[u], row[u], profile[u], session[u] + 1)
    BY <1>1, <1>2, <2>2, Before, Kinds DEF IsMove
  <2>5. HalvesFit(r, q, account[u], row[u], profile[u])
    BY <1>1, <1>2, <1>5, <2>2, Before, NoneIsNothing DEF HalvesFit, Halfway, Updating
  <2>6. LocksFit(r, q, account[u], row[u], session[u] + 1)
    BY <1>1, <1>2, <1>5, <2>2, <2>3, Before, NoneIsNothing DEF LocksFit
  <2>7. u \notin shaken' \cup stranded' /\ row[u] # None => Agrees(account[u], row[u], profile[u], q)
    BY <1>1, <1>2, <1>5, <2>2, <2>3, Before, NoneIsNothing DEF Agrees, Given
  <2> QED
    BY <1>2, <2>3, <2>4, <2>5, <2>6, <2>7, RequestMoves
<1> QED
  BY <1>4, <1>5

\* The row of who logs in takes over the roles of the token.
LEMMA RecordsLoginStep ==
  ASSUME AccountsInv, NEW r \in Requests, RecordsLogin(r)
  PROVE  AccountsInv'
<1>1. request[r] \in Login /\ request[r].at = "login" /\ request[r] # Done
  BY OrderKinds DEF RecordsLogin, AccountsInv
<1>2. PICK u : u = request[r].user
  OBVIOUS
<1>3. u \in Users /\ account[u] \in {None} \cup Account /\ row[u] \in {None} \cup Row
  BY <1>1, <1>2, Before
<1>4. PICK roles : roles = request[r].roles \cup {"user"}
  OBVIOUS
<1>5. roles \in SUBSET ALLOWED_REALM_ROLES
  BY <1>1, <1>4 DEF Login, ALLOWED_REALM_ROLES
<1>6. PICK w : w = IF row[u] = None \/ (row[u] # None /\ row[u].renamed) THEN row[u]
                   ELSE [row[u] EXCEPT !.roles = roles]
  OBVIOUS
<1>7. /\ w \in {None} \cup Row /\ (w = None <=> row[u] = None)
      /\ w # None => w = row[u] \/ (w.mail = row[u].mail /\ w.roles = roles)
  BY <1>3, <1>5, <1>6, NoneIsNothing DEF Row
<1>8. roles = row[u].roles => w = row[u]
  BY <1>3, <1>6 DEF Row
<1>9. row[u] # None /\ Agrees(account[u], row[u], profile[u], request[r]) => w = row[u]
  BY <1>1, <1>4, <1>8 DEF Agrees
<1>10. Moves(r, Done, account[u], w, profile[u], session[u]) /\ UNCHANGED <<shaken, stranded, banned>>
  BY <1>2, <1>3, <1>4, <1>6, StoresStay DEF RecordsLogin, Continue, Moves, AccountsInv, AccountsShape
<1>11. IsMove(r, Done, account[u], w, profile[u], session[u])
  BY <1>1, <1>2, <1>7, Before, Kinds DEF IsMove, Done
<1>12. HalvesFit(r, Done, account[u], w, profile[u])
  BY <1>1, <1>2, <1>7, Before, NoneIsNothing DEF HalvesFit, Halfway, Updating, Done
<1>13. LocksFit(r, Done, account[u], w, session[u])
  BY <1>1, <1>2, <1>7, <1>10, Before, NoneIsNothing DEF LocksFit, Done
<1>14. u \notin shaken' \cup stranded' /\ w # None => Agrees(account[u], w, profile[u], Done)
  BY <1>1, <1>2, <1>7, <1>9, <1>10, Before, NoneIsNothing DEF Agrees, Given, Done
<1> QED
  BY <1>2, <1>10, <1>11, <1>12, <1>13, <1>14, RequestMoves

\* The old password opens a session at an enabled account.
LEMMA VerifiesPasswordStep ==
  ASSUME AccountsInv, NEW r \in Requests, VerifiesPassword(r)
  PROVE  AccountsInv'
<1>1. request[r] \in Verify /\ request[r].at = "verify" /\ request[r] # Done
  BY OrderKinds DEF VerifiesPassword, AccountsInv
<1>2. PICK u : u = request[r].user
  OBVIOUS
<1>3. u \in Users /\ account[u] \in {None} \cup Account /\ row[u] \in {None} \cup Row
  BY <1>1, <1>2, Before
<1>4. row[u] # None /\ account[u] \in Account
  BY <1>1, <1>2, Before DEF Updating
<1>5. CASE request[r].renamed \/ ~ account[u].enabled
  BY <1>1, <1>2, <1>5, Continues DEF VerifiesPassword, Continue, Halfway
<1>6. CASE ~ (request[r].renamed \/ ~ account[u].enabled)
  <2>1. PICK q : q = [at |-> "password", user |-> u]
    OBVIOUS
  <2>2. q \in Plain /\ q.user = u /\ q.at = "password"
    BY <1>3, <2>1 DEF Plain
  <2>3. Moves(r, q, account[u], row[u], profile[u], session[u] + 1) /\ UNCHANGED <<shaken, stranded, banned>>
    BY <1>2, <1>3, <1>6, <2>1, StoresStay DEF VerifiesPassword, Continue, Moves, AccountsInv, AccountsShape
  <2>4. IsMove(r, q, account[u], row[u], profile[u], session[u] + 1)
    BY <1>1, <1>2, <2>2, Before, Kinds DEF IsMove
  <2>5. HalvesFit(r, q, account[u], row[u], profile[u])
    BY <1>1, <1>2, <1>4, <2>2, Before, NoneIsNothing DEF HalvesFit, Halfway, Updating
  <2>6. LocksFit(r, q, account[u], row[u], session[u] + 1)
    BY <1>1, <1>2, <1>6, <2>2, <2>3, Before, NoneIsNothing DEF LocksFit
  <2>7. u \notin shaken' \cup stranded' /\ row[u] # None => Agrees(account[u], row[u], profile[u], q)
    BY <1>1, <1>2, <1>4, <2>2, <2>3, Before, NoneIsNothing DEF Agrees, Given
  <2> QED
    BY <1>2, <2>3, <2>4, <2>5, <2>6, <2>7, RequestMoves
<1> QED
  BY <1>5, <1>6

\* A new password changes nothing that is followed here.
LEMMA SetsPasswordStep ==
  ASSUME AccountsInv, NEW r \in Requests, SetsPassword(r)
  PROVE  AccountsInv'
<1>1. request[r] \in Plain /\ request[r].at = "password" /\ request[r] # Done
  BY OrderKinds DEF SetsPassword, AccountsInv
<1>2. PICK u : u = request[r].user
  OBVIOUS
<1>3. u \in Users /\ account[u] \in {None} \cup Account /\ row[u] \in {None} \cup Row
  BY <1>1, <1>2, Before
<1> QED
  BY <1>1, <1>2, Continues DEF SetsPassword, Continue, Halfway

\* The row is read for the cache.
LEMMA FindsRowStep ==
  ASSUME AccountsInv, NEW r \in Requests, FindsRow(r)
  PROVE  AccountsInv'
<1>1. request[r] \in Plain /\ request[r].at = "find" /\ request[r] # Done
  BY OrderKinds DEF FindsRow, AccountsInv
<1>2. PICK u : u = request[r].user
  OBVIOUS
<1>3. u \in Users /\ account[u] \in {None} \cup Account /\ row[u] \in {None} \cup Row
  BY <1>1, <1>2, Before
<1>4. row[u] # None
  BY <1>1, <1>2, Before DEF Updating
<1>5. PICK q : q = [at |-> "keep", user |-> u, copy |-> row[u]]
  OBVIOUS
<1>6. q \in Keep /\ q.at = "keep" /\ q.user = u /\ q.copy = row[u]
  BY <1>3, <1>4, <1>5 DEF Keep
<1>7. Agrees(account[u], row[u], profile[u], request[r]) => Agrees(account[u], row[u], profile[u], q)
  BY <1>1, <1>6 DEF Agrees
<1>8. request' = [request EXCEPT ![r] = q]
      /\ UNCHANGED <<account, session, row, profile, banned, shaken, stranded>>
  BY <1>2, <1>5 DEF FindsRow, Continue
<1> QED
  BY <1>1, <1>2, <1>4, <1>6, <1>7, <1>8, Kinds, Reads DEF Halfway

\* The row that was read is cached.
LEMMA KeepsProfileStep ==
  ASSUME AccountsInv, NEW r \in Requests, KeepsProfile(r)
  PROVE  AccountsInv'
<1>1. request[r] \in Keep /\ request[r].at = "keep" /\ request[r] # Done
  BY OrderKinds DEF KeepsProfile, AccountsInv
<1>2. PICK u : u = request[r].user
  OBVIOUS
<1>3. u \in Users /\ account[u] \in {None} \cup Account /\ row[u] \in {None} \cup Row
  BY <1>1, <1>2, Before
<1>4. PICK p : p = request[r].copy
  OBVIOUS
<1>5. p \in Row /\ row[u] # None
  BY <1>1, <1>2, <1>4, Before DEF Keep, Updating
<1>6. Moves(r, Done, account[u], row[u], p, session[u]) /\ UNCHANGED <<shaken, stranded, banned>>
  BY <1>2, <1>3, <1>4, StoresStay DEF KeepsProfile, Continue, Moves, AccountsInv
<1>7. IsMove(r, Done, account[u], row[u], p, session[u])
  BY <1>1, <1>2, <1>5, Before, Kinds DEF IsMove, Done
<1>8. HalvesFit(r, Done, account[u], row[u], p)
  BY <1>1, <1>2, <1>5, Before, NoneIsNothing DEF HalvesFit, Halfway, Updating, Done
<1>9. LocksFit(r, Done, account[u], row[u], session[u])
  BY <1>1, <1>2, <1>5, <1>6, Before, NoneIsNothing DEF LocksFit, Done
<1>10. u \notin shaken' \cup stranded' /\ row[u] # None => Agrees(account[u], row[u], p, Done)
  BY <1>1, <1>2, <1>4, <1>5, <1>6, Before, NoneIsNothing DEF Agrees, Given, Done
<1> QED
  BY <1>2, <1>6, <1>7, <1>8, <1>9, <1>10, RequestMoves

\* An account is created for a name and a mail nobody has.
LEMMA CreatesAccountStep ==
  ASSUME AccountsInv, NEW r \in Requests, CreatesAccount(r)
  PROVE  AccountsInv'
<1>1. request[r] \in Creation /\ request[r].at = "account" /\ request[r] # Done
  BY OrderKinds DEF CreatesAccount, AccountsInv
<1>2. PICK u : u = request[r].user
  OBVIOUS
<1>3. u \in Users /\ account[u] \in {None} \cup Account /\ row[u] \in {None} \cup Row
  BY <1>1, <1>2, Before
<1>4. CASE account[u] # None \/ Taken(account, u, request[r].mail)
  BY <1>1, <1>2, <1>4, Continues DEF CreatesAccount, Continue, Halfway
<1>5. CASE ~ (account[u] # None \/ Taken(account, u, request[r].mail))
  <2>1. PICK a, q : a = [mail |-> request[r].mail, enabled |-> TRUE, roles |-> {}] /\ q = [request[r] EXCEPT !.at = "grant"]
    OBVIOUS
  <2>2. a \in Account /\ a # None /\ a.mail = request[r].mail
    <3>1. request[r].mail \in Mails /\ TRUE \in BOOLEAN /\ {} \in SUBSET ALLOWED_REALM_ROLES
      BY <1>1 DEF Creation
    <3>2. a \in Account
      BY <2>1, <3>1 DEF Account
    <3> QED
      BY <2>1, <3>2, NoneIsNothing
  <2>3. q \in Creation /\ q.user = u /\ q.at = "grant" /\ q.mail = request[r].mail
    BY <1>1, <1>2, <2>1 DEF Creation
  <2>4. row[u] = None
    BY <1>3, <1>5 DEF AccountsInv, Halves
  <2>5. Moves(r, q, a, row[u], profile[u], session[u]) /\ UNCHANGED <<shaken, stranded, banned>>
    BY <1>2, <1>3, <1>5, <2>1, StoresStay DEF CreatesAccount, Continue, Moves, AccountsInv
  <2>6. IsMove(r, q, a, row[u], profile[u], session[u])
    BY <1>1, <1>2, <2>2, <2>3, Before, Kinds DEF IsMove
  <2>7. HalvesFit(r, q, a, row[u], profile[u])
    BY <1>1, <1>2, <1>5, <2>2, <2>3, <2>4, Before, NoneIsNothing DEF HalvesFit, Halfway, Updating
  <2>8. LocksFit(r, q, a, row[u], session[u])
    BY <1>1, <1>2, <2>3, <2>4, <2>5, Before, NoneIsNothing DEF LocksFit
  <2>9. u \notin shaken' \cup stranded' /\ row[u] # None => Agrees(a, row[u], profile[u], q)
    BY <1>1, <1>2, <2>4, <2>5, Before, NoneIsNothing DEF Agrees, Given
  <2> QED
    BY <1>2, <2>5, <2>6, <2>7, <2>8, <2>9, RequestMoves
<1> QED
  BY <1>4, <1>5

\* The account gets the role of every user.
LEMMA GrantsUserStep ==
  ASSUME AccountsInv, NEW r \in Requests, GrantsUser(r)
  PROVE  AccountsInv'
<1>1. request[r] \in Creation /\ request[r].at = "grant" /\ request[r] # Done
  BY OrderKinds DEF GrantsUser, AccountsInv
<1>2. PICK u : u = request[r].user
  OBVIOUS
<1>3. u \in Users /\ account[u] \in {None} \cup Account /\ row[u] \in {None} \cup Row
  BY <1>1, <1>2, Before
<1>4. /\ account[u] \in Account /\ account[u] # None /\ row[u] = None /\ profile[u] = None
      /\ account[u].mail = request[r].mail /\ (request[r].at = "insert" => account[u].roles = {"user"})
  BY <1>1, <1>2, <1>3, Before DEF AccountsInv, Halves, Halfway

<1>5. PICK a, q : a = [account[u] EXCEPT !.roles = {"user"}] /\ q = [request[r] EXCEPT !.at = "insert"]
  OBVIOUS
<1>6. a \in Account /\ a # None /\ a.mail = account[u].mail /\ a.roles = {"user"}
  BY <1>4, <1>5, NoneIsNothing DEF Account, ALLOWED_REALM_ROLES
<1>7. q \in Creation /\ q.user = u /\ q.at = "insert" /\ q.mail = request[r].mail
  BY <1>1, <1>2, <1>5 DEF Creation
<1>8. Moves(r, q, a, row[u], profile[u], session[u]) /\ UNCHANGED <<shaken, stranded, banned>>
  BY <1>2, <1>3, <1>5, StoresStay DEF GrantsUser, Continue, Moves, AccountsInv
<1>9. IsMove(r, q, a, row[u], profile[u], session[u])
  BY <1>1, <1>2, <1>6, <1>7, Before, Kinds DEF IsMove
<1>10. HalvesFit(r, q, a, row[u], profile[u])
  BY <1>1, <1>2, <1>4, <1>6, <1>7, Before, NoneIsNothing DEF HalvesFit, Halfway, Updating
<1>11. LocksFit(r, q, a, row[u], session[u])
  BY <1>1, <1>2, <1>4, <1>7, <1>8, Before, NoneIsNothing DEF LocksFit
<1>12. u \notin shaken' \cup stranded' /\ row[u] # None => Agrees(a, row[u], profile[u], q)
  BY <1>1, <1>2, <1>4, <1>8, Before, NoneIsNothing DEF Agrees, Given
<1> QED
  BY <1>2, <1>8, <1>9, <1>10, <1>11, <1>12, RequestMoves

\* A registration that cannot go on turns to taking its account back.
LEMMA Compensates ==
  ASSUME AccountsInv, NEW r \in Requests, request[r].at \in {"grant", "insert"},
         request' = [request EXCEPT ![r] = Compensation(r)],
         UNCHANGED <<account, session, row, profile, banned, shaken, stranded>>
  PROVE  AccountsInv'
<1>1. request[r] \in Creation /\ request[r] # Done
  BY OrderKinds DEF AccountsInv
<1>2. PICK u : u = request[r].user
  OBVIOUS
<1>3. u \in Users /\ account[u] \in {None} \cup Account /\ row[u] \in {None} \cup Row
  BY <1>1, <1>2, Before
<1>4. /\ account[u] \in Account /\ account[u] # None /\ row[u] = None /\ profile[u] = None
      /\ account[u].mail = request[r].mail
  BY <1>1, <1>2, <1>3, Before DEF AccountsInv, Halves, Halfway
<1>5. PICK q : q = [request[r] EXCEPT !.at = "undo"]
  OBVIOUS
<1>6. q \in Creation /\ q.user = u /\ q.at = "undo" /\ q.mail = request[r].mail
  BY <1>1, <1>2, <1>5 DEF Creation
<1>7. Moves(r, q, account[u], row[u], profile[u], session[u]) /\ UNCHANGED <<shaken, stranded, banned>>
  BY <1>2, <1>3, <1>5, StoresStay DEF Compensation, Continue, Moves, AccountsInv
<1>8. IsMove(r, q, account[u], row[u], profile[u], session[u])
  BY <1>1, <1>2, <1>6, Before, Kinds DEF IsMove
<1>9. HalvesFit(r, q, account[u], row[u], profile[u])
  BY <1>1, <1>2, <1>4, <1>6, Before, NoneIsNothing DEF HalvesFit, Halfway, Updating
<1>10. LocksFit(r, q, account[u], row[u], session[u])
  BY <1>1, <1>2, <1>4, <1>6, <1>7, Before, NoneIsNothing DEF LocksFit
<1>11. u \notin shaken' \cup stranded' /\ row[u] # None => Agrees(account[u], row[u], profile[u], q)
  BY <1>1, <1>2, <1>4, <1>7, Before, NoneIsNothing DEF Agrees, Given
<1> QED
  BY <1>2, <1>7, <1>8, <1>9, <1>10, <1>11, RequestMoves

\* The row is inserted, or the account is to go.
LEMMA InsertsRowStep ==
  ASSUME AccountsInv, NEW r \in Requests, InsertsRow(r)
  PROVE  AccountsInv'
<1>1. request[r] \in Creation /\ request[r].at = "insert" /\ request[r] # Done
  BY OrderKinds DEF InsertsRow, AccountsInv
<1>2. PICK u : u = request[r].user
  OBVIOUS
<1>3. u \in Users /\ account[u] \in {None} \cup Account /\ row[u] \in {None} \cup Row
  BY <1>1, <1>2, Before
<1>4. /\ account[u] \in Account /\ account[u] # None /\ row[u] = None /\ profile[u] = None
      /\ account[u].mail = request[r].mail /\ (request[r].at = "insert" => account[u].roles = {"user"})
  BY <1>1, <1>2, <1>3, Before DEF AccountsInv, Halves, Halfway

<1>5. CASE row[u] # None \/ Taken(row, u, request[r].mail)
  BY <1>1, <1>2, <1>5, Compensates DEF InsertsRow, Continue
<1>6. CASE ~ (row[u] # None \/ Taken(row, u, request[r].mail))
  <2>1. PICK w : w = [mail |-> request[r].mail, active |-> request[r].active,
                      roles |-> {"user"}, renamed |-> FALSE]
    OBVIOUS
  <2>2. w \in Row /\ w # None /\ w.mail = request[r].mail /\ w.roles = {"user"}
    <3>1. request[r].mail \in Mails /\ request[r].active \in BOOLEAN /\ FALSE \in BOOLEAN
      BY <1>1 DEF Creation
    <3>2. {"user"} \in SUBSET ALLOWED_REALM_ROLES
      BY DEF ALLOWED_REALM_ROLES
    <3>3. w \in Row
      BY <2>1, <3>1, <3>2 DEF Row
    <3> QED
      BY <2>1, <3>3, NoneIsNothing
  <2>3. Moves(r, Done, account[u], w, profile[u], session[u]) /\ UNCHANGED <<shaken, stranded, banned>>
    BY <1>2, <1>3, <1>6, <2>1, StoresStay DEF InsertsRow, Continue, Moves, AccountsInv
  <2>4. IsMove(r, Done, account[u], w, profile[u], session[u])
    BY <1>1, <1>2, <2>2, Before, Kinds DEF IsMove, Done
  <2>5. HalvesFit(r, Done, account[u], w, profile[u])
    BY <1>1, <1>2, <1>4, <2>2, Before, NoneIsNothing DEF HalvesFit, Halfway, Updating, Done
  <2>6. LocksFit(r, Done, account[u], w, session[u])
    BY <1>1, <1>2, <1>4, <2>3, Before, NoneIsNothing DEF LocksFit, Done
  <2>7. u \notin shaken' \cup stranded' /\ w # None => Agrees(account[u], w, profile[u], Done)
    BY <1>1, <1>2, <1>4, <2>2, <2>3, Before, NoneIsNothing DEF Agrees, Given, Done
  <2> QED
    BY <1>2, <2>3, <2>4, <2>5, <2>6, <2>7, RequestMoves
<1> QED
  BY <1>5, <1>6

\* The account is taken back.
LEMMA DeletesAccountStep ==
  ASSUME AccountsInv, NEW r \in Requests, DeletesAccount(r)
  PROVE  AccountsInv'
<1>1. request[r] \in Creation /\ request[r].at = "undo" /\ request[r] # Done
  BY OrderKinds DEF DeletesAccount, AccountsInv
<1>2. PICK u : u = request[r].user
  OBVIOUS
<1>3. u \in Users /\ account[u] \in {None} \cup Account /\ row[u] \in {None} \cup Row
  BY <1>1, <1>2, Before
<1>4. /\ account[u] \in Account /\ account[u] # None /\ row[u] = None /\ profile[u] = None
      /\ account[u].mail = request[r].mail /\ (request[r].at = "insert" => account[u].roles = {"user"})
  BY <1>1, <1>2, <1>3, Before DEF AccountsInv, Halves, Halfway
<1>5. Moves(r, Done, None, row[u], profile[u], 0) /\ UNCHANGED <<shaken, stranded, banned>>
  BY <1>2, <1>3, <1>4, StoresStay DEF DeletesAccount, Continue, Moves, AccountsInv
<1>6. IsMove(r, Done, None, row[u], profile[u], 0)
  BY <1>1, <1>2, <1>1, Before, Kinds DEF IsMove, Done
<1>7. HalvesFit(r, Done, None, row[u], profile[u])
  BY <1>1, <1>2, <1>4, Before, NoneIsNothing DEF HalvesFit, Halfway, Updating, Done
<1>8. LocksFit(r, Done, None, row[u], 0)
  BY <1>1, <1>2, <1>4, <1>5, Before, NoneIsNothing DEF LocksFit, Done
<1>9. u \notin shaken' \cup stranded' /\ row[u] # None => Agrees(None, row[u], profile[u], Done)
  BY <1>1, <1>2, <1>4, <1>5, Before, NoneIsNothing DEF Agrees, Given, Done
<1> QED
  BY <1>2, <1>5, <1>6, <1>7, <1>8, <1>9, RequestMoves

\* An account is created and nobody knows.
LEMMA LosesAnswerStep ==
  ASSUME AccountsInv, NEW r \in Requests, LosesAnswer(r)
  PROVE  AccountsInv'
<1>1. request[r] \in Creation /\ request[r].at = "account" /\ request[r] # Done
  BY OrderKinds DEF LosesAnswer, AccountsInv
<1>2. PICK u : u = request[r].user
  OBVIOUS
<1>3. u \in Users /\ account[u] \in {None} \cup Account /\ row[u] \in {None} \cup Row
  BY <1>1, <1>2, Before
<1>4. account[u] = None /\ row[u] = None /\ stranded' = stranded \cup {u}
  BY <1>2, <1>3 DEF LosesAnswer, AccountsInv, Halves
<1>5. PICK a : a = [mail |-> request[r].mail, enabled |-> TRUE, roles |-> {}]
  OBVIOUS
<1>6. a \in Account /\ a # None
  <2>1. request[r].mail \in Mails /\ TRUE \in BOOLEAN /\ {} \in SUBSET ALLOWED_REALM_ROLES
    BY <1>1 DEF Creation
  <2>2. a \in Account
    BY <1>5, <2>1 DEF Account
  <2> QED
    BY <2>2, NoneIsNothing
<1>7. Moves(r, Done, a, row[u], profile[u], session[u]) /\ UNCHANGED <<shaken, banned>>
  BY <1>2, <1>3, <1>4, <1>5, StoresStay DEF LosesAnswer, Continue, Moves, AccountsInv
<1>8. IsMove(r, Done, a, row[u], profile[u], session[u])
  BY <1>1, <1>2, <1>6, Before, Kinds DEF IsMove, Done
<1>9. HalvesFit(r, Done, a, row[u], profile[u])
  BY <1>1, <1>2, <1>4, <1>6, Before, NoneIsNothing DEF HalvesFit, Halfway, Updating, Done
<1>10. LocksFit(r, Done, a, row[u], session[u])
  BY <1>1, <1>2, <1>4, <1>7, Before, NoneIsNothing DEF LocksFit, Done
<1>11. u \notin shaken' \cup stranded' /\ row[u] # None => Agrees(a, row[u], profile[u], Done)
  BY <1>1, <1>2, <1>4, <1>7, Before, NoneIsNothing DEF Agrees, Given, Done
<1> QED
  BY <1>2, <1>7, <1>8, <1>9, <1>10, <1>11, RequestMoves

\* A call fails: a registration compensates, a compensation is given up, and every
\* other request stops, its user shaken if something had been written.
LEMMA FailsStep ==
  ASSUME AccountsInv, NEW r \in Requests, Fails(r)
  PROVE  AccountsInv'
<1>1. request[r] # Done
  BY DEF Fails
<1>2. PICK u : u = request[r].user
  OBVIOUS
<1>3. /\ request' = [request EXCEPT ![r] = IF Creating(r) THEN Compensation(r) ELSE Done]
      /\ stranded' = IF request[r].at = "undo" THEN stranded \cup {u} ELSE stranded
      /\ shaken' = IF Creating(r) \/ request[r].at \in Harmless \cup {"undo"} THEN shaken ELSE shaken \cup {u}
      /\ UNCHANGED <<account, session, row, profile, banned>>
  BY <1>2 DEF Fails, Continue
<1>4. CASE Creating(r)
  <2>1. request[r].at \in {"grant", "insert"}
    BY <1>4 DEF Creating
  <2> QED
    BY <1>3, <1>4, <2>1, Compensates
<1>5. CASE request[r].at = "undo"
  <2>1. u \in Users /\ account[u] # None /\ row[u] = None /\ profile[u] = None
    BY <1>1, <1>2, <1>5, Before DEF AccountsInv, Halves, Halfway
  <2>2. Moves(r, Done, account[u], row[u], profile[u], session[u])
    BY <1>2, <1>3, <1>5, <2>1, StoresStay DEF Moves, AccountsInv, Creating
  <2>3. IsMove(r, Done, account[u], row[u], profile[u], session[u])
    BY <1>1, <1>2, Before DEF IsMove, Done
  <2>4. HalvesFit(r, Done, account[u], row[u], profile[u])
    BY <1>2, <1>3, <1>5, <2>1 DEF HalvesFit, Done, Halfway, Updating
  <2>5. LocksFit(r, Done, account[u], row[u], session[u])
    BY <1>2, <1>3, <2>1 DEF LocksFit, Done
  <2> QED
    BY <1>2, <2>1, <2>2, <2>3, <2>4, <2>5, RequestMoves
<1>6. CASE ~ Creating(r) /\ request[r].at # "undo"
  <2>1. request[r].at \notin Halfway
    BY <1>6 DEF Creating, Halfway
  <2>2. /\ request' = [request EXCEPT ![r] = Done] /\ stranded' = stranded
        /\ shaken' = IF request[r].at \in Harmless THEN shaken ELSE shaken \cup {u}
    BY <1>3, <1>6
  <2>3. request[r].at \in {"assign", "roles", "forget", "load", "save"} => u \in shaken'
    BY <2>2 DEF Harmless
  <2>4. shaken \subseteq shaken'
    BY <2>2
  <2> QED
    BY <1>1, <1>2, <1>3, <2>1, <2>2, <2>3, <2>4, Continues
<1> QED
  BY <1>4, <1>5, <1>6

-----------------------------------------------------------------------------
(* Requests that begin, and steps no request makes.                        *)

Beginning == {"account", "compare", "diff", "token", "verify", "find", "enable"}

\* A request that begins shakes a user another is under way on; it may take the
\* certainty of a deactivation, and nothing else of the others.
LEMMA RequestBegins ==
  ASSUME AccountsInv, NEW r \in Requests, NEW u \in Users, request[r] = Done,
         NEW q \in Order, q.user = u, q.at \in Beginning,
         q.at \in Updating => row[u] # None, q.at = "diff" => "user" \in q.roles,
         request' = [o \in Requests |-> request'[o]], request'[r] = q,
         \A o \in Requests \ {r} :
           \/ request'[o] = request[o]
           \/ request[o] \in Switch /\ request'[o] = [request[o] EXCEPT !.sure = FALSE],
         shaken' = IF Others(r, u) = {} THEN shaken ELSE shaken \cup {u},
         UNCHANGED <<account, session, row, profile, stranded>>
  PROVE  AccountsShape' /\ Halves' /\ Agreement'
<1> USE DEF AccountsInv
<1>1. \A o \in Requests \ {r} :
        /\ request'[o] \in {Done} \cup Order /\ request'[o].at = request[o].at
        /\ request[o] # Done => request'[o] # Done /\ request'[o].user = request[o].user
        /\ request[o] = Done => request'[o] = Done
        /\ request'[o] = request[o] \/ request[o].at \in {"enable", "revoke", "status"}
  <2> SUFFICES ASSUME NEW o \in Requests \ {r}
               PROVE  /\ request'[o] \in {Done} \cup Order /\ request'[o].at = request[o].at
                      /\ request[o] # Done => request'[o] # Done /\ request'[o].user = request[o].user
                      /\ request[o] = Done => request'[o] = Done
                      /\ request'[o] = request[o] \/ request[o].at \in {"enable", "revoke", "status"}
    OBVIOUS
  <2>1. CASE request'[o] = request[o]
    BY <2>1, OrderKinds
  <2>2. CASE request'[o] # request[o]
    <3>1. request[o] \in Switch /\ request'[o] = [request[o] EXCEPT !.sure = FALSE]
      BY <2>2
    <3>2. request'[o] \in Switch /\ request'[o].at = request[o].at /\ request'[o].user = request[o].user
          /\ request[o].at \in {"enable", "revoke", "status"}
      BY <3>1 DEF Switch
    <3>3. request[o] # Done /\ request'[o] # Done
      BY <3>2 DEF Done
    <3> QED
      BY <3>2, <3>3, Kinds
  <2> QED
    BY <2>1, <2>2
<1>2. q # Done /\ q.at \notin Halfway /\ q.at # "mail"
  BY DEF Beginning, Halfway, Done
<1>3. request[r].at = "done"
  BY DEF Done
<1>4. AccountsShape'
  <2>1. Order' = Order
    BY DEF Order, Creation, Update, Save, Plain, Switch, Wish, Exchange, Login, Verify, Keep
  <2>2. \A o \in Requests : request'[o] \in {Done} \cup Order
    BY <1>1
  <2>3. request' \in [Requests -> {Done} \cup Order]
    BY <2>2, Zenon
  <2>4. \A o \in Requests : request'[o].at = "mail" => request'[o].dto.mail # None
    <3> SUFFICES ASSUME NEW o \in Requests, request'[o].at = "mail" PROVE request'[o].dto.mail # None
      OBVIOUS
    <3>1. o # r /\ request[o].at = "mail" /\ request'[o] = request[o]
      BY <1>1, <1>2
    <3> QED
      BY <3>1 DEF AccountsShape
  <2> QED
    BY <2>1, <2>3, <2>4 DEF AccountsShape
<1>5. Halves'
  <2>1. \A o \in Requests : request'[o].at \in Halfway <=> request[o].at \in Halfway
    BY <1>1, <1>2, <1>3 DEF Halfway
  <2>2. \A o \in Requests : request[o].at \in Halfway => request'[o] = request[o]
    BY <1>1, <1>3 DEF Halfway
  <2>3. \A o \in Requests : request'[o].at \in Updating => row[request'[o].user] # None
    <3> SUFFICES ASSUME NEW o \in Requests, request'[o].at \in Updating PROVE row[request'[o].user] # None
      OBVIOUS
    <3>1. CASE o = r
      BY <3>1
    <3>2. CASE o # r
      <4>1. request[o].at \in Updating /\ request[o] # Done
        BY <1>1, <3>2 DEF Updating, Done
      <4> QED
        BY <1>1, <3>2, <4>1 DEF Halves
    <3> QED
      BY <3>1, <3>2
  <2>4. UNCHANGED <<Halfway, Updating>>
    BY DEF Halfway, Updating
  <2>5. \A o \in Requests : request'[o].at \in Halfway =>
          LET v == request'[o].user IN
            /\ account[v] # None /\ row[v] = None
            /\ account[v].mail = request'[o].mail
            /\ request'[o].at = "insert" => account[v].roles = {"user"}
            /\ \A b \in Requests : request'[b].at \in Halfway /\ request'[b].user = v => b = o
    <3> SUFFICES ASSUME NEW o \in Requests, request'[o].at \in Halfway
                 PROVE  LET v == request'[o].user IN
                          /\ account[v] # None /\ row[v] = None
                          /\ account[v].mail = request'[o].mail
                          /\ request'[o].at = "insert" => account[v].roles = {"user"}
                          /\ \A b \in Requests : request'[b].at \in Halfway /\ request'[b].user = v => b = o
      OBVIOUS
    <3>1. request'[o] = request[o] /\ request[o].at \in Halfway
      BY <2>1, <2>2
    <3>2. \A b \in Requests : request'[b].at \in Halfway =>
            request'[b].user = request[b].user /\ request[b].at \in Halfway
      BY <2>1, <2>2
    <3> HIDE DEF Halfway
    <3>3. PICK v : v = request[o].user
      OBVIOUS
    <3>4. /\ account[v] # None /\ row[v] = None /\ account[v].mail = request[o].mail
          /\ request[o].at = "insert" => account[v].roles = {"user"}
          /\ \A b \in Requests : request[b].at \in Halfway /\ request[b].user = v => b = o
      BY <3>1, <3>3 DEF Halves
    <3>5. \A b \in Requests : request'[b].at \in Halfway /\ request'[b].user = v => b = o
      BY <3>2, <3>4
    <3> QED
      BY <3>1, <3>3, <3>4, <3>5
  <2>6. \A v \in Users \ stranded : account[v] # None /\ row[v] = None =>
          \E o \in Requests : request'[o].at \in Halfway /\ request'[o].user = v
    <3> HIDE DEF Halfway
    <3> QED
      BY <2>1, <2>2 DEF Halves
  <2> HIDE DEF Halfway, Updating
  <2> QED
    BY <2>3, <2>4, <2>5, <2>6 DEF Halves
<1>6. Agreement'
  <2>1. \A v : On(r, v)' => v = u
    BY DEF On
  <2>2. \A o \in Requests \ {r} : \A v : On(o, v)' <=> On(o, v)
    BY <1>1 DEF On
  <2>3. \A v : ~ On(r, v)
    BY DEF On
  <2>4. On(r, u)'
    BY <1>2 DEF On
  <2>5. ASSUME u \notin shaken' PROVE \A o \in Requests \ {r} : ~ On(o, u)
    BY <2>5 DEF On, Others
  <2>6. shaken \subseteq shaken'
    OBVIOUS
  <2> SUFFICES ASSUME NEW v \in Users \ shaken'
               PROVE  /\ \A b, o \in Requests : On(b, v)' /\ On(o, v)' => b = o
                      /\ v \notin stranded /\ row[v] # None =>
                           /\ \A b \in Requests : On(b, v)' => Agrees(account[v], row[v], profile[v], request'[b])
                           /\ (\A b \in Requests : ~ On(b, v)') => Agrees(account[v], row[v], profile[v], Done)
    BY DEF Agreement, Agrees, Given
  <2>7. CASE v = u
    <3>1. \A o \in Requests : On(o, v)' => o = r
      BY <2>2, <2>5, <2>7
    <3>2. \A o \in Requests : ~ On(o, v)
      BY <2>3, <2>5, <2>7
    <3>3. v \notin stranded /\ row[v] # None => Agrees(account[v], row[v], profile[v], Done)
      BY <2>6, <3>2 DEF Agreement
    <3>4. Agrees(account[v], row[v], profile[v], Done) => Agrees(account[v], row[v], profile[v], q)
      BY DEF Agrees, Done, Beginning
    <3> QED
      BY <2>4, <2>7, <3>1, <3>3, <3>4
  <2>8. CASE v # u
    <3>1. \A o \in Requests : On(o, v)' <=> On(o, v)
      BY <2>1, <2>2, <2>3, <2>8
    <3>2. \A b, o \in Requests : On(b, v)' /\ On(o, v)' => b = o
      BY <2>6, <3>1 DEF Agreement
    <3>3. ASSUME v \notin stranded, row[v] # None, NEW b \in Requests, On(b, v)'
          PROVE  Agrees(account[v], row[v], profile[v], request'[b])
      <4>1. Agrees(account[v], row[v], profile[v], request[b]) /\ b # r
        BY <2>1, <2>6, <2>8, <3>1, <3>3 DEF Agreement
      <4>2. CASE request'[b] = request[b]
        BY <4>1, <4>2
      <4>3. CASE request'[b] # request[b]
        <5>1. request[b].at \in {"enable", "revoke", "status"} /\ request'[b].at = request[b].at
          BY <1>1, <4>1, <4>3
        <5> QED
          BY <4>1, <5>1 DEF Agrees
      <4> QED
        BY <4>2, <4>3
    <3>4. ASSUME v \notin stranded, row[v] # None, \A b \in Requests : ~ On(b, v)'
          PROVE  Agrees(account[v], row[v], profile[v], Done)
      BY <2>6, <3>1, <3>4 DEF Agreement
    <3> QED
      BY <3>2, <3>3, <3>4
  <2> QED
    BY <2>7, <2>8
<1> QED
  BY <1>4, <1>5, <1>6

\* A request that is no change of the status leaves those alone.
LEMMA Accepts ==
  ASSUME AccountsInv, NEW r \in Requests, NEW u \in Users,
         NEW q \in Order, q.user = u, q.at \in Beginning \ {"enable"},
         q.at \in Updating => row[u] # None, q.at = "diff" => "user" \in q.roles,
         Accept(r, u, q), banned' = banned
  PROVE  AccountsInv'
<1>1. /\ request[r] = Done /\ request' = [request EXCEPT ![r] = q]
      /\ shaken' = IF Others(r, u) = {} THEN shaken ELSE shaken \cup {u}
      /\ UNCHANGED <<account, session, row, profile, stranded>>
  BY DEF Accept
<1>2. /\ request' = [o \in Requests |-> request'[o]] /\ request'[r] = q
      /\ \A o \in Requests \ {r} : request'[o] = request[o]
  BY <1>1 DEF AccountsInv, AccountsShape
<1>3. AccountsShape' /\ Halves' /\ Agreement'
  BY <1>1, <1>2, RequestBegins
<1>4. q.at \notin {"enable", "revoke", "status"} /\ request[r].at \notin {"enable", "revoke", "status"}
  BY <1>1 DEF Beginning, Done
<1>5. \A v, b : Changing(v, b)' = Changing(v, b)
  BY <1>2, <1>4 DEF Changing
<1>6. \A v, b : \A o \in Changing(v, b) : o \in Requests \ {r}
  BY <1>4 DEF Changing
<1>7. Locks'
  <2>1. \A v \in banned :
          v \in Users /\ row[v] # None /\ ~ account[v].enabled /\ session[v] = 0 /\ Changing(v, TRUE)' = {}
    BY <1>5 DEF AccountsInv, Locks
  <2>2. ASSUME NEW v \in Users, NEW o \in Changing(v, FALSE)', request'[o].sure
        PROVE  /\ Changing(v, TRUE)' = {}
               /\ request'[o].at \in {"revoke", "status"} => ~ account[v].enabled
               /\ request'[o].at = "status" => session[v] = 0
    <3>1. o \in Changing(v, FALSE)
      BY <1>5
    <3>2. request'[o] = request[o]
      BY <1>2, <1>6, <3>1
    <3> QED
      BY <1>5, <2>2, <3>1, <3>2 DEF AccountsInv, Locks
  <2> QED
    BY <1>1, <2>1, <2>2 DEF Locks
<1> QED
  BY <1>3, <1>7 DEF AccountsInv

\* An activation lets a banned user back and takes the certainty of deactivations
\* under way; a deactivation is sure of itself if no activation is.
LEMMA AskStatusStep ==
  ASSUME AccountsInv, NEW r \in Requests, NEW u \in Users, NEW active \in BOOLEAN,
         AskStatus(r, u, active)
  PROVE  AccountsInv'
<1> DEFINE certain == Changing(u, TRUE) = {}
<1>1. PICK q : q = [at |-> "enable", user |-> u, active |-> active, sure |-> certain]
  OBVIOUS
<1>2. /\ q \in Switch /\ q.at = "enable" /\ q.user = u /\ q.active = active
      /\ q.sure <=> Changing(u, TRUE) = {}
  <2>1. certain \in BOOLEAN
    OBVIOUS
  <2> HIDE DEF certain
  <2>2. q \in Switch /\ q.at = "enable" /\ q.user = u /\ q.active = active /\ q.sure = certain
    BY <1>1, <2>1 DEF Switch
  <2> QED
    BY <2>2 DEF certain
<1> HIDE DEF certain
<1>3. /\ request[r] = Done /\ row[u] # None
      /\ shaken' = IF Others(r, u) = {} THEN shaken ELSE shaken \cup {u}
      /\ banned' = IF active THEN banned \ {u} ELSE banned
      /\ UNCHANGED <<account, session, row, profile, stranded>>
  BY DEF AskStatus
<1>4. request' = [o \in Requests |->
         IF o = r THEN q
         ELSE IF active /\ o \in Changing(u, FALSE) THEN [request[o] EXCEPT !.sure = FALSE]
         ELSE request[o]]
  BY <1>1 DEF AskStatus, certain
<1>5. /\ request' = [o \in Requests |-> request'[o]] /\ request'[r] = q
      /\ \A o \in Requests \ {r} : request'[o] =
           IF active /\ o \in Changing(u, FALSE) THEN [request[o] EXCEPT !.sure = FALSE] ELSE request[o]
  BY <1>4
<1>6. \A o \in Requests : \A v, b : o \in Changing(v, b) => request[o] \in Switch /\ o # r
  BY <1>3, OrderKinds DEF Changing, AccountsInv, Done
<1>7. \A o \in Requests \ {r} :
        \/ request'[o] = request[o]
        \/ request[o] \in Switch /\ request'[o] = [request[o] EXCEPT !.sure = FALSE]
  BY <1>5, <1>6
<1>8. AccountsShape' /\ Halves' /\ Agreement'
  BY <1>2, <1>3, <1>5, <1>7, RequestBegins, Kinds DEF Beginning
<1>9. \A o \in Requests \ {r} : \A v, b : o \in Changing(v, b)' <=> o \in Changing(v, b)
  <2> SUFFICES ASSUME NEW o \in Requests \ {r}, NEW v, NEW b
               PROVE  o \in Changing(v, b)' <=> o \in Changing(v, b)
    OBVIOUS
  <2>1. CASE request'[o] = request[o]
    BY <2>1 DEF Changing
  <2>2. CASE request'[o] # request[o]
    <3>1. request[o] \in Switch /\ request'[o] = [request[o] EXCEPT !.sure = FALSE]
      BY <1>7, <2>2
    <3>2. request'[o].at = request[o].at /\ request'[o].user = request[o].user /\ request'[o].active = request[o].active
      BY <3>1 DEF Switch
    <3> QED
      BY <3>2 DEF Changing
  <2> QED
    BY <2>1, <2>2
<1>10. \A v, b : r \in Changing(v, b)' => v = u /\ b = active
  BY <1>2, <1>5 DEF Changing
<1>11. \A v, b : v # u \/ b # active => Changing(v, b)' = Changing(v, b)
  <2> SUFFICES ASSUME NEW v, NEW b, v # u \/ b # active PROVE Changing(v, b)' = Changing(v, b)
    OBVIOUS
  <2>1. r \notin Changing(v, b)' /\ r \notin Changing(v, b)
    BY <1>6, <1>10
  <2>2. Changing(v, b)' \subseteq Requests /\ Changing(v, b) \subseteq Requests
    BY DEF Changing
  <2> QED
    BY <1>9, <2>1, <2>2
<1>12. Locks'
  <2>1. ASSUME NEW v \in banned'
        PROVE  /\ v \in Users /\ row[v] # None
               /\ ~ account[v].enabled /\ session[v] = 0 /\ Changing(v, TRUE)' = {}
    <3>1. v \in banned /\ (v # u \/ active = FALSE)
      BY <1>3, <2>1
    <3> QED
      BY <1>11, <3>1 DEF AccountsInv, Locks
  <2>2. ASSUME NEW v \in Users, NEW o \in Changing(v, FALSE)', request'[o].sure
        PROVE  /\ Changing(v, TRUE)' = {}
               /\ request'[o].at \in {"revoke", "status"} => ~ account[v].enabled
               /\ request'[o].at = "status" => session[v] = 0
    <3>1. CASE o = r
      <4>1. v = u /\ active = FALSE
        BY <1>10, <3>1
      <4>2. Changing(u, TRUE)' = {}
        BY <1>2, <1>5, <1>11, <2>2, <3>1, <4>1
      <4> QED
        BY <1>2, <1>5, <3>1, <4>1, <4>2
    <3>2. CASE o # r
      <4>1. o \in Requests \ {r} /\ o \in Changing(v, FALSE)
        BY <1>9, <3>2 DEF Changing
      <4>2. ~ (active /\ v = u)
        <5>1. CASE active /\ v = u
          <6>1. request[o] \in Switch /\ request'[o] = [request[o] EXCEPT !.sure = FALSE]
            BY <1>5, <1>6, <4>1, <5>1
          <6>2. request'[o].sure = FALSE
            BY <6>1 DEF Switch
          <6> QED
            BY <2>2, <6>2
        <5> QED
          BY <5>1
      <4>3. request'[o] = request[o]
        <5>1. request[o].user = v
          BY <4>1 DEF Changing
        <5>2. ~ (active /\ o \in Changing(u, FALSE))
          BY <4>2, <5>1 DEF Changing
        <5> QED
          BY <1>5, <4>1, <5>2
      <4>4. Changing(v, TRUE)' = Changing(v, TRUE)
        BY <1>11, <4>2
      <4> QED
        BY <2>2, <4>1, <4>3, <4>4 DEF AccountsInv, Locks
    <3> QED
      BY <3>1, <3>2
  <2> QED
    BY <1>3, <2>1, <2>2 DEF Locks
<1> QED
  BY <1>8, <1>12 DEF AccountsInv

\* What ends sessions or forgets a profile outside of a request opens nothing.
LEMMA EndsOnly ==
  ASSUME AccountsInv, NEW u \in Users,
         UNCHANGED <<account, row, request, stranded, shaken, banned>>,
         profile' = profile \/ profile' = [profile EXCEPT ![u] = None],
         session' = session \/ \E n \in Nat : session' = [session EXCEPT ![u] = n] /\ (n # 0 => session[u] # 0)
  PROVE  AccountsInv'
<1> USE DEF AccountsInv
<1>1. /\ profile' \in [Users -> {None} \cup Row] /\ session' \in [Users -> Nat]
      /\ \A v \in Users : (profile'[v] = profile[v] \/ profile'[v] = None) /\ (session[v] = 0 => session'[v] = 0)
  BY DEF AccountsShape
<1>2. AccountsShape'
  BY <1>1 DEF AccountsShape, Order, Creation, Update, Save, Plain, Switch, Wish, Exchange, Login, Verify, Keep
<1>3. Halves'
  BY <1>1 DEF Halves, Halfway, Updating
<1>4. Locks'
  BY <1>1 DEF Locks, Changing
<1>5. Agreement'
  <2> SUFFICES ASSUME NEW v \in Users \ shaken
               PROVE  /\ \A b, o \in Requests : On(b, v) /\ On(o, v) => b = o
                      /\ v \notin stranded /\ row[v] # None =>
                           /\ \A b \in Requests : On(b, v) => Agrees(account[v], row[v], profile'[v], request[b])
                           /\ (\A b \in Requests : ~ On(b, v)) => Agrees(account[v], row[v], profile'[v], Done)
    BY DEF Agreement, Agrees, Given, On
  <2>1. \A q : Agrees(account[v], row[v], profile[v], q) => Agrees(account[v], row[v], profile'[v], q)
    BY <1>1 DEF Agrees
  <2> QED
    BY <2>1 DEF Agreement
<1> QED
  BY <1>2, <1>3, <1>4, <1>5

-----------------------------------------------------------------------------
(* The theorems.                                                           *)

\* Whatever a request asks for, it begins as one of these.
LEMMA AskStep ==
  ASSUME AccountsInv, NEW r \in Requests, NEW u \in Users, Ask(r, u)
  PROVE  AccountsInv'
<1>1. ASSUME NEW mail \in Mails, NEW active \in BOOLEAN, AskCreate(r, u, mail, active) PROVE AccountsInv'
  <2>1. PICK q : q = [at |-> "account", user |-> u, mail |-> mail, active |-> active]
    OBVIOUS
  <2>2. q \in Creation /\ q.at = "account" /\ q.user = u
    BY <2>1 DEF Creation
  <2> QED
    BY <1>1, <2>1, <2>2, Kinds, Accepts DEF AskCreate, Beginning, Updating
<1>2. ASSUME NEW dto \in UpdateUserDto, AskUpdate(r, u, dto) PROVE AccountsInv'
  <2>1. PICK q : q = [at |-> "compare", user |-> u, dto |-> dto]
    OBVIOUS
  <2>2. q \in Update /\ q.at = "compare" /\ q.user = u
    BY <2>1 DEF Update
  <2> QED
    BY <1>2, <2>1, <2>2, Kinds, Accepts DEF AskUpdate, Beginning
<1>3. ASSUME NEW roles \in SUBSET ALLOWED_REALM_ROLES, AskRoles(r, u, roles) PROVE AccountsInv'
  <2>1. PICK q : q = [at |-> "diff", user |-> u, roles |-> roles \cup {"user"}]
    OBVIOUS
  <2>2. roles \cup {"user"} \in SUBSET ALLOWED_REALM_ROLES
    BY DEF ALLOWED_REALM_ROLES
  <2>3. q \in Wish /\ q.at = "diff" /\ q.user = u /\ "user" \in q.roles
    BY <2>1, <2>2 DEF Wish
  <2> QED
    BY <1>3, <2>1, <2>3, Kinds, Accepts DEF AskRoles, Beginning
<1>4. CASE AskLogin(r, u)
  <2>1. PICK q : q = [at |-> "token", user |-> u]
    OBVIOUS
  <2>2. q \in Plain /\ q.at = "token" /\ q.user = u
    BY <2>1 DEF Plain
  <2> QED
    BY <1>4, <2>1, <2>2, Kinds, Accepts DEF AskLogin, Beginning, Updating
<1>5. CASE AskPassword(r, u)
  <2>1. PICK q : q = [at |-> "verify", user |-> u, renamed |-> row[u].renamed]
    OBVIOUS
  <2>2. row[u].renamed \in BOOLEAN
    BY <1>5 DEF AskPassword, AccountsInv, AccountsShape, Row
  <2>3. q \in Verify /\ q.at = "verify" /\ q.user = u
    BY <2>1, <2>2 DEF Verify
  <2> QED
    BY <1>5, <2>1, <2>3, Kinds, Accepts DEF AskPassword, Beginning
<1>6. CASE AskProfile(r, u)
  <2>1. PICK q : q = [at |-> "find", user |-> u]
    OBVIOUS
  <2>2. q \in Plain /\ q.at = "find" /\ q.user = u
    BY <2>1 DEF Plain
  <2> QED
    BY <1>6, <2>1, <2>2, Kinds, Accepts DEF AskProfile, Beginning
<1> QED
  BY <1>1, <1>2, <1>3, <1>4, <1>5, <1>6, AskStatusStep DEF Ask

\* Every step keeps the invariant of the accounts.
LEMMA AccountsStep == AccountsInv /\ [AccountsNext]_accountsVars => AccountsInv'
<1> SUFFICES ASSUME AccountsInv, [AccountsNext]_accountsVars PROVE AccountsInv'
  OBVIOUS
<1>1. ASSUME NEW r \in Requests, Goes(r) PROVE AccountsInv'
  BY <1>1, CreatesAccountStep, GrantsUserStep, InsertsRowStep, DeletesAccountStep, ComparesMailStep,
     SetsMailStep, LoadsRowStep, SavesRowStep, ForgetsStep, SetsEnabledStep, RevokesSessionsStep,
     SetsStatusStep, ComparesRolesStep, RemovesRolesStep, AssignsRolesStep, SetsRolesStep, GetsTokenStep,
     RecordsLoginStep, VerifiesPasswordStep, SetsPasswordStep, FindsRowStep, KeepsProfileStep DEF Goes
<1>2. ASSUME NEW u \in Users, LogsOut(u) \/ RevokesSession(u) PROVE AccountsInv'
  <2>1. PICK n : n = session[u] - 1
    OBVIOUS
  <2>2. session[u] # 0 /\ n \in Nat
    BY <1>2, <2>1 DEF LogsOut, RevokesSession, AccountsInv, AccountsShape
  <2>3. session' = [session EXCEPT ![u] = n]
        /\ UNCHANGED <<account, row, profile, request, stranded, shaken, banned>>
    BY <1>2, <2>1 DEF LogsOut, RevokesSession
  <2> QED
    BY <2>2, <2>3, EndsOnly
<1>3. ASSUME NEW u \in Users, RevokesAll(u) \/ ProfileExpires(u) PROVE AccountsInv'
  BY <1>3, EndsOnly DEF RevokesAll, ProfileExpires
<1>4. CASE UNCHANGED accountsVars
  BY <1>4 DEF accountsVars, AccountsInv, AccountsShape, Halves, Locks, Agreement, Agrees, Given, On, Changing,
              Halfway, Updating, Order, Creation, Update, Save, Plain, Switch, Wish, Exchange, Login,
              Verify, Keep
<1> QED
  BY <1>1, <1>2, <1>3, <1>4, AskStep, FailsStep, LosesAnswerStep DEF AccountsNext

\* Whoever is registered at the start is in both stores.
LEMMA AccountsStart == AccountsInit => AccountsInv
<1> SUFFICES ASSUME AccountsInit PROVE AccountsInv
  OBVIOUS
<1>1. /\ request = [r \in Requests |-> Done] /\ session = [u \in Users |-> 0]
      /\ profile = [u \in Users |-> None] /\ banned = {}
  BY DEF AccountsInit
<1>2. Home \in [Registered -> Mails]
  BY AccountsAssumption DEF Home
<1>3. ASSUME NEW u \in Users
      PROVE  \/ account[u] = None /\ row[u] = None
             \/ /\ account[u] \in Account /\ row[u] \in Row /\ account[u] # None /\ row[u] # None
                /\ account[u].mail = row[u].mail
                /\ account[u].roles = {"user"} /\ row[u].roles = {"user"}
  <2>1. CASE u \notin Registered
    BY <2>1 DEF AccountsInit
  <2>2. CASE u \in Registered
    <3>1. Home[u] \in Mails
      BY <1>2, <2>2
    <3>2. PICK a : a = [mail |-> Home[u], enabled |-> TRUE, roles |-> {"user"}]
      OBVIOUS
    <3>3. PICK w : w = [mail |-> Home[u], active |-> TRUE, roles |-> {"user"}, renamed |-> FALSE]
      OBVIOUS
    <3>4. a \in Account /\ w \in Row
      BY <3>1, <3>2, <3>3 DEF Account, Row, ALLOWED_REALM_ROLES
    <3>5. account[u] = a /\ row[u] = w
      BY <2>2, <3>2, <3>3 DEF AccountsInit
    <3> QED
      <4>1. a.mail = w.mail /\ a.roles = {"user"} /\ w.roles = {"user"}
        BY <3>2, <3>3
      <4>2. a # None /\ w # None
        BY <3>4, NoneIsNothing
      <4> QED
        BY <3>4, <3>5, <4>1, <4>2
  <2> QED
    BY <2>1, <2>2
<1>4. \A r \in Requests : request[r] = Done /\ request[r].at = "done"
  BY <1>1 DEF Done
<1>5. AccountsShape
  <2>1. account = [u \in Users |-> account[u]] /\ row = [u \in Users |-> row[u]]
    BY DEF AccountsInit
  <2>2. account \in [Users -> {None} \cup Account] /\ row \in [Users -> {None} \cup Row]
    BY <1>3, <2>1
  <2> QED
    BY <1>1, <1>4, <2>2 DEF AccountsShape
<1>6. Halves
  BY <1>1, <1>3, <1>4 DEF Halves, Halfway, Updating
<1>7. Locks
  BY <1>1, <1>4 DEF Locks, Changing
<1>8. Agreement
  <2> SUFFICES ASSUME NEW u \in Users, row[u] # None PROVE Agrees(account[u], row[u], profile[u], Done)
    BY <1>4 DEF Agreement, On
  <2> QED
    BY <1>1, <1>3 DEF Agrees, Done
<1> QED
  BY <1>5, <1>6, <1>7, <1>8 DEF AccountsInv

\* For any number of users, requests and failures: a registration that has ended left
\* the user in both stores or in neither, except where its compensation failed or the
\* answer of Keycloak was lost.
THEOREM RegistrationsAreWhole == AccountsSpec => []NoHalfAccounts
<1>1. AccountsInv => NoHalfAccounts
  BY DEF AccountsInv, Halves, NoHalfAccounts, BusyWith, Halfway, Done
<1> QED
  BY <1>1, AccountsStart, AccountsStep, PTL DEF AccountsSpec

\* For any number of logins, changes of the password and of the status at once: who
\* was deactivated by an answered request that no activation contradicted is disabled
\* and without a session.
THEOREM DeactivatedStayOut == AccountsSpec => []LockedOutStaysOut
<1>1. AccountsInv => LockedOutStaysOut
  BY DEF AccountsInv, Locks, LockedOutStaysOut
<1> QED
  BY <1>1, AccountsStart, AccountsStep, PTL DEF AccountsSpec

\* Once no request on a user is under way, Keycloak, the row and the cache agree,
\* unless requests overlapped on the user or one failed halfway.
THEOREM StoresEndInAgreement == AccountsSpec => []StoresAgree
<1>1. AccountsInv => StoresAgree
  <2> SUFFICES ASSUME AccountsInv, NEW u \in Users \ (shaken \cup stranded), row[u] # None,
                      \A r \in Requests : request[r] # Done => request[r].user # u
               PROVE  /\ account[u].mail = row[u].mail /\ account[u].roles = row[u].roles
                      /\ profile[u] \in {None, row[u]}
    BY DEF StoresAgree
  <2>1. Agrees(account[u], row[u], profile[u], Done)
    BY DEF AccountsInv, Agreement, On
  <2> QED
    BY <2>1 DEF Agrees, Done
<1> QED
  BY <1>1, AccountsStart, AccountsStep, PTL DEF AccountsSpec
=============================================================================
