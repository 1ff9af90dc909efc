------------------------------ MODULE RateLimits -----------------------------
(***************************************************************************)
(* What a login from one address passes before its password is looked at,  *)
(* and what becomes of the answer: ThrottlerStorageRedisService counts     *)
(* requests in one indivisible command and blocks who asks too often;      *)
(* IpBlockService counts failed logins with a get and a set of its own.    *)
(* All of it lives in Redis keys that expire; every command is a step.     *)
(***************************************************************************)
EXTENDS Integers

CONSTANTS
  Visitors,       \* requests at a time
  limit, ttl, blockDuration,      \* of the throttler
  maxAttempts, windowMs, blockDurationMs,   \* of IpBlockService
  MaxVisits,      \* bound: requests
  MaxTick         \* bound: time

ASSUME RateLimitsAssumption ==
  /\ {limit, ttl, blockDuration, maxAttempts, windowMs, blockDurationMs} \subseteq Nat \ {0}
  /\ blockDurationMs >= windowMs
  /\ {MaxVisits, MaxTick} \subseteq Nat

VARIABLES
  tick,
  hits,      \* throttle:<name>:<key>: count and time it expires
  halted,    \* its :block: time it expires
  tries,     \* ip_attempts:<ip>
  blocked,   \* ip_block:<ip>
  visit,     \* [Visitors -> what the request does next]
  visits,
  passed,    \* history: requests let through since the throttler's counter appeared
  lapsed     \* history: a request failed between counting and blocking

limitsVars == <<tick, hits, halted, tries, blocked, visit, visits, passed, lapsed>>

Away == [at |-> "away"]
NoCount == [n |-> 0, until |-> 0]
Alive(until) == until > tick
Turns(v, what) == visit' = [visit EXCEPT ![v] = what]

-----------------------------------------------------------------------------
(* increment of the throttler.                                             *)

Visits(v) ==
  /\ visit[v] = Away /\ visits < MaxVisits
  /\ visits' = visits + 1
  /\ Turns(v, IF Alive(halted) THEN Away ELSE [at |-> "count"])
  /\ UNCHANGED <<tick, hits, halted, tries, blocked, passed, lapsed>>

\* Mutation: one hit too many is let through.
OneMore(totalHits) == totalHits > limit + 1
OverLimit(totalHits) == totalHits > limit

\* incr and pexpire in one transaction: every hit also makes the counter live on.
CountsHit(v) ==
  /\ visit[v].at = "count"
  /\ hits' = [n |-> hits.n + 1, until |-> tick + ttl]
  /\ IF OverLimit(hits.n + 1)
     THEN Turns(v, [at |-> "halt"]) /\ UNCHANGED passed
     ELSE Turns(v, [at |-> "guard"]) /\ passed' = passed + 1
  /\ UNCHANGED <<tick, halted, tries, blocked, visits, lapsed>>

Halts(v) ==
  /\ visit[v].at = "halt"
  /\ halted' = tick + blockDuration
  /\ Turns(v, Away)
  /\ UNCHANGED <<tick, hits, tries, blocked, visits, passed, lapsed>>

-----------------------------------------------------------------------------
(* IpBlockGuard, and what login reports of the password.                   *)

Guards(v) ==
  /\ visit[v].at = "guard"
  /\ Turns(v, IF Alive(blocked) THEN Away ELSE [at |-> "password"])
  /\ UNCHANGED <<tick, hits, halted, tries, blocked, visits, passed, lapsed>>

\* resetAttempts.
Succeeds(v) ==
  /\ visit[v].at = "password"
  /\ tries' = NoCount
  /\ Turns(v, Away)
  /\ UNCHANGED <<tick, hits, halted, blocked, visits, passed, lapsed>>

\* recordFailedAttempt: get ...
ReadsTries(v) ==
  /\ visit[v].at = "password"
  /\ Turns(v, [at |-> "try", n |-> tries.n + 1])
  /\ UNCHANGED <<tick, hits, halted, tries, blocked, visits, passed, lapsed>>

\* ... set ...
SetsTries(v) ==
  /\ visit[v].at = "try"
  /\ tries' = [n |-> visit[v].n, until |-> tick + windowMs]
  /\ Turns(v, IF visit[v].n >= maxAttempts THEN [at |-> "block"] ELSE Away)
  /\ UNCHANGED <<tick, hits, halted, blocked, visits, passed, lapsed>>

\* Mutation: the block lasts as long as the window.
ShortBlock == tick + windowMs - 1
BlockUntil == tick + blockDurationMs

\* ... blockIp.
Blocks(v) ==
  /\ visit[v].at = "block"
  /\ blocked' = BlockUntil
  /\ Turns(v, Away)
  /\ UNCHANGED <<tick, hits, halted, tries, visits, passed, lapsed>>

\* Redis or Keycloak does not answer.
VisitFails(v) ==
  /\ visit[v] # Away
  /\ lapsed' = (lapsed \/ visit[v].at = "block")
  /\ Turns(v, Away)
  /\ UNCHANGED <<tick, hits, halted, tries, blocked, visits, passed>>

Elapses ==
  /\ tick < MaxTick
  /\ tick' = tick + 1
  /\ hits'  = IF hits.until <= tick + 1 THEN NoCount ELSE hits
  /\ tries' = IF tries.until <= tick + 1 THEN NoCount ELSE tries
  /\ passed' = IF hits.until <= tick + 1 THEN 0 ELSE passed
  /\ UNCHANGED <<halted, blocked, visit, visits, lapsed>>

LimitsInit ==
  /\ tick = 0 /\ visits = 0 /\ passed = 0 /\ lapsed = FALSE
  /\ hits = NoCount /\ tries = NoCount
  /\ halted = 0 /\ blocked = 0
  /\ visit = [v \in Visitors |-> Away]

LimitsNext ==
  \/ \E v \in Visitors :
       \/ Visits(v) \/ CountsHit(v) \/ Halts(v) \/ Guards(v) \/ Succeeds(v)
       \/ ReadsTries(v) \/ SetsTries(v) \/ Blocks(v) \/ VisitFails(v)
  \/ Elapses

LimitsSpec == LimitsInit /\ [][LimitsNext]_limitsVars

-----------------------------------------------------------------------------
(* Correctness.                                                            *)

LimitsTypeOK ==
  /\ tick \in 0 .. MaxTick /\ visits \in 0 .. MaxVisits /\ passed \in 0 .. MaxVisits
  /\ hits \in [n : 0 .. MaxVisits, until : Nat] /\ tries \in [n : 0 .. MaxVisits, until : Nat]
  /\ halted \in Nat /\ blocked \in Nat /\ lapsed \in BOOLEAN
  /\ \A v \in Visitors :
       visit[v] \in [at : {"away", "count", "halt", "guard", "password", "block"}]
                    \cup [at : {"try"}, n : 1 .. MaxVisits]

\* However requests overlap, the throttler lets no more than its limit through
\* while its counter lives.
NoMoreThanLimit == passed <= limit

\* Who was blocked starts from zero when the block has run out: a counter at its
\* maximum never outlives the block it caused, unless the call that blocks failed.
\* It needs a block at least as long as the window, as the defaults are.
BlockOutlivesCount ==
  tries.n >= maxAttempts /\ ~ lapsed =>
    Alive(blocked) \/ \E v \in Visitors : visit[v].at = "block"
=============================================================================
