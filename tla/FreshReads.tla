----------------------------- MODULE FreshReads -----------------------------
(***************************************************************************)
(* What a cache in front of a table promises, whatever its keys, lifetimes *)
(* and fills: while it is steady, an answer reflects every write that was  *)
(* acknowledged before the question was asked (a regular register with one *)
(* number per write).  A lapse releases the questions it meets, and those  *)
(* asked before the cache is steady again.                                 *)
(***************************************************************************)
EXTENDS Integers

CONSTANT Readers

VARIABLES
  written,  \* writes committed
  acked,    \* the latest write whose client has its answer
  steady,   \* no lapse that answers may still show
  floor,    \* [Readers -> acked when the reader asked]; Idle if it does not wait
  given     \* the writes the last answer reflects; Idle once another question is
            \* asked or remains without answer

vars == <<written, acked, steady, floor, given>>

Idle == -1

Write == written' = written + 1 /\ UNCHANGED <<acked, steady, floor, given>>

Acknowledge ==
  /\ acked' \in acked + 1 .. written
  /\ UNCHANGED <<written, steady, floor, given>>

\* The cache loses track, on its own or of a write it is about to hear of or not.
Lapse ==
  /\ written' \in written .. written + 1 /\ acked' \in acked .. written
  /\ steady' = FALSE
  /\ floor' = [r \in Readers |-> IF floor[r] = Idle THEN Idle ELSE 0]
  /\ UNCHANGED given

Settle == ~ steady /\ steady' = TRUE /\ UNCHANGED <<written, acked, floor, given>>

Ask(r) ==
  /\ floor[r] = Idle
  /\ floor' = [floor EXCEPT ![r] = IF steady THEN acked ELSE 0]
  /\ given' = Idle
  /\ UNCHANGED <<written, acked, steady>>

Answer(r) ==
  /\ floor[r] # Idle
  /\ given' \in floor[r] .. written
  /\ floor' = [floor EXCEPT ![r] = Idle]
  /\ UNCHANGED <<written, acked, steady>>

GiveUp(r) ==
  /\ floor[r] # Idle
  /\ floor' = [floor EXCEPT ![r] = Idle]
  /\ given' = Idle
  /\ UNCHANGED <<written, acked, steady>>

Init ==
  /\ written = 0 /\ acked = 0 /\ steady = TRUE
  /\ floor = [r \in Readers |-> Idle]
  /\ given = Idle

Next ==
  \/ Write \/ Acknowledge \/ Lapse \/ Settle
  \/ \E r \in Readers : Ask(r) \/ Answer(r) \/ GiveUp(r)

Spec == Init /\ [][Next]_vars
=============================================================================
