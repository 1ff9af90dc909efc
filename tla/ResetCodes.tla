----------------------------- MODULE ResetCodes -----------------------------
(***************************************************************************)
(* The one-time codes with which one user gets a new password: AuthService *)
(* closes the open codes and saves a new one (forgotPassword), compares a  *)
(* guess with the newest open code and counts failures in its row          *)
(* (verifyOtp), and takes a signed token for a change of the password      *)
(* (resetPassword).  Rows are read, changed and saved whole, TypeORM       *)
(* compares what is saved with the row as it is then, and no lock keeps    *)
(* two verifications of one code apart.                                    *)
(***************************************************************************)
EXTENDS Integers, FiniteSets

CONSTANTS
  Askers,      \* requests for a code, and changes of the password, at a time
  Verifiers,   \* verifications at a time
  OTP_TTL,             \* how long a code is good
  OTP_MAX_ATTEMPTS,
  RESET_TOKEN_TTL,     \* how long a token is good
  MaxCodes,    \* bound: codes issued
  MaxGuesses,  \* bound: verifications
  MaxClock     \* bound: time

ASSUME CodesAssumption ==
  /\ {OTP_TTL, OTP_MAX_ATTEMPTS, RESET_TOKEN_TTL} \subseteq Nat \ {0}
  /\ {MaxCodes, MaxGuesses, MaxClock} \subseteq Nat

VARIABLES
  clock,
  code,      \* password_reset_otp: rows in the order of created_at
  asker,     \* [Askers -> request in progress]
  verifier,  \* [Verifiers -> request in progress]
  token,     \* tokens signed: [of: the code, until]
  guesses,
  wrong,     \* history: [codes -> wrong guesses answered]
  overrun    \* history: codes saved by a verification after another had saved them
             \* since it read them

codesVars == <<clock, code, asker, verifier, token, guesses, wrong, overrun>>

Free == [at |-> "free"]

Open(c)  == ~ code[c].consumed
Valid(c) == Open(c) /\ code[c].until > clock

-----------------------------------------------------------------------------
(* forgotPassword: close what is open, save a new code, send it.           *)

AskCode(a) ==
  /\ asker[a] = Free
  /\ asker' = [asker EXCEPT ![a] = [at |-> "close"]]
  /\ UNCHANGED <<clock, code, verifier, token, guesses, wrong, overrun>>

Closed == [c \in DOMAIN code |-> [code[c] EXCEPT !.consumed = TRUE]]

ClosesCodes(a) ==
  /\ asker[a].at \in {"close", "finish"}
  /\ code' = Closed
  /\ asker' = [asker EXCEPT ![a] = IF @.at = "close" THEN [at |-> "save"] ELSE Free]
  /\ UNCHANGED <<clock, verifier, token, guesses, wrong, overrun>>

SavesCode(a) ==
  /\ asker[a].at = "save" /\ Cardinality(DOMAIN code) < MaxCodes
  /\ LET c == Cardinality(DOMAIN code) + 1 IN
       /\ code' = [k \in DOMAIN code \cup {c} |-> IF k = c
            THEN [consumed |-> FALSE, until |-> clock + OTP_TTL, attempts |-> 0] ELSE code[k]]
       /\ wrong' = [k \in DOMAIN code \cup {c} |-> IF k = c THEN 0 ELSE wrong[k]]
  /\ asker' = [asker EXCEPT ![a] = Free]
  /\ UNCHANGED <<clock, verifier, token, guesses, overrun>>

-----------------------------------------------------------------------------
(* verifyOtp.                                                              *)

\* The newest code that is open and not expired; the guess names a code.
FindsCode(v, guess) ==
  /\ verifier[v] = Free /\ guesses < MaxGuesses
  /\ guesses' = guesses + 1
  /\ LET valid == {c \in DOMAIN code : Valid(c)} IN
     verifier' = IF valid = {} THEN verifier
       ELSE LET c == CHOOSE n \in valid : \A o \in valid : o <= n IN
            [verifier EXCEPT ![v] = [at |-> "save", code |-> c, right |-> guess = c,
                                     attempts |-> code[c].attempts, late |-> FALSE]]
  /\ UNCHANGED <<clock, code, asker, token, wrong, overrun>>

\* Mutations: one attempt more, and a code that stays open when it was guessed.
LastIsAllowed(attempts) == attempts > OTP_MAX_ATTEMPTS
Exhausted(attempts)     == attempts >= OTP_MAX_ATTEMPTS
OnlyExhausted(right, attempts) == Exhausted(attempts)
Spent(right, attempts)         == right \/ Exhausted(attempts)

\* What a verification of c that is under way has read is no longer what the row says.
Overtaken(c, v) ==
  [w \in Verifiers |->
     IF w = v THEN Free
     ELSE IF verifier[w].at = "save" /\ verifier[w].code = c
          THEN [verifier[w] EXCEPT !.late = TRUE] ELSE verifier[w]]

\* save() writes back consumed_at as it was read: the row that was found was open.
SavesGuess(v) ==
  /\ verifier[v].at = "save"
  /\ LET c == verifier[v].code  right == verifier[v].right
         attempts == verifier[v].attempts + (IF right THEN 0 ELSE 1) IN
       /\ code' = [code EXCEPT ![c].attempts = attempts, ![c].consumed = Spent(right, attempts)]
       /\ wrong' = [wrong EXCEPT ![c] = @ + (IF right THEN 0 ELSE 1)]
       /\ token' = IF right THEN token \cup {[of |-> c, until |-> clock + RESET_TOKEN_TTL,
                                             nth |-> Cardinality(token)]}
                   ELSE token
       /\ verifier' = Overtaken(c, v)
       /\ overrun' = IF verifier[v].late THEN overrun \cup {c} ELSE overrun
  /\ UNCHANGED <<clock, asker, guesses>>

-----------------------------------------------------------------------------
(* resetPassword: the token is only compared with the clock, Keycloak is   *)
(* told, and the open codes are closed.                                    *)

AskReset(a, t) ==
  /\ asker[a] = Free /\ t \in token /\ t.until >= clock
  /\ asker' = [asker EXCEPT ![a] = [at |-> "finish"]]
  /\ UNCHANGED <<clock, code, verifier, token, guesses, wrong, overrun>>

\* The database or Keycloak fails, or the process stops.
AskerFails(a) ==
  /\ asker[a] # Free
  /\ asker' = [asker EXCEPT ![a] = Free]
  /\ UNCHANGED <<clock, code, verifier, token, guesses, wrong, overrun>>

VerifierFails(v) ==
  /\ verifier[v] # Free
  /\ verifier' = [verifier EXCEPT ![v] = Free]
  /\ UNCHANGED <<clock, code, asker, token, guesses, wrong, overrun>>

TimePasses ==
  /\ clock < MaxClock
  /\ clock' = clock + 1
  /\ UNCHANGED <<code, asker, verifier, token, guesses, wrong, overrun>>

-----------------------------------------------------------------------------
CodesInit ==
  /\ clock = 0 /\ guesses = 0
  /\ code = <<>> /\ wrong = <<>>
  /\ asker = [a \in Askers |-> Free]
  /\ verifier = [v \in Verifiers |-> Free]
  /\ token = {} /\ overrun = {}

CodesNext ==
  \/ \E a \in Askers : AskCode(a) \/ ClosesCodes(a) \/ SavesCode(a) \/ AskerFails(a)
  \/ \E a \in Askers, t \in token : AskReset(a, t)
  \/ \E v \in Verifiers, guess \in 0 .. MaxCodes : FindsCode(v, guess)
  \/ \E v \in Verifiers : SavesGuess(v) \/ VerifierFails(v)
  \/ TimePasses

CodesSpec == CodesInit /\ [][CodesNext]_codesVars

-----------------------------------------------------------------------------
(* Correctness.                                                            *)

CodesTypeOK ==
  /\ clock \in 0 .. MaxClock /\ guesses \in 0 .. MaxGuesses
  /\ DOMAIN code \in {1 .. n : n \in 0 .. MaxCodes} /\ DOMAIN wrong = DOMAIN code
  /\ \A c \in DOMAIN code :
       /\ code[c] \in [consumed : BOOLEAN, until : Nat, attempts : Nat]
       /\ wrong[c] \in 0 .. MaxGuesses
  /\ \A a \in Askers : asker[a].at \in {"free", "close", "save", "finish"}
  /\ \A v \in Verifiers : verifier[v] = Free \/ verifier[v].code \in DOMAIN code
  /\ overrun \subseteq DOMAIN code

\* A code buys one token at most, whatever requests for codes and changes of the
\* password do to its row in between, and although verifications overlap, unless one
\* of them saves the code after another has saved what both of them had read.
CodeBuysOneToken == \A s, t \in token : s.of = t.of => s = t \/ s.of \in overrun

\* A verification that reads a code while another request closes it opens it again
\* when it saves; still the failures of a code never outnumber the attempts, because
\* the row keeps its count.  A save over that of another verification takes its count
\* back: only of such codes may more be guessed than the three attempts of the README.
GuessesAreBounded ==
  \A c \in DOMAIN code \ overrun : wrong[c] <= OTP_MAX_ATTEMPTS
=============================================================================
