------------------------------ MODULE Accounts ------------------------------
(***************************************************************************)
(* Users kept twice: as accounts of Keycloak, which decide who may log in  *)
(* and with which roles, and as rows of app_user, which the application    *)
(* shows; a profile is also kept in Redis.  UserService changes the stores *)
(* one call after the other and no transaction spans them, so a request    *)
(* stops between two of its steps when a call fails.                       *)
(***************************************************************************)
EXTENDS Integers, FiniteSets

CONSTANTS
  Users,
  Registered,   \* users that exist in both stores at the start
  Requests,     \* requests at a time
  Mails,
  None,         \* a field the request leaves out, a row that does not exist
  MaxAsks,      \* bound: requests accepted
  MaxFaults     \* bound: calls that fail

ALLOWED_REALM_ROLES == {"user", "admin"}
Account == [mail : Mails, enabled : BOOLEAN, roles : SUBSET ALLOWED_REALM_ROLES]
Row == [mail : Mails, active : BOOLEAN, roles : SUBSET ALLOWED_REALM_ROLES, renamed : BOOLEAN]

\* Everybody registered has a mail of their own.
AreHomes(mail) ==
  mail \in [Registered -> Mails] /\ \A u, o \in Registered : mail[u] = mail[o] => u = o

ASSUME AccountsAssumption ==
  /\ Registered \subseteq Users /\ MaxAsks \in Nat /\ MaxFaults \in Nat
  /\ None \notin Mails \cup BOOLEAN \cup Account \cup Row
  /\ \E mail \in [Registered -> Mails] : AreHomes(mail)

VARIABLES
  account,   \* Keycloak: [Users -> account or None]
  session,   \* Keycloak: [Users -> number of open sessions]
  row,       \* app_user: [Users -> row or None]
  profile,   \* user_<id> in Redis: [Users -> row it was made of, or None]
  request,   \* [Requests -> what it does next]
  asked,
  faults,
  stranded,  \* history: users whose creation failed in a way nothing undoes
  shaken,    \* history: users on whom two requests overlapped, or one failed halfway
  banned     \* history: deactivated by an answered request, not allowed back since

accountsVars == <<account, session, row, profile, request, asked, faults,
                  stranded, shaken, banned>>

Done == [at |-> "done"]

\* Other requests on a user that has the user's data in hand.
Others(r, u) == {o \in Requests \ {r} : request[o] # Done /\ request[o].user = u}

Accept(r, u, what) ==
  /\ request[r] = Done /\ asked < MaxAsks
  /\ asked' = asked + 1
  /\ request' = [request EXCEPT ![r] = what]
  /\ shaken' = IF Others(r, u) = {} THEN shaken ELSE shaken \cup {u}
  /\ UNCHANGED <<account, session, row, profile, faults, stranded>>

Continue(r, what) == request' = [request EXCEPT ![r] = what]

\* Keycloak and app_user both refuse a mail somebody else has.
Taken(store, u, mail) == \E o \in Users \ {u} : store[o] # None /\ store[o].mail = mail

-----------------------------------------------------------------------------
(* createUser.                                                             *)

AskCreate(r, u, mail, active) ==
  /\ Accept(r, u, [at |-> "account", user |-> u, mail |-> mail, active |-> active])
  /\ UNCHANGED banned

CreatesAccount(r) ==
  /\ request[r].at = "account"
  /\ LET u == request[r].user IN
     IF account[u] # None \/ Taken(account, u, request[r].mail)
     THEN Continue(r, Done) /\ UNCHANGED account
     ELSE /\ Continue(r, [request[r] EXCEPT !.at = "grant"])
          /\ account' = [account EXCEPT ![u] =
               [mail |-> request[r].mail, enabled |-> TRUE, roles |-> {}]]
  /\ UNCHANGED <<session, row, profile, asked, faults, stranded, shaken, banned>>

GrantsUser(r) ==
  /\ request[r].at = "grant"
  /\ account' = [account EXCEPT ![request[r].user].roles = {"user"}]
  /\ Continue(r, [request[r] EXCEPT !.at = "insert"])
  /\ UNCHANGED <<session, row, profile, asked, faults, stranded, shaken, banned>>

\* Mutation: an error of the database is not compensated.
NoCompensation(r) == Done
Compensation(r)   == [request[r] EXCEPT !.at = "undo"]

InsertsRow(r) ==
  /\ request[r].at = "insert"
  /\ LET u == request[r].user IN
     IF row[u] # None \/ Taken(row, u, request[r].mail)
     THEN Continue(r, Compensation(r)) /\ UNCHANGED row
     ELSE /\ Continue(r, Done)
          /\ row' = [row EXCEPT ![u] = [mail |-> request[r].mail, active |-> request[r].active,
                                        roles |-> {"user"}, renamed |-> FALSE]]
  /\ UNCHANGED <<account, session, profile, asked, faults, stranded, shaken, banned>>

DeletesAccount(r) ==
  /\ request[r].at = "undo"
  /\ LET u == request[r].user IN
       /\ account' = [account EXCEPT ![u] = None]
       /\ session' = [session EXCEPT ![u] = 0]
  /\ Continue(r, Done)
  /\ UNCHANGED <<row, profile, asked, faults, stranded, shaken, banned>>

-----------------------------------------------------------------------------
(* updateUser: the mail goes to Keycloak first; the row is read, merged    *)
(* and saved whole.  Only the mail is told to Keycloak.                    *)

AskUpdate(r, u, dto) ==
  /\ row[u] # None
  /\ Accept(r, u, [at |-> "compare", user |-> u, dto |-> dto])
  /\ UNCHANGED banned

ComparesMail(r) ==
  /\ request[r].at = "compare"
  /\ LET mail == request[r].dto.mail IN
     Continue(r, [request[r] EXCEPT
       !.at = IF mail # None /\ mail # row[request[r].user].mail THEN "mail" ELSE "load"])
  /\ UNCHANGED <<account, session, row, profile, asked, faults, stranded, shaken, banned>>

SetsMail(r) ==
  /\ request[r].at = "mail"
  /\ LET u == request[r].user  mail == request[r].dto.mail IN
     IF Taken(account, u, mail)
     THEN Continue(r, Done) /\ UNCHANGED account
     ELSE /\ account' = [account EXCEPT ![u].mail = mail]
          /\ Continue(r, [request[r] EXCEPT !.at = "load"])
  /\ UNCHANGED <<session, row, profile, asked, faults, stranded, shaken, banned>>

LoadsRow(r) ==
  /\ request[r].at = "load"
  /\ Continue(r, [at |-> "save", user |-> request[r].user, dto |-> request[r].dto,
              copy |-> row[request[r].user]])
  /\ UNCHANGED <<account, session, row, profile, asked, faults, stranded, shaken, banned>>

\* A field the request leaves out keeps what the row has.
Given(value, otherwise) == IF value = None THEN otherwise ELSE value

Merged(copy, dto) ==
  [copy EXCEPT !.mail = Given(dto.mail, @), !.active = Given(dto.active, @),
               !.renamed = Given(dto.renamed, @)]

SavesRow(r) ==
  /\ request[r].at = "save"
  /\ LET u == request[r].user  new == Merged(request[r].copy, request[r].dto) IN
     IF Taken(row, u, new.mail)
     THEN /\ Continue(r, Done) /\ UNCHANGED row
          /\ shaken' = IF request[r].dto.mail = None THEN shaken ELSE shaken \cup {u}
     ELSE /\ row' = [row EXCEPT ![u] = new]
          /\ Continue(r, [at |-> "forget", user |-> u])
          /\ UNCHANGED shaken
  /\ UNCHANGED <<account, session, profile, asked, faults, stranded, banned>>

\* The last step of every update: the cached profile goes.
Forgets(r) ==
  /\ request[r].at = "forget"
  /\ profile' = [profile EXCEPT ![request[r].user] = None]
  /\ Continue(r, Done)
  /\ UNCHANGED <<account, session, row, asked, faults, stranded, shaken, banned>>

-----------------------------------------------------------------------------
(* updateUserStatus.                                                       *)

\* Activations of a user that may still reach Keycloak, and deactivations.
Changing(u, active) ==
  {r \in Requests : /\ request[r].at \in {"enable", "revoke", "status"}
                    /\ request[r].user = u /\ request[r].active = active}

\* sure: nobody asked to activate the user while this request was under way.
AskStatus(r, u, active) ==
  /\ row[u] # None /\ request[r] = Done /\ asked < MaxAsks
  /\ asked' = asked + 1
  /\ request' = [o \in Requests |->
       IF o = r THEN [at |-> "enable", user |-> u, active |-> active,
                      sure |-> Changing(u, TRUE) = {}]
       ELSE IF active /\ o \in Changing(u, FALSE) THEN [request[o] EXCEPT !.sure = FALSE]
       ELSE request[o]]
  /\ shaken' = IF Others(r, u) = {} THEN shaken ELSE shaken \cup {u}
  /\ banned' = IF active THEN banned \ {u} ELSE banned
  /\ UNCHANGED <<account, session, row, profile, faults, stranded>>

\* Mutation: sessions opened before the deactivation are left alone.
LeavesSessions(active) == "status"
AfterEnabling(active)  == IF active THEN "status" ELSE "revoke"

SetsEnabled(r) ==
  /\ request[r].at = "enable"
  /\ account' = [account EXCEPT ![request[r].user].enabled = request[r].active]
  /\ Continue(r, [request[r] EXCEPT !.at = AfterEnabling(request[r].active)])
  /\ UNCHANGED <<session, row, profile, asked, faults, stranded, shaken, banned>>

RevokesSessions(r) ==
  /\ request[r].at = "revoke"
  /\ session' = [session EXCEPT ![request[r].user] = 0]
  /\ Continue(r, [request[r] EXCEPT !.at = "status"])
  /\ UNCHANGED <<account, row, profile, asked, faults, stranded, shaken, banned>>

SetsStatus(r) ==
  /\ request[r].at = "status"
  /\ LET u == request[r].user IN
       /\ row' = [row EXCEPT ![u].active = request[r].active]
       /\ Continue(r, [at |-> "forget", user |-> u])
       /\ banned' = IF ~ request[r].active /\ request[r].sure THEN banned \cup {u} ELSE banned
  /\ UNCHANGED <<account, session, profile, asked, faults, stranded, shaken>>

-----------------------------------------------------------------------------
(* updateUserRoles: the roles that are too many go, then the missing come. *)

AskRoles(r, u, roles) ==
  /\ row[u] # None /\ roles \subseteq ALLOWED_REALM_ROLES
  /\ Accept(r, u, [at |-> "diff", user |-> u, roles |-> roles \cup {"user"}])
  /\ UNCHANGED banned

\* Mutation: roles are added, never replaced.
NoneTooMany(now, want) == {}
TooMany(now, want)     == now \ want

ComparesRoles(r) ==
  /\ request[r].at = "diff"
  /\ LET now == account[request[r].user].roles  want == request[r].roles IN
     Continue(r, [at |-> "remove", user |-> request[r].user, roles |-> want,
              drop |-> TooMany(now, want), add |-> want \ now])
  /\ UNCHANGED <<account, session, row, profile, asked, faults, stranded, shaken, banned>>

RemovesRoles(r) ==
  /\ request[r].at = "remove"
  /\ account' = [account EXCEPT ![request[r].user].roles = @ \ request[r].drop]
  /\ Continue(r, [request[r] EXCEPT !.at = "assign"])
  /\ UNCHANGED <<session, row, profile, asked, faults, stranded, shaken, banned>>

AssignsRoles(r) ==
  /\ request[r].at = "assign"
  /\ account' = [account EXCEPT ![request[r].user].roles = @ \cup request[r].add]
  /\ Continue(r, [at |-> "roles", user |-> request[r].user, roles |-> request[r].roles])
  /\ UNCHANGED <<session, row, profile, asked, faults, stranded, shaken, banned>>

SetsRoles(r) ==
  /\ request[r].at = "roles"
  /\ row' = [row EXCEPT ![request[r].user].roles = request[r].roles]
  /\ Continue(r, [at |-> "forget", user |-> request[r].user])
  /\ UNCHANGED <<account, session, profile, asked, faults, stranded, shaken, banned>>

-----------------------------------------------------------------------------
(* login, and what closes sessions.                                        *)

AskLogin(r, u) ==
  /\ Accept(r, u, [at |-> "token", user |-> u])
  /\ UNCHANGED banned

\* Keycloak answers with a token that names the roles of the account.
GetsToken(r) ==
  /\ request[r].at = "token"
  /\ LET u == request[r].user IN
     IF account[u] = None \/ (account[u] # None /\ ~ account[u].enabled)
     THEN Continue(r, Done) /\ UNCHANGED session
     ELSE /\ session' = [session EXCEPT ![u] = @ + 1]
          /\ Continue(r, [at |-> "login", user |-> u, roles |-> account[u].roles])
  /\ UNCHANGED <<account, row, profile, asked, faults, stranded, shaken, banned>>

\* findByUsername, then recordLogin: the row takes over the roles of the token.
\* A user who changed the name in app_user is not found under Keycloak's.
RecordsLogin(r) ==
  /\ request[r].at = "login"
  /\ LET u == request[r].user IN
     row' = IF row[u] = None \/ (row[u] # None /\ row[u].renamed) THEN row
            ELSE [row EXCEPT ![u].roles = request[r].roles \cup {"user"}]
  /\ Continue(r, Done)
  /\ UNCHANGED <<account, session, profile, asked, faults, stranded, shaken, banned>>

\* logout with the refresh token of a session; a token of a session that is over
\* is an error.
LogsOut(u) ==
  /\ session[u] > 0
  /\ session' = [session EXCEPT ![u] = @ - 1]
  /\ UNCHANGED <<account, row, profile, request, asked, faults, stranded, shaken, banned>>

\* revokeSession and adminRevokeSession, of a session Keycloak lists.
RevokesSession(u) ==
  /\ row[u] # None /\ session[u] > 0
  /\ session' = [session EXCEPT ![u] = @ - 1]
  /\ UNCHANGED <<account, row, profile, request, asked, faults, stranded, shaken, banned>>

\* adminRevokeAllSessions.
RevokesAll(u) ==
  /\ row[u] # None
  /\ session' = [session EXCEPT ![u] = 0]
  /\ UNCHANGED <<account, row, profile, request, asked, faults, stranded, shaken, banned>>

-----------------------------------------------------------------------------
(* changePassword: the old password is tried out at Keycloak under the     *)
(* name app_user has, which opens a session of its own.                    *)

AskPassword(r, u) ==
  /\ row[u] # None
  /\ Accept(r, u, [at |-> "verify", user |-> u, renamed |-> row[u].renamed])
  /\ UNCHANGED banned

VerifiesPassword(r) ==
  /\ request[r].at = "verify"
  /\ LET u == request[r].user IN
     IF request[r].renamed \/ ~ account[u].enabled
     THEN Continue(r, Done) /\ UNCHANGED session
     ELSE /\ session' = [session EXCEPT ![u] = @ + 1]
          /\ Continue(r, [at |-> "password", user |-> u])
  /\ UNCHANGED <<account, row, profile, asked, faults, stranded, shaken, banned>>

\* The new one is set; which password an account has is not followed here.
SetsPassword(r) ==
  /\ request[r].at = "password"
  /\ Continue(r, Done)
  /\ UNCHANGED <<account, session, row, profile, asked, faults, stranded, shaken, banned>>

-----------------------------------------------------------------------------
(* findUser.                                                               *)

AskProfile(r, u) ==
  /\ profile[u] = None /\ row[u] # None
  /\ Accept(r, u, [at |-> "find", user |-> u])
  /\ UNCHANGED banned

FindsRow(r) ==
  /\ request[r].at = "find"
  /\ Continue(r, [at |-> "keep", user |-> request[r].user, copy |-> row[request[r].user]])
  /\ UNCHANGED <<account, session, row, profile, asked, faults, stranded, shaken, banned>>

KeepsProfile(r) ==
  /\ request[r].at = "keep"
  /\ profile' = [profile EXCEPT ![request[r].user] = request[r].copy]
  /\ Continue(r, Done)
  /\ UNCHANGED <<account, session, row, asked, faults, stranded, shaken, banned>>

ProfileExpires(u) ==
  /\ profile[u] # None
  /\ profile' = [profile EXCEPT ![u] = None]
  /\ UNCHANGED <<account, session, row, request, asked, faults, stranded, shaken, banned>>

-----------------------------------------------------------------------------
(* Faults: a call of a request fails.  Steps of a creation after the first *)
(* lead to the compensation; deleteUser swallows what Keycloak answers.    *)

Creating(r) == request[r].at \in {"grant", "insert"}

\* Steps before which nothing of the request has been written.
Harmless == {"account", "compare", "enable", "diff", "token", "find", "keep", "verify", "password"}

Fails(r) ==
  /\ request[r] # Done /\ faults < MaxFaults
  /\ faults' = faults + 1
  /\ LET u == request[r].user IN
       /\ Continue(r, IF Creating(r) THEN Compensation(r) ELSE Done)
       /\ stranded' = IF request[r].at = "undo" THEN stranded \cup {u} ELSE stranded
       /\ shaken' = IF Creating(r) \/ request[r].at \in Harmless \cup {"undo"}
                    THEN shaken ELSE shaken \cup {u}
  /\ UNCHANGED <<account, session, row, profile, asked, banned>>

\* Keycloak created the account, but its answer got lost: createUser threw
\* outside the block that compensates.
LosesAnswer(r) ==
  /\ request[r].at = "account" /\ faults < MaxFaults
  /\ LET u == request[r].user IN
       /\ account[u] = None /\ ~ Taken(account, u, request[r].mail)
       /\ account' = [account EXCEPT ![u] =
            [mail |-> request[r].mail, enabled |-> TRUE, roles |-> {}]]
       /\ stranded' = stranded \cup {u}
  /\ faults' = faults + 1
  /\ Continue(r, Done)
  /\ UNCHANGED <<session, row, profile, asked, shaken, banned>>

-----------------------------------------------------------------------------
Home == CHOOSE mail \in [Registered -> Mails] : AreHomes(mail)

AccountsInit ==
  /\ account = [u \in Users |-> IF u \in Registered
       THEN [mail |-> Home[u], enabled |-> TRUE, roles |-> {"user"}] ELSE None]
  /\ row = [u \in Users |-> IF u \in Registered
       THEN [mail |-> Home[u], active |-> TRUE, roles |-> {"user"}, renamed |-> FALSE] ELSE None]
  /\ session = [u \in Users |-> 0]
  /\ profile = [u \in Users |-> None]
  /\ request = [r \in Requests |-> Done]
  /\ asked = 0 /\ faults = 0
  /\ stranded = {} /\ shaken = {} /\ banned = {}

\* UpdateUserDto: every field may be left out; renamed stands for a new username.
UpdateUserDto ==
  [mail : Mails \cup {None}, active : BOOLEAN \cup {None}, renamed : {TRUE, None}]

Ask(r, u) ==
  \/ \E mail \in Mails, active \in BOOLEAN : AskCreate(r, u, mail, active)
  \/ \E dto \in UpdateUserDto : AskUpdate(r, u, dto)
  \/ \E active \in BOOLEAN : AskStatus(r, u, active)
  \/ \E roles \in SUBSET ALLOWED_REALM_ROLES : AskRoles(r, u, roles)
  \/ AskLogin(r, u) \/ AskPassword(r, u) \/ AskProfile(r, u)

Goes(r) ==
  \/ CreatesAccount(r) \/ GrantsUser(r) \/ InsertsRow(r) \/ DeletesAccount(r)
  \/ ComparesMail(r) \/ SetsMail(r) \/ LoadsRow(r) \/ SavesRow(r) \/ Forgets(r)
  \/ SetsEnabled(r) \/ RevokesSessions(r) \/ SetsStatus(r)
  \/ ComparesRoles(r) \/ RemovesRoles(r) \/ AssignsRoles(r) \/ SetsRoles(r)
  \/ GetsToken(r) \/ RecordsLogin(r) \/ VerifiesPassword(r) \/ SetsPassword(r)
  \/ FindsRow(r) \/ KeepsProfile(r)

\* Accept has the same guard; here it spares TLC the inputs it would refuse.
AccountsNext ==
  \/ \E r \in Requests, u \in Users : request[r] = Done /\ asked < MaxAsks /\ Ask(r, u)
  \/ \E r \in Requests : Goes(r) \/ Fails(r) \/ LosesAnswer(r)
  \/ \E u \in Users : LogsOut(u) \/ RevokesSession(u) \/ RevokesAll(u) \/ ProfileExpires(u)

AccountsSpec == AccountsInit /\ [][AccountsNext]_accountsVars

-----------------------------------------------------------------------------
(* Correctness.                                                            *)

AccountsTypeOK ==
  /\ account \in [Users -> {None} \cup Account]
  /\ row \in [Users -> {None} \cup Row] /\ profile \in [Users -> {None} \cup Row]
  /\ session \in [Users -> 0 .. MaxAsks]
  /\ asked \in 0 .. MaxAsks /\ faults \in 0 .. MaxFaults
  /\ stranded \in SUBSET Users /\ shaken \in SUBSET Users /\ banned \in SUBSET Users
  /\ \A r \in Requests : request[r] = Done \/ request[r].user \in Users

BusyWith(u, steps) == \E r \in Requests : request[r] # Done /\ request[r].user = u
                                          /\ request[r].at \in steps

\* A registration leaves a user in both stores or in neither, whichever of its
\* calls fails and whoever else registers the same name or mail meanwhile; the
\* exceptions are a compensation that failed and an answer of Keycloak that got lost.
NoHalfAccounts ==
  \A u \in Users \ stranded :
    ~ BusyWith(u, {"grant", "insert", "undo"}) => (account[u] = None <=> row[u] = None)

\* Once a deactivation has been answered and until somebody asks to activate the
\* user again, the user has no session and gets none: a login that raced the
\* deactivation was refused or its session revoked.
LockedOutStaysOut ==
  \A u \in banned : ~ account[u].enabled /\ session[u] = 0

\* When no request on a user is under way, and none overlapped another or failed
\* halfway, mail and roles are the same in both stores and the cached profile is
\* the row: every update writes Keycloak, the row and the cache, in this order.
StoresAgree ==
  \A u \in Users \ (shaken \cup stranded) :
    row[u] # None /\ (\A r \in Requests : request[r] # Done => request[r].user # u) =>
      /\ account[u].mail = row[u].mail /\ account[u].roles = row[u].roles
      /\ profile[u] \in {None, row[u]}
=============================================================================
