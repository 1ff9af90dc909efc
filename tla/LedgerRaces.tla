---------------------------- MODULE LedgerRaces ----------------------------
(***************************************************************************)
(* The requests of Ledger, one SQL statement at a time.  The variables of  *)
(* Ledger are the committed database; a request works in a transaction     *)
(* under READ COMMITTED, PostgreSQL's default, which nothing in the        *)
(* configuration changes: it reads what is committed or its own writes,    *)
(* its writes lock their rows until it ends, and a writer waits for the    *)
(* lock of another.  A balance is read into the process, changed there and *)
(* written back (applyToEntity), so two requests may both start from the   *)
(* same figure.                                                            *)
(*                                                                         *)
(* Rules and categories do not meet the balances; Ledger has them.  Nor    *)
(* are the linked entities closed here, or a goal's target changed.        *)
(***************************************************************************)
EXTENDS Ledger, FiniteSets

CONSTANTS
  Requests,   \* requests the server handles at a time
  Ops,        \* operations the clients use
  MaxAsked    \* bound: requests in a behaviour

ASSUME RacesAssumption ==
  /\ Ops \subseteq {"create", "import", "clone", "update", "remove",
                    "removeMany", "transfer", "amend", "pay", "unpay", "edit"}
  /\ MaxAsked \in Nat
  /\ MaxRecords >= 2 * MaxAsked /\ MaxRecords >= MaxBatch * MaxAsked
  /\ MaxPayments >= MaxAsked
  /\ Categories = {}

VARIABLES
  todo,    \* [Requests -> statements left]; the empty sequence when idle
  work,    \* [Requests -> uncommitted writes, a function of the locked rows]
  new,     \* [Requests -> uncommitted rows of transaction_record]
  newPay,  \* [Requests -> uncommitted rows of objective_payment]
  asked,   \* requests so far
  touch,   \* history: what a running request reads to change it
  raced    \* history: entities two requests changed at the same time

raceVars == <<todo, work, new, newPay, asked, touch, raced>>

-----------------------------------------------------------------------------
(* Statements.                                                             *)

Running(p) == todo[p] # << >>

NoWork     == << >>
Row(i)     == <<"record", i>>
Entity(e)  == <<"entity", e>>
Abono(k)   == <<"payment", k>>

\* What request p reads: its own writes, or what is committed.
OwnRecord(p, i) == IF Row(i) \in DOMAIN work[p] THEN work[p][Row(i)] ELSE record[i]

Figure(amount, done, byHand) ==
  [balance |-> amount, completed |-> done, byHand |-> byHand]

Committed(e) == Figure(balance[e], e \in Objectives /\ completed[e], FALSE)

\* Mutation: the repository of the handler, not that of its transaction.
OthersFigure(p, e) == Committed(e)

OwnFigure(p, e) ==
  IF Entity(e) \in DOMAIN work[p] THEN work[p][Entity(e)] ELSE Committed(e)

\* applyCompletion on the balance a request is about to write.
Reached(e, amount) == e \in Objectives /\ amount >= target[e]

\* Keys become known when rows are inserted, but no other statement refers to
\* them: the model draws them when the request commits.
Insert(row)    == [do |-> "insert", row |-> row]
InsertPay(row) == [do |-> "pay", row |-> row]
Drop(i)        == [do |-> "drop", id |-> i]
DropPay(k)     == [do |-> "unpay", id |-> k]
Commit         == [do |-> "commit"]

\* The driver reads NUMERIC as text and a balance of an account is encrypted anew,
\* so that a number the request states or computes differs from what is stored
\* even where it is the same amount.
Save(i, row, stated) == [do |-> "save", id |-> i, row |-> row, stated |-> stated]
Adjust(e, d)         == [do |-> "adjust", on |-> e, by |-> d]
Write(e, fig, counted) ==
  [do |-> "write", on |-> e, figure |-> fig, counted |-> counted]

\* The lists part[1] .. part[n], one after the other.
Joined(n, part) ==
  LET line[k \in 0..n] == IF k = 0 THEN << >> ELSE line[k-1] \o part[k]
  IN  line[n]

\* What a loop over the rows `ids` does for each.
ForEach(ids, part) == Joined(MaxRecords, [i \in Ids |-> IF i \in ids THEN part[i] ELSE << >>])

\* The links of a record in the order collectContributions meets them.
LinksOf(r) ==
  IF r.state # "live" THEN << >>
  ELSE (IF r.type = "transfer" THEN <<r.origin, r.destination>> ELSE << >>)
         \o <<r.objective, r.patrimony>>

\* applyLinkAdjustments and its copies in createMany and softDeleteMany: one
\* adjustment per entity with a net change.
NetAdjustments(links, delta) ==
  Joined(Len(links),
         [k \in 1..Len(links) |->
            IF /\ links[k] # None /\ delta[links[k]] # 0
               /\ \A j \in 1..(k-1) : links[j] # links[k]
            THEN <<Adjust(links[k], delta[links[k]])>>
            ELSE << >>])

\* applyTransferAdjustment: also posts an amount of zero.
Post(e, d) == IF e = None THEN << >> ELSE <<Adjust(e, d)>>
LegAdjustments(r, sign) ==
  Post(r.origin, - (sign * r.amount)) \o Post(r.destination, sign * r.amount)
    \o Post(r.objective, sign * r.amount)

-----------------------------------------------------------------------------
(* Requests.  Each begins with the reads its handler makes before it writes*)
(* anything: findById and findTransferById, outside the transaction, or the*)
(* find of softDeleteMany, inside it but without a lock.                   *)

\* The rows and the balances the statements of a request write, and the entities
\* linked to those rows as they are and as they will be.
Linked(r) == {r.origin, r.destination, r.objective, r.patrimony} \cap Entities

RowsOf(s) ==
  IF s.do \in {"save", "drop"} THEN {Row(s.id)}
  ELSE IF s.do = "unpay" THEN {Abono(s.id)} ELSE {}

ChangesOf(s) == IF s.do \in {"adjust", "write"} THEN {s.on} ELSE {}

LinkedBy(s) ==
  (IF s.do \in {"save", "drop"} THEN Linked(record[s.id]) ELSE {})
    \cup (IF s.do = "save" THEN Linked(s.row) ELSE {})

Touched(statements) ==
  [rows    |-> UNION {RowsOf(statements[k]) : k \in DOMAIN statements},
   changes |-> UNION {ChangesOf(statements[k]) : k \in DOMAIN statements},
   links   |-> UNION {ChangesOf(statements[k]) \cup LinkedBy(statements[k]) :
                        k \in DOMAIN statements}]

\* The entities two overlapping requests may spoil: those both change, and all
\* those of a row both change, on the strength of what each read of it.
Conflict(mine, other) ==
  IF mine.rows \cap other.rows # {}
  THEN mine.links \cup other.links
  ELSE mine.changes \cap other.changes

Nothing == [rows |-> {}, changes |-> {}, links |-> {}]

Ask(p, op, statements) ==
  LET mine == Touched(statements)
  IN  /\ op \in Ops
      /\ ~ Running(p)
      /\ asked < MaxAsked
      /\ todo' = [todo EXCEPT ![p] = statements \o <<Commit>>]
      /\ asked' = asked + 1
      /\ touch' = [touch EXCEPT ![p] = mine]
      /\ raced' = raced \cup
           UNION {Conflict(mine, touch[q]) : q \in {r \in Requests : Running(r)}}
      /\ UNCHANGED <<vars, work, new, newPay>>

AskCreate(p, f) ==
  LET row == Plain(f, None)
  IN  /\ LinksExist(f) /\ Allowed(0, f)
      /\ Ask(p, "create",
             <<Insert(row)>> \o NetAdjustments(LinksOf(row), [e \in Entities |-> Collected(row, e)]))

AskImport(p, batch) ==
  LET rows == [k \in 1..Len(batch) |-> Plain(batch[k], None)]
      gain == [e \in Entities |->
        Total(Len(batch), [k \in 1..Len(batch) |-> Collected(rows[k], e)])]
  IN  /\ \A k \in DOMAIN batch : LinksExist(batch[k])
      /\ Ask(p, "import",
             [k \in 1..Len(batch) |-> Insert(rows[k])]
               \o NetAdjustments(Joined(Len(batch), [k \in 1..Len(batch) |-> LinksOf(rows[k])]),
                                 gain))

AskClone(p, i, amount) ==
  LET row == Cloned(i, amount, None, None, None)
  IN  /\ Live(i)
      /\ Ask(p, "clone",
             <<Insert(row)>> \o NetAdjustments(LinksOf(row), [e \in Entities |-> Collected(row, e)]))

\* A PATCH may state the amount the record has, or leave it out.
AskUpdate(p, i, f) ==
  LET row == Merged(i, f)
  IN  /\ Live(i) /\ LinksExist(f) /\ Allowed(record[i].group, f)
      /\ \E stated \in SUBSET {"amount"} :
           Ask(p, "update",
               <<Save(i, row, stated)>>
                 \o NetAdjustments(LinksOf(record[i]) \o LinksOf(row),
                                   [e \in Entities |-> Collected(row, e) - Collected(record[i], e)]))

\* Mutation: only the leg the request names.
HalfUndone(i) == LegAdjustments(record[i], -1) \o <<Drop(i)>>

\* softDeleteTransfer.
Undone(i) ==
  ForEach(Legs(i), [j \in Ids |-> LegAdjustments(record[j], -1) \o <<Drop(j)>>])

AskRemove(p, i) ==
  /\ Live(i)
  /\ \/ record[i].group # 0 /\ IsTransfer(i) /\ Ask(p, "remove", Undone(i))
     \/ record[i].group = 0
        /\ Ask(p, "remove",
               <<Drop(i)>> \o NetAdjustments(LinksOf(record[i]),
                                             [e \in Entities |-> - Collected(record[i], e)]))

AskRemoveTransfer(p, i) == IsTransfer(i) /\ Ask(p, "remove", Undone(i))

AskRemoveMany(p, ids) ==
  LET doomed == Doomed(ids)
      loss == [e \in Entities |->
        SumOver(doomed, [i \in Ids |-> - Collected(record[i], e)])]
  IN  /\ \E i \in ids : Live(i)
      /\ Ask(p, "removeMany",
             ForEach(doomed, [i \in Ids |-> <<Drop(i)>>])
               \o NetAdjustments(ForEach(doomed, [i \in Ids |-> LinksOf(record[i])]), loss))

AskTransfer(p, source, dest, amount, goal) ==
  LET text    == CHOOSE d \in Descriptions : TRUE
      origin  == Leg(amount, None, text, None, source, None)
      arrival == Leg(amount, goal, text, None, None, dest)
  IN  /\ source # dest /\ status[source] = "live" /\ status[dest] = "live"
      /\ Exists(goal)
      /\ Ask(p, "transfer",
             <<Insert(origin), Insert(arrival)>>
               \o LegAdjustments(origin, 1) \o LegAdjustments(arrival, 1))

AskAmend(p, i, amount, relink, goal) ==
  LET row    == [j \in Ids |-> Amended(j, amount, None, relink, goal)]
      stated == IF amount = None THEN {} ELSE {"amount"}
  IN  /\ IsTransfer(i) /\ Exists(goal)
      /\ Ask(p, "amend",
             ForEach(Legs(i), [j \in Ids |-> LegAdjustments(record[j], -1)])
               \o ForEach(Legs(i), [j \in Ids |->
                    <<Save(j, row[j], stated)>> \o LegAdjustments(row[j], 1)]))

\* The goal is read before the payment is inserted and written after it.
AskPay(p, o, amount) ==
  LET total == balance[o] + amount
  IN  /\ status[o] = "live"
      /\ Ask(p, "pay",
             <<InsertPay([state |-> "live", objective |-> o, amount |-> amount]),
               Write(o, Figure(total, Reached(o, total), FALSE), TRUE)>>)

AskUnpay(p, k) ==
  /\ payment[k].state = "live"
  /\ Ask(p, "unpay",
         <<DropPay(k), Adjust(payment[k].objective, - payment[k].amount)>>)

\* PATCH of an account, goal, asset or liability: the entity read by findById is
\* merged and saved whole, with its balance as it was read when the request
\* does not state one.
AskEdit(p, e, amount) ==
  LET total == Given(amount, balance[e])
  IN  /\ status[e] = "live"
      /\ Ask(p, "edit",
             <<Write(e, Figure(total, Reached(e, total), amount # None), amount # None)>>)

-----------------------------------------------------------------------------
(* Execution.                                                              *)

\* The rows a request has locked, and the row its next statement must lock.
Held(p) == DOMAIN work[p]

Needs(p) ==
  IF ~ Running(p) THEN {}
  ELSE LET s == Head(todo[p])
       IN  CASE s.do \in {"update", "drop"} -> {Row(s.id)}
             [] s.do = "unpay" -> {Abono(s.id)}
             [] s.do = "write" ->
                  IF ~ s.counted /\ OwnFigure(p, s.on) = s.figure THEN {} ELSE {Entity(s.on)}
             [] OTHER -> {}

WaitsFor(p) == {q \in Requests \ {p} : Needs(p) \cap Held(q) # {}}

Done(p) == todo' = [todo EXCEPT ![p] = Tail(@)]

Replace(p, s) == todo' = [todo EXCEPT ![p] = <<s>> \o Tail(@)]

Lock(p, key, value) ==
  work' = [work EXCEPT ![p] =
    [k \in DOMAIN @ \cup {key} |-> IF k = key THEN value ELSE @[k]]]

Inserts(p, s) ==
  /\ s.do = "insert"
  /\ new' = [new EXCEPT ![p] = Append(@, s.row)]
  /\ Done(p)
  /\ UNCHANGED <<work, newPay>>

\* TypeORM's save of a loaded entity selects the row again, deleted or not, and
\* updates the columns in which the two differ; deleted_at is one of them.
Compares(p, s) ==
  /\ s.do = "save"
  /\ LET columns == s.stated \cup {c \in DOMAIN s.row : s.row[c] # OwnRecord(p, s.id)[c]}
     IN  IF columns = {} THEN Done(p)
         ELSE Replace(p, [do |-> "update", id |-> s.id, row |-> s.row,
                          columns |-> columns])
  /\ UNCHANGED <<work, new, newPay>>

Updates(p, s) ==
  LET old == OwnRecord(p, s.id)
      row == [c \in DOMAIN old |-> IF c \in s.columns THEN s.row[c] ELSE old[c]]
  IN  /\ s.do = "update"
      /\ Lock(p, Row(s.id),
              IF row.state = "live" THEN row ELSE Unread("deleted", row.group))
      /\ Done(p)
      /\ UNCHANGED <<new, newPay>>

\* softRemove sets deleted_at whether or not it is set.
Drops(p, s) ==
  /\ s.do = "drop"
  /\ Lock(p, Row(s.id), Unread("deleted", OwnRecord(p, s.id).group))
  /\ Done(p)
  /\ UNCHANGED <<new, newPay>>

\* applyToEntity reads the balance ...
Reads(p, s) ==
  /\ s.do = "adjust"
  /\ LET total == OwnFigure(p, s.on).balance + s.by
     IN  IF status[s.on] = "live"
         THEN Replace(p, Write(s.on, Figure(total, Reached(s.on, total), FALSE), TRUE))
         ELSE Done(p)
  /\ UNCHANGED <<work, new, newPay>>

\* ... and writes the new one; a save that finds no difference writes nothing.
Writes(p, s) ==
  /\ s.do = "write"
  /\ IF Needs(p) = {} THEN UNCHANGED work ELSE Lock(p, Entity(s.on), s.figure)
  /\ Done(p)
  /\ UNCHANGED <<new, newPay>>

Pays(p, s) ==
  /\ s.do = "pay"
  /\ newPay' = [newPay EXCEPT ![p] = Append(@, s.row)]
  /\ Done(p)
  /\ UNCHANGED <<work, new>>

Unpays(p, s) ==
  /\ s.do = "unpay"
  /\ Lock(p, Abono(s.id), NoPayment("deleted"))
  /\ Done(p)
  /\ UNCHANGED <<new, newPay>>

Execute(p) ==
  /\ Running(p)
  /\ WaitsFor(p) = {}
  /\ LET s == Head(todo[p])
     IN  \/ Inserts(p, s) \/ Compares(p, s) \/ Updates(p, s) \/ Drops(p, s)
         \/ Reads(p, s) \/ Writes(p, s) \/ Pays(p, s) \/ Unpays(p, s)
  /\ UNCHANGED <<vars, asked, touch, raced>>

Forget(p) ==
  /\ todo' = [todo EXCEPT ![p] = << >>]
  /\ work' = [work EXCEPT ![p] = NoWork]
  /\ new' = [new EXCEPT ![p] = << >>]
  /\ newPay' = [newPay EXCEPT ![p] = << >>]
  /\ touch' = [touch EXCEPT ![p] = Nothing]
  /\ UNCHANGED <<asked, raced>>

\* A request registers one payment at most.
FreePayments == {k \in Payments : payment[k].state = "none"}
NextPayment  == CHOOSE k \in FreePayments : \A l \in FreePayments : k <= l

\* What p has written reaches the database, under the next free keys (which
\* RacesAssumption provides for every request).
Keep(p) ==
  LET w     == work[p]
      rows  == next .. (next + Len(new[p]) - 1)
      row(i) == LET r == new[p][i - next + 1]
                IN  [r EXCEPT !.group = IF @ = 0 THEN 0 ELSE next]
      figure(e) == IF Entity(e) \in DOMAIN w THEN w[Entity(e)] ELSE Committed(e)
  IN  /\ next + Len(new[p]) <= MaxRecords + 1
      /\ newPay[p] # << >> => FreePayments # {}
      /\ record' = [i \in Ids |-> IF Row(i) \in DOMAIN w THEN w[Row(i)]
                                  ELSE IF i \in rows THEN row(i) ELSE record[i]]
      /\ next' = next + Len(new[p])
      /\ payment' = [k \in Payments |->
           IF Abono(k) \in DOMAIN w THEN w[Abono(k)]
           ELSE IF newPay[p] # << >> /\ k = NextPayment THEN newPay[p][1] ELSE payment[k]]
      /\ balance' = [e \in Entities |-> figure(e).balance]
      /\ completed' = [o \in Objectives |-> figure(o).completed]
      /\ base' = [e \in Entities |->
           IF figure(e).byHand THEN figure(e).balance - Explained(e) ELSE base[e]]
      /\ UNCHANGED <<status, target, rules>>

Commits(p) ==
  /\ Running(p) /\ Head(todo[p]).do = "commit"
  /\ Keep(p)
  /\ Forget(p)

\* Mutation: a request that fails keeps what it has written.
FailHalfway(p) ==
  /\ Running(p)
  /\ Keep(p)
  /\ Forget(p)

\* A statement fails, or the server stops: dataSource.transaction rolls back.
Fail(p) ==
  /\ Running(p)
  /\ Forget(p)
  /\ UNCHANGED vars

\* PostgreSQL's deadlock detector ends a transaction of a cycle of waits.
\* (Every request waits for one other at most.)
Deadlocked(p) ==
  \E S \in SUBSET Requests : p \in S /\ S = UNION {WaitsFor(q) : q \in S}

\* Mutation: nothing ends a cycle of waits.
BreakNoDeadlock(p) == FALSE

BreakDeadlock(p) ==
  /\ Deadlocked(p)
  /\ Forget(p)
  /\ UNCHANGED vars

-----------------------------------------------------------------------------
RaceInit ==
  /\ Init
  /\ todo = [p \in Requests |-> << >>]
  /\ work = [p \in Requests |-> NoWork]
  /\ new = [p \in Requests |-> << >>]
  /\ newPay = [p \in Requests |-> << >>]
  /\ asked = 0
  /\ touch = [p \in Requests |-> Nothing]
  /\ raced = {}

\* POST of an entity is one INSERT; here they come before the first request.
OpensEntities ==
  /\ asked = 0
  /\ \E e \in Entities, amount \in Openings, goal \in Targets : Open(e, amount, goal)
  /\ UNCHANGED raceVars

AskRecord(p) ==
  \/ \E f \in Fields : AskCreate(p, f)
  \/ \E batch \in Batches : AskImport(p, batch)
  \/ \E i \in Ids, amount \in AmountOrNone : AskClone(p, i, amount)
  \/ \E i \in Ids, f \in Fields : AskUpdate(p, i, f)
  \/ \E i \in Ids : AskRemove(p, i)
  \/ \E ids \in SUBSET Ids : AskRemoveMany(p, ids)

AskMoney(p) ==
  \/ \E source, dest \in Accounts, amount \in Amounts, goal \in ObjectiveOrNone :
       AskTransfer(p, source, dest, amount, goal)
  \/ \E i \in Ids, amount \in AmountOrNone, relink \in BOOLEAN, goal \in ObjectiveOrNone :
       AskAmend(p, i, amount, relink, goal)
  \/ \E i \in Ids : AskRemoveTransfer(p, i)
  \/ \E o \in Objectives, amount \in Amounts : AskPay(p, o, amount)
  \/ \E k \in Payments : AskUnpay(p, k)
  \/ \E e \in Entities, amount \in Overrides \cup {None} : AskEdit(p, e, amount)

RaceNext ==
  \/ OpensEntities
  \/ \E p \in Requests :
       AskRecord(p) \/ AskMoney(p) \/ Execute(p) \/ Commits(p) \/ Fail(p)
         \/ BreakDeadlock(p)

allVars == <<vars, raceVars>>

\* The process runs a handler to its end, PostgreSQL answers, and its deadlock
\* detector runs; nobody has to send a request.
Fairness ==
  \A p \in Requests :
    /\ WF_allVars(Execute(p))
    /\ WF_allVars(Commits(p))
    /\ WF_allVars(BreakDeadlock(p))

RaceSpec == RaceInit /\ [][RaceNext]_allVars /\ Fairness

-----------------------------------------------------------------------------
(* Correctness.                                                            *)

\* What an overlap can damage is the balance of the entities both requests
\* change, or of those linked to a record both change: every other balance is
\* explained by the committed movements at every moment, whatever failed, rolled
\* back or was chosen by the deadlock detector.
DamageIsConfined ==
  \A e \in Entities \ raced : status[e] = "live" => balance[e] = base[e] + Explained(e)

\* Half a transfer is left only where requests overlapped on it: the accounts of
\* what is left are among those an overlap may damage.
HalvesAreConfined ==
  \A i, j \in Ids :
    /\ record[i].group # 0 /\ record[i].group = record[j].group
    /\ record[i].state = "live" /\ record[j].state # "live"
    => {record[i].origin, record[i].destination} \cap Accounts \subseteq raced

\* Every request is answered: the row locks of overlapping requests never hold
\* one of them for ever.
Answered == \A p \in Requests : Running(p) ~> ~ Running(p)

\* One request at a time does what Ledger says, in one step, however their
\* statements fail.
ImplementsLedger == Spec
=============================================================================
