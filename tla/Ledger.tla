------------------------------- MODULE Ledger -------------------------------
(***************************************************************************)
(* The books of one user: transactions, transfers, goal payments, and the  *)
(* balances of the accounts, goals, assets and liabilities they are linked *)
(* to.  One action per operation of TransactionRecordRepository,           *)
(* ObjectivePaymentRepository and the repositories of the linked entities, *)
(* each taken as one step: this is the behaviour of requests that do not   *)
(* overlap.  What overlapping requests do to a balance is the subject of   *)
(* LedgerRaces.                                                            *)
(***************************************************************************)
EXTENDS Integers, Sequences, Totals, Categorization

CONSTANTS
  Accounts, Objectives, Assets, Liabilities,
  Types,         \* transaction types the requests use
  Amounts,       \* amounts a request may carry (@Min(0))
  Openings,      \* balances an account, goal, asset or liability is created with
  Overrides,     \* balances a user or a quote sets later
  Targets,       \* target_amount of a goal
  MaxRecords,    \* bound: primary keys of transaction_record
  MaxPayments,   \* bound: primary keys of objective_payment
  MaxBatch,      \* bound: rows of one bulk insert
  LegEdits       \* what PATCH /transactions/:id is used for, see Allowed

Patrimony == Accounts \cup Assets \cup Liabilities
Entities  == Patrimony \cup Objectives

ASSUME LedgerAssumption ==
  /\ Types \subseteq {"income", "expense", "investment", "transfer"}
  /\ {"expense", "transfer"} \subseteq Types
  /\ Amounts \subseteq Nat /\ Amounts # {}
  /\ Openings \subseteq Int
  /\ Overrides \subseteq Int
  /\ Targets \subseteq Int
  /\ Descriptions # {}
  /\ MaxRecords \in Nat
  /\ MaxPayments \in Nat
  /\ MaxBatch \in Nat
  /\ LegEdits \in {"never", "sameShape", "any"}
  /\ None \notin Entities
  /\ Accounts \cap (Assets \cup Liabilities \cup Objectives) = {}
  /\ Assets \cap (Liabilities \cup Objectives) = {}
  /\ Liabilities \cap Objectives = {}

Ids      == 1..MaxRecords
Payments == 1..MaxPayments
States   == {"none", "live", "deleted"}   \* no row, a row, a soft-deleted row

ObjectiveOrNone == Objectives \cup {None}
PatrimonyOrNone == Patrimony \cup {None}
AccountOrNone   == Accounts \cup {None}

\* What a request says of a record.  The three patrimony columns are one field:
\* chk_transaction_single_patrimony and the DTO's singlePatrimony validator
\* leave at most one of them set, and a request that would set two fails
\* without effect.
Fields ==
  [type: Types, amount: Amounts, objective: ObjectiveOrNone,
   patrimony: PatrimonyOrNone, description: Descriptions,
   category: CategoryOrNone, company: CompanyOrNone]

\* A row of finance.transaction_record.  The two rows of a transfer share
\* `group`, a fresh value that stands for their UUID; 0 is NULL.
Record ==
  [state: States, type: Types, amount: Amounts, objective: ObjectiveOrNone,
   patrimony: PatrimonyOrNone, origin: AccountOrNone,
   destination: AccountOrNone, group: 0..MaxRecords,
   description: Descriptions, category: CategoryOrNone,
   status: {"pending", "categorized"}, company: CompanyOrNone]

Payment == [state: States, objective: ObjectiveOrNone, amount: Amounts]

VARIABLES
  status,     \* [Entities -> States]
  balance,    \* encrypted_balance, current_balance or current_value
  target,     \* target_amount of each goal
  completed,  \* is_completed of each goal
  record,     \* [Ids -> Record]
  next,       \* next primary key of transaction_record
  payment,    \* [Payments -> Payment]
  rules,      \* finance.transaction_category_rule
  base        \* history: the part of a balance set by hand, not by a movement

goalVars == <<target, completed>>
vars == <<status, balance, goalVars, record, next, payment, rules, base>>

\* Rows no handler reads any more: keys not yet drawn, and soft-deleted rows, of
\* which the model keeps only the group.
Unread(state, group) ==
  [state |-> state, type |-> "expense", amount |-> CHOOSE a \in Amounts : TRUE,
   objective |-> None, patrimony |-> None, origin |-> None,
   destination |-> None, group |-> group,
   description |-> CHOOSE d \in Descriptions : TRUE, category |-> None,
   status |-> "pending", company |-> None]

NoPayment(state) ==
  [state |-> state, objective |-> None, amount |-> CHOOSE a \in Amounts : TRUE]

Live(i) == i \in Ids /\ record[i].state = "live"

-----------------------------------------------------------------------------
(* What a record does to a balance.                                        *)

\* contribution: a goal or an asset grows unless the record is an expense, an
\* account grows only with an income, a liability always shrinks.
Contribution(r, e) ==
  IF \/ e \in Liabilities
     \/ e \in Accounts /\ r.type # "income"
     \/ e \in Objectives \cup Assets /\ r.type = "expense"
  THEN -r.amount
  ELSE r.amount

\* The accounts a transfer moves money between.
Movement(r, e) ==
  (IF r.destination = e THEN r.amount ELSE 0)
    - (IF r.origin = e THEN r.amount ELSE 0)

\* collectContributions: the effect of a live record on the balance of e.
Collected(r, e) ==
  IF r.state # "live" THEN 0
  ELSE (IF r.type = "transfer" THEN Movement(r, e) ELSE 0)
         + (IF e \in {r.objective, r.patrimony} THEN Contribution(r, e) ELSE 0)

\* Mutation: the goal of a transfer is forgotten.
AdjustedWithoutGoal(r, e) == Movement(r, e)

\* Mutation: only the side the money arrives at.
AdjustedArrival(r, e) == IF e \in {r.destination, r.objective} THEN r.amount ELSE 0

\* applyTransferAdjustment: what the /transfers operations post or revert for a
\* record, whatever its type and its patrimony.
Adjusted(r, e) ==
  Movement(r, e) + (IF r.objective = e THEN r.amount ELSE 0)

\* The sum of c over the records in S.
SumOver(S, c) == Total(MaxRecords, [i \in Ids |-> IF i \in S THEN c[i] ELSE 0])

\* applyToEntity for every e: a soft-deleted or missing entity is skipped, and a
\* goal that is touched has its completion evaluated again.
Settle(delta, touched) ==
  /\ balance' = [e \in Entities |->
       IF status[e] = "live" THEN balance[e] + delta[e] ELSE balance[e]]
  /\ completed' = [o \in Objectives |->
       IF status[o] = "live" /\ o \in touched
       THEN balance[o] + delta[o] >= target[o]
       ELSE completed[o]]

\* applyLinkAdjustments: only entities with a non-zero net change are touched.
SettleNet(delta) == Settle(delta, {o \in Objectives : delta[o] # 0})

\* The effect of a payment on the balance of its goal.
Paid(p, e) == IF p.state = "live" /\ p.objective = e THEN p.amount ELSE 0

\* What the movements and payments on file say the balance of e has gained.
Explained(e) ==
  SumOver(Ids, [i \in Ids |-> Collected(record[i], e)])
    + Total(MaxPayments, [p \in Payments |-> Paid(payment[p], e)])

-----------------------------------------------------------------------------
(* Requests.                                                               *)

\* A foreign key needs a row, soft-deleted or not.
Exists(e) == e = None \/ (e \in Entities /\ status[e] # "none")
LinksExist(f) == Exists(f.objective) /\ Exists(f.patrimony)

\* The shape the /transfers operations expect of the records they act on:
\* a leg stays a transfer, and a transfer has no patrimony link.
TransferShape(group, f) ==
  /\ group # 0 => f.type = "transfer"
  /\ f.type = "transfer" => f.patrimony = None

\* How the clients use /transactions on a record of a transfer.  The code does
\* not restrict it ("any"); the other two are assumptions on the clients.
Allowed(group, f) ==
  \/ LegEdits = "any"
  \/ LegEdits = "sameShape" /\ TransferShape(group, f)
  \/ LegEdits = "never" /\ group = 0 /\ TransferShape(group, f)

\* PATCH semantics of an optional property.
Given(value, old) == IF value = None THEN old ELSE value

Plain(f, category) ==
  [state |-> "live", type |-> f.type, amount |-> f.amount,
   objective |-> f.objective, patrimony |-> f.patrimony,
   origin |-> None, destination |-> None, group |-> 0,
   description |-> f.description, category |-> category,
   status |-> ReviewStatus(category), company |-> f.company]

-----------------------------------------------------------------------------
(* TransactionRecordRepository: single records.                            *)

Create(f) ==
  LET new == Plain(f, Categorize(rules, f.category, f.description, f.company))
  IN  /\ next <= MaxRecords
      /\ LinksExist(f) /\ Allowed(0, f)
      /\ record' = [record EXCEPT ![next] = new]
      /\ next' = next + 1
      /\ rules' = Learn(rules, f.description, f.category)
      /\ SettleNet([e \in Entities |-> Collected(new, e)])
      /\ UNCHANGED <<status, target, payment, base>>

\* Mutation: only the category the request names counts.
RequestedCategory(i, f) == f.category

\* The record keeps its category when the request names none, and the rule of
\* its description is written again in either case.
UpdatedCategory(i, f) == Given(f.category, record[i].category)

\* Mutation: the review status is not evaluated again.
MergedKeepingStatus(i, f) ==
  LET category == Categorize(rules, UpdatedCategory(i, f), f.description, f.company)
  IN  [record[i] EXCEPT
         !.type = f.type, !.amount = f.amount, !.objective = f.objective,
         !.patrimony = f.patrimony, !.description = f.description,
         !.category = category, !.company = f.company]

Merged(i, f) ==
  LET category == Categorize(rules, UpdatedCategory(i, f), f.description, f.company)
  IN  [record[i] EXCEPT
         !.type = f.type, !.amount = f.amount, !.objective = f.objective,
         !.patrimony = f.patrimony, !.description = f.description,
         !.category = category, !.status = ReviewStatus(category),
         !.company = f.company]

\* The records the chained update (apply_to_similar) rewrites.
Similar(i, f) ==
  {j \in Ids \ {i} : /\ Live(j)
                     /\ UpdatedCategory(i, f) # None
                     /\ Norm[f.description] # None
                     /\ SameText(f.description, record[j].description)}

Update(i, f, similar) ==
  /\ Live(i)
  /\ LinksExist(f) /\ Allowed(record[i].group, f)
  /\ record' = [j \in Ids |->
       IF j = i THEN Merged(i, f)
       ELSE IF similar /\ j \in Similar(i, f)
       THEN [record[j] EXCEPT !.category = UpdatedCategory(i, f),
                              !.status = "categorized"]
       ELSE record[j]]
  /\ rules' = Learn(rules, f.description, UpdatedCategory(i, f))
  /\ SettleNet([e \in Entities |->
       Collected(Merged(i, f), e) - Collected(record[i], e)])
  /\ UNCHANGED <<status, target, next, payment, base>>

\* The copy keeps both accounts of a leg but not its group.
Cloned(i, amount, description, category, company) ==
  LET text  == Given(description, record[i].description)
      firm  == Given(company, record[i].company)
      final == Categorize(rules, Given(category, record[i].category), text, firm)
  IN  [record[i] EXCEPT
         !.amount = Given(amount, @), !.description = text,
         !.category = final, !.status = ReviewStatus(final),
         !.company = firm, !.group = 0]

Clone(i, amount, description, category, company) ==
  LET new == Cloned(i, amount, description, category, company)
  IN  /\ Live(i)
      /\ next <= MaxRecords
      /\ record' = [record EXCEPT ![next] = new]
      /\ next' = next + 1
      /\ SettleNet([e \in Entities |-> Collected(new, e)])
      /\ UNCHANGED <<status, target, payment, rules, base>>

-----------------------------------------------------------------------------
(* TransactionRecordRepository: transfers.                                 *)

Leg(amount, goal, description, company, origin, destination) ==
  [state |-> "live", type |-> "transfer", amount |-> amount,
   objective |-> goal, patrimony |-> None, origin |-> origin,
   destination |-> destination, group |-> next, description |-> description,
   category |-> None, status |-> "categorized", company |-> company]

CreateTransfer(source, dest, amount, goal, description, company) ==
  LET origin  == Leg(amount, None, description, company, source, None)
      arrival == Leg(amount, goal, description, company, None, dest)
  IN  /\ source # dest
      /\ status[source] = "live" /\ status[dest] = "live"
      /\ Exists(goal)
      /\ next + 1 <= MaxRecords
      /\ record' = [record EXCEPT ![next] = origin, ![next + 1] = arrival]
      /\ next' = next + 2
      /\ Settle([e \in Entities |-> Adjusted(origin, e) + Adjusted(arrival, e)],
                {goal})
      /\ UNCHANGED <<status, target, payment, rules, base>>

\* findTransferById: the id must be a live record of type transfer; the rest of
\* its group is taken whatever its type.
IsTransfer(i) == Live(i) /\ record[i].type = "transfer"

\* Mutation: only the leg the request names.
OneLeg(i) == {i}

Legs(i) ==
  IF record[i].group = 0
  THEN {i}
  ELSE {j \in Ids : Live(j) /\ record[j].group = record[i].group}

\* Mutation: a description the request leaves out is cleared.
AmendedBlindly(j, amount, description, relink, goal) ==
  [record[j] EXCEPT
     !.amount = Given(amount, @), !.description = description,
     !.objective = IF relink /\ record[j].destination # None THEN goal ELSE @]

Amended(j, amount, description, relink, goal) ==
  [record[j] EXCEPT
     !.amount = Given(amount, @), !.description = Given(description, @),
     !.objective = IF relink /\ record[j].destination # None THEN goal ELSE @]

UpdateTransfer(i, amount, description, relink, goal) ==
  LET new == [j \in Ids |-> Amended(j, amount, description, relink, goal)]
  IN  /\ IsTransfer(i)
      /\ Exists(goal)
      /\ record' = [j \in Ids |-> IF j \in Legs(i) THEN new[j] ELSE record[j]]
      /\ Settle([e \in Entities |->
                   SumOver(Legs(i), [j \in Ids |->
                     Adjusted(new[j], e) - Adjusted(record[j], e)])],
                {record[j].objective : j \in Legs(i)}
                  \cup {new[j].objective : j \in Legs(i)})
      /\ UNCHANGED <<status, target, next, payment, rules, base>>

RemoveTransfer(i) ==
  /\ IsTransfer(i)
  /\ record' = [j \in Ids |->
       IF j \in Legs(i) THEN Unread("deleted", record[j].group) ELSE record[j]]
  /\ Settle([e \in Entities |->
               SumOver(Legs(i), [j \in Ids |-> -Adjusted(record[j], e)])],
            {record[j].objective : j \in Legs(i)})
  /\ UNCHANGED <<status, target, next, payment, rules, base>>

-----------------------------------------------------------------------------
(* TransactionRecordRepository: removals and bulk operations.              *)

\* softDelete hands a leg over to softDeleteTransfer.
Remove(i) ==
  /\ Live(i)
  /\ \/ record[i].group # 0 /\ RemoveTransfer(i)
     \/ /\ record[i].group = 0
        /\ record' = [record EXCEPT ![i] = Unread("deleted", 0)]
        /\ SettleNet([e \in Entities |-> -Collected(record[i], e)])
        /\ UNCHANGED <<status, target, next, payment, rules, base>>

\* Mutation: transfers are not expanded.
DoomedAsAsked(ids) == {i \in ids : Live(i)}

\* What a bulk removal deletes: the live records asked for, or, as soon as one
\* of them belongs to a transfer, the members of the transfers and nothing else.
Doomed(ids) ==
  LET chosen == {i \in ids : Live(i)}
      groups == {record[i].group : i \in chosen} \ {0}
  IN  IF groups = {} THEN chosen
      ELSE {i \in Ids : Live(i) /\ record[i].group \in groups}

RemoveMany(ids) ==
  /\ \E i \in ids : Live(i)
  /\ record' = [i \in Ids |->
       IF i \in Doomed(ids) THEN Unread("deleted", record[i].group) ELSE record[i]]
  /\ SettleNet([e \in Entities |->
       SumOver(Doomed(ids), [i \in Ids |-> -Collected(record[i], e)])])
  /\ UNCHANGED <<status, target, next, payment, rules, base>>

\* createMany: the rows of a statement.  Without `assign` the rules are not
\* consulted; they are never written.
Imported(f, assign) ==
  Plain(f, IF assign
           THEN Categorize(rules, f.category, f.description, f.company)
           ELSE WithCompanyDefault(f.category, f.company))

CreateMany(batch, assign) ==
  LET rows == next .. (next + Len(batch) - 1)
      new  == [i \in rows |-> Imported(batch[i - next + 1], assign)]
  IN  /\ next + Len(batch) - 1 <= MaxRecords
      /\ \A k \in 1..Len(batch) : LinksExist(batch[k])
      /\ record' = [i \in Ids |-> IF i \in rows THEN new[i] ELSE record[i]]
      /\ next' = next + Len(batch)
      /\ SettleNet([e \in Entities |->
           SumOver(rows, [i \in Ids |->
             IF i \in rows THEN Collected(new[i], e) ELSE 0])])
      /\ UNCHANGED <<status, target, payment, rules, base>>

-----------------------------------------------------------------------------
(* ObjectivePaymentRepository.                                             *)

\* Mutation: applyCompletion is not called.
CreatePaymentQuietly(o, amount) ==
  /\ status[o] = "live"
  /\ \E p \in Payments :
       /\ payment[p].state = "none"
       /\ payment' = [payment EXCEPT
            ![p] = [state |-> "live", objective |-> o, amount |-> amount]]
  /\ Settle([e \in Entities |-> IF e = o THEN amount ELSE 0], {})
  /\ UNCHANGED <<status, target, record, next, rules, base>>

CreatePayment(o, amount) ==
  /\ status[o] = "live"
  /\ \E p \in Payments :
       /\ payment[p].state = "none"
       /\ \A q \in 1..(p-1) : payment[q].state # "none"
       /\ payment' = [payment EXCEPT
            ![p] = [state |-> "live", objective |-> o, amount |-> amount]]
  /\ Settle([e \in Entities |-> IF e = o THEN amount ELSE 0], {o})
  /\ UNCHANGED <<status, target, record, next, rules, base>>

\* Mutation: the balance of the goal is left alone.
RemovePaymentOnly(p) ==
  /\ payment[p].state = "live"
  /\ payment' = [payment EXCEPT ![p] = NoPayment("deleted")]
  /\ UNCHANGED <<status, balance, goalVars, record, next, rules, base>>

RemovePayment(p) ==
  /\ payment[p].state = "live"
  /\ payment' = [payment EXCEPT ![p] = NoPayment("deleted")]
  /\ Settle([e \in Entities |->
               IF e = payment[p].objective THEN -payment[p].amount ELSE 0],
            {payment[p].objective})
  /\ UNCHANGED <<status, target, record, next, rules, base>>

-----------------------------------------------------------------------------
(* The linked entities.                                                    *)

Open(e, amount, goal) ==
  /\ status[e] = "none"
  /\ status' = [status EXCEPT ![e] = "live"]
  /\ balance' = [balance EXCEPT ![e] = amount]
  /\ base' = [base EXCEPT ![e] = amount]
  /\ IF e \in Objectives
     THEN /\ target' = [target EXCEPT ![e] = goal]
          /\ completed' = [completed EXCEPT ![e] = amount >= goal]
     ELSE UNCHANGED goalVars
  /\ UNCHANGED <<record, next, payment, rules>>

\* BankAccountRepository.update with a balance, FinancialAssetRepository.update
\* and updateQuote, FinancialLiabilityRepository.update.
SetBalance(e, amount) ==
  /\ status[e] = "live"
  /\ balance' = [balance EXCEPT ![e] = amount]
  /\ base' = [base EXCEPT ![e] = amount - Explained(e)]
  /\ UNCHANGED <<status, goalVars, record, next, payment, rules>>

\* FinancialObjectiveRepository.update: an explicit is_completed is respected.
UpdateObjective(o, amount, goal, mark) ==
  /\ status[o] = "live"
  /\ balance' = [balance EXCEPT ![o] = Given(amount, @)]
  /\ base' = [base EXCEPT ![o] = IF amount = None THEN @ ELSE amount - Explained(o)]
  /\ target' = [target EXCEPT ![o] = Given(goal, @)]
  /\ completed' = [completed EXCEPT ![o] =
       IF mark = None THEN balance'[o] >= target'[o] ELSE mark]
  /\ UNCHANGED <<status, record, next, payment, rules>>

\* softDelete of an account, goal, asset or liability; what the row still holds
\* is read by no handler and forgotten by the model.
Close(e) ==
  /\ status[e] = "live"
  /\ status' = [status EXCEPT ![e] = "deleted"]
  /\ balance' = [balance EXCEPT ![e] = 0]
  /\ base' = [base EXCEPT ![e] = 0]
  /\ completed' = [o \in Objectives |-> o # e /\ completed[o]]
  /\ target' = [o \in Objectives |-> IF o = e THEN 0 ELSE target[o]]
  /\ UNCHANGED <<record, next, payment, rules>>

-----------------------------------------------------------------------------
Init ==
  /\ status = [e \in Entities |-> "none"]
  /\ balance = [e \in Entities |-> 0]
  /\ base = [e \in Entities |-> 0]
  /\ target = [o \in Objectives |-> 0]
  /\ completed = [o \in Objectives |-> FALSE]
  /\ record = [i \in Ids |-> Unread("none", 0)]
  /\ next = 1
  /\ payment = [p \in Payments |-> NoPayment("none")]
  /\ rules = NoRules

AmountOrNone      == Amounts \cup {None}
DescriptionOrNone == Descriptions \cup {None}

\* The rows a statement import writes: movements of one account, incomes and
\* expenses, under one default category.
Batches ==
  {b \in UNION {[1..n -> Fields] : n \in 1..MaxBatch} :
     \A k \in DOMAIN b : /\ b[k].type \in {"income", "expense"}
                         /\ b[k].objective = None
                         /\ b[k].patrimony \in AccountOrNone
                         /\ b[k].patrimony = b[1].patrimony
                         /\ b[k].category = b[1].category}

-----------------------------------------------------------------------------
(* The endpoints, with what their requests may carry.                      *)

PostTransaction == \E f \in Fields : Create(f)

CloneTransaction ==
  \E i \in Ids, amount \in AmountOrNone, description \in DescriptionOrNone,
     category \in CategoryOrNone, company \in CompanyOrNone :
    Clone(i, amount, description, category, company)

PatchTransaction == \E i \in Ids, f \in Fields, similar \in BOOLEAN : Update(i, f, similar)

DeleteTransaction == \E i \in Ids : Remove(i)

SingleStep == PostTransaction \/ PatchTransaction \/ CloneTransaction \/ DeleteTransaction

PostTransfer ==
  \E source, dest \in Accounts, amount \in Amounts, goal \in ObjectiveOrNone,
     description \in Descriptions, company \in CompanyOrNone :
    CreateTransfer(source, dest, amount, goal, description, company)

PatchTransfer ==
  \E i \in Ids, amount \in AmountOrNone, description \in DescriptionOrNone,
     relink \in BOOLEAN, goal \in ObjectiveOrNone :
    UpdateTransfer(i, amount, description, relink, goal)

DeleteTransfer == \E i \in Ids : RemoveTransfer(i)

TransferStep == PostTransfer \/ PatchTransfer \/ DeleteTransfer

DeleteTransactions == \E ids \in SUBSET Ids : RemoveMany(ids)
ImportTransactions == \E batch \in Batches, assign \in BOOLEAN : CreateMany(batch, assign)

BulkStep == DeleteTransactions \/ ImportTransactions

PostPayment   == \E o \in Objectives, amount \in Amounts : CreatePayment(o, amount)
DeletePayment == \E p \in Payments : RemovePayment(p)

PaymentStep == PostPayment \/ DeletePayment

Opens(E) ==
  \E e \in E, amount \in Openings, goal \in Targets : Open(e, amount, goal)
Changes(E) ==
  \/ \E e \in E, amount \in Overrides : SetBalance(e, amount)
  \/ \E e \in E : Close(e)

AccountStep   == Opens(Accounts) \/ Changes(Accounts)
AssetStep     == Opens(Assets) \/ Changes(Assets)
LiabilityStep == Opens(Liabilities) \/ Changes(Liabilities)
ObjectiveStep ==
  \/ Opens(Objectives)
  \/ \E o \in Objectives, amount \in Overrides \cup {None},
        goal \in Targets \cup {None}, mark \in BOOLEAN \cup {None} :
       UpdateObjective(o, amount, goal, mark)
  \/ \E o \in Objectives : Close(o)

EntityStep == AccountStep \/ AssetStep \/ LiabilityStep \/ ObjectiveStep

Next == SingleStep \/ TransferStep \/ BulkStep \/ PaymentStep \/ EntityStep

Spec == Init /\ [][Next]_vars

-----------------------------------------------------------------------------
(* Correctness.                                                            *)

TypeOK ==
  /\ status \in [Entities -> States]
  /\ balance \in [Entities -> Int]
  /\ base \in [Entities -> Int]
  /\ target \in [Objectives -> Int]
  /\ completed \in [Objectives -> BOOLEAN]
  /\ record \in [Ids -> Record]
  /\ next \in 1..(MaxRecords + 1)
  /\ payment \in [Payments -> Payment]
  /\ rules \in Rules

\* The books balance: what a live account, goal, asset or liability shows is
\* the amount last set by hand plus the effect of every live record and payment
\* linked to it.  Every operation of the ledger adjusts balances by differences
\* only (applyLinkAdjustments, applyTransferAdjustment, the payments' +/-), so
\* one forgotten or doubled difference stays forever.
Reconciled ==
  \A e \in Entities : status[e] = "live" => balance[e] = base[e] + Explained(e)

\* Whatever mix of /transactions and /transfers requests touched them, the rows
\* of a group are both live or both deleted: softDelete, softDeleteMany and
\* softDeleteTransfer never leave half a transfer behind.
PairsTogether ==
  \A i, j \in Ids :
    record[i].group # 0 /\ record[i].group = record[j].group
      => record[i].state = record[j].state

\* Every live record a /transfers operation can reach still has the shape those
\* operations assume when they revert it with applyTransferAdjustment, which
\* looks at neither the type nor the patrimony link.
LegsKeepShape ==
  \A i \in Ids : Live(i) => TransferShape(record[i].group, record[i])

\* A balance departs from what explains it, or departs further, only when a request
\* changes a record that was edited out of the shape of a transfer and names the
\* balance before or after: the /transfers operations revert and post such a record
\* by applyTransferAdjustment, which looks at neither its type nor its patrimony
\* link.  No other record, request or sequence of requests opens a gap, whatever
\* /transactions does to the rows of a transfer.
Gap(e) == balance[e] - base[e] - Explained(e)

Bent(i) == Live(i) /\ ~ TransferShape(record[i].group, record[i])

Links(r) == {r.origin, r.destination, r.objective, r.patrimony}

GapsComeFromBentRecords ==
  [][\A e \in Entities :
       /\ status[e] = "live" /\ status'[e] = "live"
       /\ Gap(e)' \notin {0, Gap(e)}
       => \E i \in Ids : /\ Bent(i) /\ record'[i] # record[i]
                         /\ e \in Links(record[i]) \cup Links(record'[i])]_vars

\* Of a transfer's two live rows one takes an amount from an account and the other
\* puts the same amount into another account.
Mirror(a, b) ==
  /\ a.amount = b.amount
  /\ {a.origin, b.origin} \cap Accounts # {}
  /\ {a.destination, b.destination} \cap Accounts # {}
  /\ {a.origin, b.origin} \ {None} # {a.destination, b.destination} \ {None}

InPair(i, j) == i # j /\ Live(i) /\ Live(j) /\ record[i].group # 0
                /\ record[j].group = record[i].group

\* A transfer moves money and makes none: its rows are written as a debit and a
\* credit of one amount between two accounts, and stay so until a client changes one
\* of them with PATCH /transactions/:id, which the code lets it do (TransactionRecord-
\* Repository.update reads no group).  No other request sets them apart, whatever was
\* done to them before.
PairsPartByPatch ==
  [][\A i, j \in Ids :
       InPair(i, j)' =>
         \/ Mirror(record'[i], record'[j])
         \/ InPair(i, j) /\ ~ Mirror(record[i], record[j])
         \/ \E k \in {i, j}, f \in Fields, similar \in BOOLEAN : Update(k, f, similar)]_vars

\* applyCompletion is the single point of truth: whichever operation moves the
\* balance or the target of a live goal also decides its completion anew, unless
\* the request states the completion itself.
CompletionFollowsBalance ==
  [][\A o \in Objectives :
       /\ status[o] = "live" /\ status'[o] = "live"
       /\ balance'[o] # balance[o] \/ target'[o] # target[o]
       /\ ~ \E amount \in Overrides \cup {None}, goal \in Targets \cup {None},
               mark \in BOOLEAN : UpdateObjective(o, amount, goal, mark)
       => completed'[o] = (balance'[o] >= target'[o])]_vars

\* Once a record has a category no later request takes it back to the review
\* queue, and the queue holds exactly the records without one (a transfer has
\* none by design until it is edited through /transactions).
CategoryNeverLost ==
  [][\A i \in Ids :
       record[i].state = "live" /\ record'[i].state = "live"
         /\ record[i].category # None
       => record'[i].category # None]_vars

QueueIsUncategorized ==
  \A i \in Ids : Live(i) /\ record[i].group = 0 =>
    record[i].status = ReviewStatus(record[i].category)
=============================================================================
