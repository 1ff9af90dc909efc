---------------------------- MODULE LedgerProofs ----------------------------
(***************************************************************************)
(* What is true of the books for every set of accounts, goals, assets and  *)
(* liabilities, every set of amounts and every bound.                      *)
(***************************************************************************)
EXTENDS Ledger, TotalsTheorems, SequenceTheorems

\* What the proofs use of the assumptions on the constants.
LEMMA Bounds == MaxRecords \in Nat /\ MaxPayments \in Nat /\ MaxBatch \in Nat
BY ZenonT(30), LedgerAssumption

\* The values requests carry are numbers, and the two types every request may
\* use are among Types.
LEMMA Values ==
  /\ \A a \in Amounts : a \in Nat
  /\ \A a \in Openings : a \in Int
  /\ \A a \in Overrides : a \in Int
  /\ \A a \in Targets : a \in Int
  /\ "expense" \in Types /\ "transfer" \in Types
<1>1. Amounts \subseteq Nat /\ Openings \subseteq Int /\ Overrides \subseteq Int
      /\ Targets \subseteq Int /\ {"expense", "transfer"} \subseteq Types
  BY ZenonT(30), LedgerAssumption
<1> QED
  BY <1>1

-----------------------------------------------------------------------------
(* Sums over a table of records.                                           *)

\* A sum over a set of lines is an integer.
LEMMA SumOverInt ==
  ASSUME NEW S \in SUBSET Ids, NEW c \in [Ids -> Int]
  PROVE  SumOver(S, c) \in Int
<1>1. [i \in Ids |-> IF i \in S THEN c[i] ELSE 0] \in [1..MaxRecords -> Int]
  BY DEF Ids
<1> QED
  BY <1>1, TotalInt, Bounds DEF SumOver

\* Changing the lines of S changes the sum by the sum of their differences.
LEMMA SumOverChange ==
  ASSUME NEW S \in SUBSET Ids, NEW c \in [Ids -> Int], NEW d \in [Ids -> Int],
         \A i \in Ids \ S : d[i] = c[i]
  PROVE  SumOver(Ids, d) = SumOver(Ids, c) + SumOver(S, [i \in Ids |-> d[i] - c[i]])
<1> DEFINE cc == [i \in Ids |-> IF i \in Ids THEN c[i] ELSE 0]
           dd == [i \in Ids |-> IF i \in Ids THEN d[i] ELSE 0]
           ee == [i \in Ids |-> IF i \in S THEN [j \in Ids |-> d[j] - c[j]][i] ELSE 0]
<1>1. /\ cc \in [1..MaxRecords -> Int] /\ dd \in [1..MaxRecords -> Int]
      /\ ee \in [1..MaxRecords -> Int] /\ MaxRecords \in Nat
  BY Bounds DEF Ids
<1>2. \A i \in 1..MaxRecords : dd[i] = cc[i] + ee[i]
  BY DEF Ids
<1>3. Total(MaxRecords, dd) = Total(MaxRecords, cc) + Total(MaxRecords, ee)
  <2> HIDE DEF cc, dd, ee
  <2> QED
    BY <1>1, <1>2, TotalSum
<1> QED
  BY <1>3 DEF SumOver

\* A sum over two lines is made of the sums over each.
LEMMA SumOverPair ==
  ASSUME NEW k \in Ids, NEW l \in Ids \ {k}, NEW c \in [Ids -> Int]
  PROVE  SumOver({k, l}, c) = SumOver({k}, c) + SumOver({l}, c)
<1> DEFINE Part(S) == [i \in Ids |-> IF i \in S THEN c[i] ELSE 0]
<1>1. /\ Part({k, l}) \in [1..MaxRecords -> Int]
      /\ Part({k}) \in [1..MaxRecords -> Int]
      /\ Part({l}) \in [1..MaxRecords -> Int]
  BY DEF Ids
<1>2. \A i \in 1..MaxRecords : Part({k, l})[i] = Part({k})[i] + Part({l})[i]
  BY DEF Ids
<1>3. \A S : SumOver(S, c) = Total(MaxRecords, Part(S))
  BY DEF SumOver
<1> HIDE DEF Part
<1>4. Total(MaxRecords, Part({k, l}))
        = Total(MaxRecords, Part({k})) + Total(MaxRecords, Part({l}))
  BY <1>1, <1>2, TotalSum, Bounds
<1> QED
  BY <1>3, <1>4

\* A sum over one line is that line.
LEMMA SumOverSingle ==
  ASSUME NEW k \in Ids, NEW c \in [Ids -> Int]
  PROVE  SumOver({k}, c) = c[k]
<1> DEFINE cc == [i \in Ids |-> IF i \in {k} THEN c[i] ELSE 0]
<1>1. cc \in [1..MaxRecords -> Int] /\ k \in 1..MaxRecords /\ MaxRecords \in Nat
  BY Bounds DEF Ids
<1>2. (\A i \in 1..MaxRecords \ {k} : cc[i] = 0) /\ cc[k] = c[k]
  BY DEF Ids
<1>3. Total(MaxRecords, cc) = cc[k]
  <2> HIDE DEF cc
  <2> QED
    BY <1>1, <1>2, TotalSingle
<1> QED
  BY <1>2, <1>3 DEF SumOver

\* Only the lines of S matter.
LEMMA SumOverSame ==
  ASSUME NEW S \in SUBSET Ids, NEW c \in [Ids -> Int], NEW d \in [Ids -> Int],
         \A i \in S : d[i] = c[i]
  PROVE  SumOver(S, c) = SumOver(S, d)
<1>1. [i \in Ids |-> IF i \in S THEN c[i] ELSE 0]
        = [i \in Ids |-> IF i \in S THEN d[i] ELSE 0]
  OBVIOUS
<1> QED
  BY <1>1 DEF SumOver

-----------------------------------------------------------------------------
(* Types of the operators.                                                 *)

\* The row the model keeps of an undrawn or deleted key is a record.
LEMMA UnreadType ==
  ASSUME NEW s \in States, NEW g \in 0..MaxRecords
  PROVE  /\ Unread(s, g) \in Record
         /\ Unread(s, g).state = s /\ Unread(s, g).group = g
<1>1. (CHOOSE a \in Amounts : TRUE) \in Amounts
  BY LedgerAssumption
<1>2. (CHOOSE d \in Descriptions : TRUE) \in Descriptions
  BY LedgerAssumption
<1>3. "expense" \in Types
  BY LedgerAssumption
<1> QED
  BY <1>1, <1>2, <1>3
  DEF Unread, Record, ObjectiveOrNone, PatrimonyOrNone, AccountOrNone,
      CategoryOrNone, CompanyOrNone

\* Categorising yields a category of the catalogue or none.
LEMMA CategorizeType ==
  ASSUME NEW r \in Rules, NEW c \in CategoryOrNone, NEW d \in Descriptions,
         NEW f \in CompanyOrNone
  PROVE  /\ Categorize(r, c, d, f) \in CategoryOrNone
         /\ WithCompanyDefault(c, f) \in CategoryOrNone
         /\ Learn(r, d, c) \in Rules
<1>1. AutoCategory(r, c, d) \in CategoryOrNone
  BY CategorizationAssumption DEF AutoCategory, Rules, CategoryOrNone
<1>2. \A x \in CategoryOrNone : WithCompanyDefault(x, f) \in CategoryOrNone
  BY CategorizationAssumption DEF WithCompanyDefault, CategoryOrNone, CompanyOrNone
<1>3. Learn(r, d, c) \in Rules
  BY CategorizationAssumption DEF Learn, Rules, CategoryOrNone
<1> QED
  BY <1>1, <1>2, <1>3 DEF Categorize

\* The row a single-record request writes is a record.
LEMMA PlainType ==
  ASSUME NEW f \in Fields, NEW c \in CategoryOrNone
  PROVE  /\ Plain(f, c) \in Record
         /\ Plain(f, c).state = "live" /\ Plain(f, c).group = 0
         /\ Plain(f, c).type = f.type /\ Plain(f, c).patrimony = f.patrimony
         /\ Plain(f, c).objective = f.objective
         /\ Plain(f, c).origin = None /\ Plain(f, c).destination = None
<1>1. 0 \in 0..MaxRecords
  BY Bounds
<1>2. ReviewStatus(c) \in {"pending", "categorized"}
  BY DEF ReviewStatus
<1> QED
  BY <1>1, <1>2 DEF Plain, Fields, Record, States, AccountOrNone

\* The effect of a record on a balance is an integer.
LEMMA CollectedType ==
  ASSUME NEW r \in Record, NEW e \in Entities
  PROVE  Collected(r, e) \in Int /\ Adjusted(r, e) \in Int
<1>1. r.amount \in Int
  BY Values DEF Record
<1> QED
  BY <1>1 DEF Collected, Adjusted, Movement, Contribution

\* What the movements explain of a balance is an integer.
LEMMA ExplainedType ==
  ASSUME TypeOK, NEW e \in Entities
  PROVE  Explained(e) \in Int
<1>1. [i \in Ids |-> Collected(record[i], e)] \in [Ids -> Int]
  BY CollectedType DEF TypeOK
<1>2. SumOver(Ids, [i \in Ids |-> Collected(record[i], e)]) \in Int
  BY <1>1, SumOverInt
<1> DEFINE P == [p \in Payments |-> Paid(payment[p], e)]
<1>3. P \in [1..MaxPayments -> Int] /\ MaxPayments \in Nat
  <2>1. payment \in [Payments -> Payment] /\ MaxPayments \in Nat
    BY Bounds DEF TypeOK
  <2>2. \A p \in Payments : payment[p].amount \in Int
    BY <2>1, Values DEF Payment
  <2> QED
    BY <2>1, <2>2 DEF Payments, Paid
<1>4. Total(MaxPayments, P) \in Int
  BY <1>3, TotalInt
<1> QED
  BY <1>2, <1>4 DEF Explained

\* The same of the balances after a step.
LEMMA ExplainedTypeNext ==
  ASSUME TypeOK', NEW e \in Entities
  PROVE  Explained(e)' \in Int
<1>1. [i \in Ids |-> Collected(record'[i], e)] \in [Ids -> Int]
  BY CollectedType DEF TypeOK
<1>2. SumOver(Ids, [i \in Ids |-> Collected(record'[i], e)]) \in Int
  BY <1>1, SumOverInt
<1> DEFINE P == [p \in Payments |-> Paid(payment'[p], e)]
<1>3. P \in [1..MaxPayments -> Int] /\ MaxPayments \in Nat
  <2>1. payment' \in [Payments -> Payment] /\ MaxPayments \in Nat
    BY Bounds DEF TypeOK
  <2>2. \A p \in Payments : payment'[p].amount \in Int
    BY <2>1, Values DEF Payment
  <2> QED
    BY <2>1, <2>2 DEF Payments, Paid
<1>4. Total(MaxPayments, P) \in Int
  BY <1>3, TotalInt
<1> QED
  BY <1>2, <1>4 DEF Explained

\* Settle keeps the types of the balances and of the completions.
LEMMA SettleType ==
  ASSUME TypeOK, NEW delta \in [Entities -> Int], NEW touched,
         Settle(delta, touched)
  PROVE  balance' \in [Entities -> Int] /\ completed' \in [Objectives -> BOOLEAN]
<1>1. /\ balance \in [Entities -> Int] /\ completed \in [Objectives -> BOOLEAN]
      /\ target \in [Objectives -> Int]
  BY DEF TypeOK
<1>2. \A e \in Entities : balance[e] + delta[e] \in Int
  BY <1>1
<1>3. balance' \in [Entities -> Int]
  BY <1>1, <1>2 DEF Settle
<1>4. \A o \in Objectives : (balance[o] + delta[o] >= target[o]) \in BOOLEAN
  BY <1>1
<1>5. completed' \in [Objectives -> BOOLEAN]
  BY <1>1, <1>4 DEF Settle
<1> QED
  BY <1>3, <1>5

\* Settling integer differences keeps balances and completions well typed.
LEMMA SettleNetType ==
  ASSUME TypeOK, NEW delta \in [Entities -> Int], SettleNet(delta)
  PROVE  balance' \in [Entities -> Int] /\ completed' \in [Objectives -> BOOLEAN]
BY SettleType DEF SettleNet

\* The row an update writes is a record.
LEMMA MergedType ==
  ASSUME TypeOK, NEW i \in Ids, NEW f \in Fields
  PROVE  /\ UpdatedCategory(i, f) \in CategoryOrNone
         /\ Merged(i, f) \in Record
         /\ Merged(i, f).state = record[i].state
         /\ Merged(i, f).group = record[i].group
         /\ Merged(i, f).type = f.type
         /\ Merged(i, f).patrimony = f.patrimony
         /\ Merged(i, f).objective = f.objective
         /\ Merged(i, f).origin = record[i].origin
         /\ Merged(i, f).destination = record[i].destination
<1>1. record[i] \in Record /\ rules \in Rules
  BY DEF TypeOK
<1>2. UpdatedCategory(i, f) \in CategoryOrNone
  BY <1>1 DEF UpdatedCategory, Given, Record, Fields
<1> DEFINE category == Categorize(rules, UpdatedCategory(i, f), f.description, f.company)
<1>3. category \in CategoryOrNone
  BY <1>1, <1>2, CategorizeType DEF Fields
<1>4. ReviewStatus(category) \in {"pending", "categorized"}
  BY DEF ReviewStatus
<1> HIDE DEF category
<1>5. Merged(i, f) =
        [record[i] EXCEPT
         !.type = f.type, !.amount = f.amount, !.objective = f.objective,
         !.patrimony = f.patrimony, !.description = f.description,
         !.category = category, !.status = ReviewStatus(category),
         !.company = f.company]
  BY DEF Merged, category
<1> QED
  BY <1>1, <1>2, <1>3, <1>4, <1>5 DEF Record, Fields

\* The row a clone writes is a record.
LEMMA ClonedType ==
  ASSUME TypeOK, NEW i \in Ids, NEW amount \in AmountOrNone,
         NEW description \in DescriptionOrNone, NEW category \in CategoryOrNone,
         NEW company \in CompanyOrNone
  PROVE  LET c == Cloned(i, amount, description, category, company)
         IN  /\ c \in Record
             /\ c.state = record[i].state /\ c.group = 0
             /\ c.type = record[i].type /\ c.patrimony = record[i].patrimony
             /\ c.objective = record[i].objective
             /\ c.origin = record[i].origin
             /\ c.destination = record[i].destination
<1> DEFINE text  == Given(description, record[i].description)
           firm  == Given(company, record[i].company)
           final == Categorize(rules, Given(category, record[i].category), text, firm)
<1>1. record[i] \in Record /\ rules \in Rules /\ 0 \in 0..MaxRecords
  BY Bounds DEF TypeOK
<1>2. text \in Descriptions /\ firm \in CompanyOrNone
  BY <1>1 DEF Given, Record, DescriptionOrNone
<1>3. Given(amount, record[i].amount) \in Amounts
  BY <1>1 DEF Given, Record, AmountOrNone
<1>4. Given(category, record[i].category) \in CategoryOrNone
  BY <1>1 DEF Given, Record
<1>5. final \in CategoryOrNone
  BY <1>1, <1>2, <1>4, CategorizeType
<1>6. ReviewStatus(final) \in {"pending", "categorized"}
  BY DEF ReviewStatus
<1>7. Cloned(i, amount, description, category, company) =
        [record[i] EXCEPT
         !.amount = Given(amount, @), !.description = text,
         !.category = final, !.status = ReviewStatus(final),
         !.company = firm, !.group = 0]
  BY DEF Cloned
<1> HIDE DEF text, firm, final
<1> QED
  BY <1>1, <1>2, <1>3, <1>5, <1>6, <1>7 DEF Record

\* A leg of a new transfer is a record.
LEMMA LegType ==
  ASSUME TypeOK, next + 1 <= MaxRecords, NEW amount \in Amounts,
         NEW goal \in ObjectiveOrNone, NEW description \in Descriptions,
         NEW company \in CompanyOrNone, NEW origin \in AccountOrNone,
         NEW destination \in AccountOrNone
  PROVE  Leg(amount, goal, description, company, origin, destination) \in Record
<1>1. next \in 0..MaxRecords /\ "transfer" \in Types
  BY Bounds, Values DEF TypeOK
<1> QED
  BY <1>1 DEF Leg, Record, States, PatrimonyOrNone, CategoryOrNone

\* A leg amended by PATCH /transfers/:id is a record.
LEMMA AmendedType ==
  ASSUME TypeOK, NEW j \in Ids, NEW amount \in AmountOrNone,
         NEW description \in DescriptionOrNone, NEW relink \in BOOLEAN,
         NEW goal \in ObjectiveOrNone
  PROVE  LET a == Amended(j, amount, description, relink, goal)
         IN  /\ a \in Record
             /\ a.state = record[j].state /\ a.group = record[j].group
             /\ a.type = record[j].type /\ a.patrimony = record[j].patrimony
             /\ a.origin = record[j].origin
             /\ a.destination = record[j].destination
             /\ a.objective \in {record[j].objective, goal}
<1>1. record[j] \in Record
  BY DEF TypeOK
<1>2. Given(amount, record[j].amount) \in Amounts
  BY <1>1 DEF Given, AmountOrNone, Record
<1>3. Given(description, record[j].description) \in Descriptions
  BY <1>1 DEF Given, DescriptionOrNone, Record
<1> QED
  BY <1>1, <1>2, <1>3 DEF Amended, Record

\* A batch is a sequence of requests.
LEMMA BatchType ==
  ASSUME NEW b \in Batches
  PROVE  /\ Len(b) \in Nat
         /\ \A k \in 1..Len(b) : b[k] \in Fields /\ b[k].type \in {"income", "expense"}
<1>1. PICK n \in 1..MaxBatch : b \in [1..n -> Fields]
  BY DEF Batches
<1>2. n \in Nat
  BY <1>1, Bounds
<1>3. b \in Seq(Fields) /\ Len(b) = n
  BY <1>1, <1>2, SeqDef, LenProperties
<1>4. \A k \in DOMAIN b : b[k].type \in {"income", "expense"}
  BY DEF Batches
<1> QED
  BY <1>1, <1>2, <1>3, <1>4


-----------------------------------------------------------------------------
(* Type correctness.                                                       *)

\* Every operation of the ledger keeps every column within its domain.
LEMMA TypeStep == TypeOK /\ [Next]_vars => TypeOK'
<1> SUFFICES ASSUME TypeOK, [Next]_vars PROVE TypeOK'
  OBVIOUS
<1> USE DEF TypeOK
<1>1. ASSUME NEW f \in Fields, Create(f) PROVE TypeOK'
  <2> DEFINE new == Plain(f, Categorize(rules, f.category, f.description, f.company))
             delta == [e \in Entities |-> Collected(new, e)]
  <2>1. new \in Record
    BY CategorizeType, PlainType DEF Fields
  <2>2. delta \in [Entities -> Int]
    BY <2>1, CollectedType
  <2>3. Learn(rules, f.description, f.category) \in Rules
    BY CategorizeType DEF Fields, CompanyOrNone
  <2>4. /\ record' = [record EXCEPT ![next] = new] /\ next' = next + 1
        /\ next <= MaxRecords /\ SettleNet(delta)
        /\ rules' = Learn(rules, f.description, f.category)
        /\ UNCHANGED <<status, target, payment, base>>
    BY <1>1 DEF Create
  <2>5. balance' \in [Entities -> Int] /\ completed' \in [Objectives -> BOOLEAN]
    BY <2>2, <2>4, SettleNetType
  <2>6. next' \in 1..(MaxRecords + 1)
    BY <2>4, Bounds
  <2> HIDE DEF new
  <2> QED
    BY <2>1, <2>3, <2>4, <2>5, <2>6
<1>2. ASSUME NEW i \in Ids, NEW f \in Fields, NEW similar \in BOOLEAN,
             Update(i, f, similar)
      PROVE  TypeOK'
  <2> DEFINE delta == [e \in Entities |->
                         Collected(Merged(i, f), e) - Collected(record[i], e)]
  <2>1. /\ Merged(i, f) \in Record /\ record[i] \in Record
        /\ UpdatedCategory(i, f) \in CategoryOrNone
    BY MergedType
  <2>2. delta \in [Entities -> Int]
    BY <2>1, CollectedType
  <2>3. Learn(rules, f.description, UpdatedCategory(i, f)) \in Rules
    BY <2>1, CategorizeType DEF Fields
  <2>4. \A j \in Ids : [record[j] EXCEPT !.category = UpdatedCategory(i, f),
                                         !.status = "categorized"] \in Record
    BY <2>1 DEF Record
  <2>5. /\ record' = [j \in Ids |->
             IF j = i THEN Merged(i, f)
             ELSE IF similar /\ j \in Similar(i, f)
             THEN [record[j] EXCEPT !.category = UpdatedCategory(i, f),
                                    !.status = "categorized"]
             ELSE record[j]]
        /\ SettleNet(delta)
        /\ rules' = Learn(rules, f.description, UpdatedCategory(i, f))
        /\ UNCHANGED <<status, target, next, payment, base>>
    BY <1>2 DEF Update
  <2>6. record' \in [Ids -> Record]
    BY <2>1, <2>4, <2>5
  <2>7. balance' \in [Entities -> Int] /\ completed' \in [Objectives -> BOOLEAN]
    BY <2>2, <2>5, SettleNetType
  <2> QED
    BY <2>3, <2>5, <2>6, <2>7
<1>3. ASSUME NEW i \in Ids, NEW amount \in AmountOrNone,
             NEW description \in DescriptionOrNone,
             NEW category \in CategoryOrNone, NEW company \in CompanyOrNone,
             Clone(i, amount, description, category, company)
      PROVE  TypeOK'
  <2> DEFINE new == Cloned(i, amount, description, category, company)
             delta == [e \in Entities |-> Collected(new, e)]
  <2>1. new \in Record
    BY ClonedType
  <2>2. delta \in [Entities -> Int]
    BY <2>1, CollectedType
  <2>3. /\ record' = [record EXCEPT ![next] = new] /\ next' = next + 1
        /\ next <= MaxRecords /\ SettleNet(delta)
        /\ UNCHANGED <<status, target, payment, rules, base>>
    BY <1>3 DEF Clone
  <2>4. balance' \in [Entities -> Int] /\ completed' \in [Objectives -> BOOLEAN]
    BY <2>2, <2>3, SettleNetType
  <2>5. next' \in 1..(MaxRecords + 1)
    BY <2>3, Bounds
  <2> HIDE DEF new
  <2> QED
    BY <2>1, <2>3, <2>4, <2>5
<1>4. ASSUME NEW i \in Ids, RemoveTransfer(i) PROVE TypeOK'
  <2> DEFINE delta == [e \in Entities |->
                         SumOver(Legs(i), [j \in Ids |-> -Adjusted(record[j], e)])]
  <2>1. Legs(i) \in SUBSET Ids
    BY DEF Legs
  <2>2. \A e \in Entities : [j \in Ids |-> -Adjusted(record[j], e)] \in [Ids -> Int]
    BY CollectedType
  <2>3. delta \in [Entities -> Int]
    BY <2>1, <2>2, SumOverInt
  <2>4. \A j \in Ids : Unread("deleted", record[j].group) \in Record
    BY UnreadType DEF Record, States
  <2>5. /\ record' = [j \in Ids |-> IF j \in Legs(i)
                        THEN Unread("deleted", record[j].group) ELSE record[j]]
        /\ Settle(delta, {record[j].objective : j \in Legs(i)})
        /\ UNCHANGED <<status, target, next, payment, rules, base>>
    BY <1>4 DEF RemoveTransfer
  <2>6. balance' \in [Entities -> Int] /\ completed' \in [Objectives -> BOOLEAN]
    BY <2>3, <2>5, SettleType
  <2> QED
    BY <2>4, <2>5, <2>6
<1>5. ASSUME NEW i \in Ids, Remove(i) PROVE TypeOK'
  <2>1. CASE record[i].group # 0
    BY <1>4, <1>5, <2>1 DEF Remove
  <2>2. CASE record[i].group = 0
    <3> DEFINE delta == [e \in Entities |-> -Collected(record[i], e)]
    <3>1. delta \in [Entities -> Int]
      BY CollectedType
    <3>2. Unread("deleted", 0) \in Record
      BY UnreadType, Bounds DEF States
    <3>3. /\ record' = [record EXCEPT ![i] = Unread("deleted", 0)]
          /\ SettleNet(delta)
          /\ UNCHANGED <<status, target, next, payment, rules, base>>
      BY <1>5, <2>2 DEF Remove
    <3>4. balance' \in [Entities -> Int] /\ completed' \in [Objectives -> BOOLEAN]
      BY <3>1, <3>3, SettleNetType
    <3> QED
      BY <3>2, <3>3, <3>4
  <2> QED
    BY <2>1, <2>2
<1>6. ASSUME NEW source \in Accounts, NEW dest \in Accounts,
             NEW amount \in Amounts, NEW goal \in ObjectiveOrNone,
             NEW description \in Descriptions, NEW company \in CompanyOrNone,
             CreateTransfer(source, dest, amount, goal, description, company)
      PROVE  TypeOK'
  <2> DEFINE origin  == Leg(amount, None, description, company, source, None)
             arrival == Leg(amount, goal, description, company, None, dest)
             delta   == [e \in Entities |-> Adjusted(origin, e) + Adjusted(arrival, e)]
  <2>1. /\ next + 1 <= MaxRecords
        /\ record' = [record EXCEPT ![next] = origin, ![next + 1] = arrival]
        /\ next' = next + 2
        /\ Settle(delta, {goal})
        /\ UNCHANGED <<status, target, payment, rules, base>>
    BY <1>6 DEF CreateTransfer
  <2>2. origin \in Record /\ arrival \in Record
    BY <2>1, LegType DEF ObjectiveOrNone, AccountOrNone
  <2>3. delta \in [Entities -> Int]
    BY <2>2, CollectedType
  <2>4. balance' \in [Entities -> Int] /\ completed' \in [Objectives -> BOOLEAN]
    BY <2>1, <2>3, SettleType
  <2>5. next' \in 1..(MaxRecords + 1)
    BY <2>1, Bounds
  <2> HIDE DEF origin, arrival
  <2> QED
    BY <2>1, <2>2, <2>4, <2>5
<1>7. ASSUME NEW i \in Ids, NEW amount \in AmountOrNone,
             NEW description \in DescriptionOrNone, NEW relink \in BOOLEAN,
             NEW goal \in ObjectiveOrNone,
             UpdateTransfer(i, amount, description, relink, goal)
      PROVE  TypeOK'
  <2> DEFINE new == [j \in Ids |-> Amended(j, amount, description, relink, goal)]
             delta == [e \in Entities |->
                         SumOver(Legs(i), [j \in Ids |->
                           Adjusted(new[j], e) - Adjusted(record[j], e)])]
             touched == {record[j].objective : j \in Legs(i)}
                          \cup {new[j].objective : j \in Legs(i)}
  <2>1. new \in [Ids -> Record] /\ Legs(i) \in SUBSET Ids
    BY AmendedType DEF Legs
  <2>2. /\ record' = [j \in Ids |-> IF j \in Legs(i) THEN new[j] ELSE record[j]]
        /\ Settle(delta, touched)
        /\ UNCHANGED <<status, target, next, payment, rules, base>>
    BY <1>7 DEF UpdateTransfer
  <2> HIDE DEF new, touched
  <2>3. \A e \in Entities : [j \in Ids |->
           Adjusted(new[j], e) - Adjusted(record[j], e)] \in [Ids -> Int]
    BY <2>1, CollectedType
  <2>4. delta \in [Entities -> Int]
    BY <2>1, <2>3, SumOverInt
  <2>5. balance' \in [Entities -> Int] /\ completed' \in [Objectives -> BOOLEAN]
    BY <2>2, <2>4, SettleType
  <2> QED
    BY <2>1, <2>2, <2>5
<1>8. ASSUME NEW ids \in SUBSET Ids, RemoveMany(ids) PROVE TypeOK'
  <2> DEFINE delta == [e \in Entities |->
                         SumOver(Doomed(ids), [i \in Ids |-> -Collected(record[i], e)])]
  <2>1. Doomed(ids) \in SUBSET Ids
    BY DEF Doomed
  <2>2. \A e \in Entities : [i \in Ids |-> -Collected(record[i], e)] \in [Ids -> Int]
    BY CollectedType
  <2>3. delta \in [Entities -> Int]
    BY <2>1, <2>2, SumOverInt
  <2>4. \A j \in Ids : Unread("deleted", record[j].group) \in Record
    BY UnreadType DEF Record, States
  <2>5. /\ record' = [i \in Ids |-> IF i \in Doomed(ids)
                        THEN Unread("deleted", record[i].group) ELSE record[i]]
        /\ SettleNet(delta)
        /\ UNCHANGED <<status, target, next, payment, rules, base>>
    BY <1>8 DEF RemoveMany
  <2>6. balance' \in [Entities -> Int] /\ completed' \in [Objectives -> BOOLEAN]
    BY <2>3, <2>5, SettleNetType
  <2> QED
    BY <2>4, <2>5, <2>6
<1>9. ASSUME NEW batch \in Batches, NEW assign \in BOOLEAN,
             CreateMany(batch, assign)
      PROVE  TypeOK'
  <2> DEFINE rows == next .. (next + Len(batch) - 1)
             new  == [i \in rows |-> Imported(batch[i - next + 1], assign)]
             delta == [e \in Entities |->
                         SumOver(rows, [i \in Ids |->
                           IF i \in rows THEN Collected(new[i], e) ELSE 0])]
  <2>1. /\ next + Len(batch) - 1 <= MaxRecords
        /\ record' = [i \in Ids |-> IF i \in rows THEN new[i] ELSE record[i]]
        /\ next' = next + Len(batch)
        /\ SettleNet(delta)
        /\ UNCHANGED <<status, target, payment, rules, base>>
    BY <1>9 DEF CreateMany
  <2>2. \A f \in Fields : Imported(f, assign) \in Record
    BY PlainType, CategorizeType DEF Imported, Fields
  <2>3. \A i \in rows : batch[i - next + 1] \in Fields
    BY BatchType, Bounds
  <2>4. new \in [rows -> Record] /\ rows \in SUBSET Ids
    BY <2>1, <2>2, <2>3, BatchType, Bounds DEF Ids
  <2>5. next' \in 1..(MaxRecords + 1)
    BY <2>1, BatchType, Bounds
  <2> HIDE DEF rows, new
  <2>6. \A e \in Entities : [i \in Ids |->
           IF i \in rows THEN Collected(new[i], e) ELSE 0] \in [Ids -> Int]
    BY <2>4, CollectedType
  <2>7. delta \in [Entities -> Int]
    BY <2>4, <2>6, SumOverInt
  <2>8. balance' \in [Entities -> Int] /\ completed' \in [Objectives -> BOOLEAN]
    BY <2>1, <2>7, SettleNetType
  <2> QED
    BY <2>1, <2>4, <2>5, <2>8
<1>10. ASSUME NEW o \in Objectives, NEW amount \in Amounts, CreatePayment(o, amount)
       PROVE  TypeOK'
  <2> DEFINE delta == [e \in Entities |-> IF e = o THEN amount ELSE 0]
  <2>1. delta \in [Entities -> Int]
    BY Values
  <2>2. PICK p \in Payments :
          payment' = [payment EXCEPT
            ![p] = [state |-> "live", objective |-> o, amount |-> amount]]
    BY <1>10 DEF CreatePayment
  <2>3. Settle(delta, {o}) /\ UNCHANGED <<status, target, record, next, rules, base>>
    BY <1>10 DEF CreatePayment
  <2>4. balance' \in [Entities -> Int] /\ completed' \in [Objectives -> BOOLEAN]
    BY <2>1, <2>3, SettleType
  <2>5. [state |-> "live", objective |-> o, amount |-> amount] \in Payment
    BY DEF Payment, States, ObjectiveOrNone
  <2> QED
    BY <2>2, <2>3, <2>4, <2>5
<1>11. ASSUME NEW p \in Payments, RemovePayment(p) PROVE TypeOK'
  <2> DEFINE delta == [e \in Entities |->
                         IF e = payment[p].objective THEN -payment[p].amount ELSE 0]
  <2>1. delta \in [Entities -> Int]
    BY Values DEF Payment
  <2>2. /\ payment' = [payment EXCEPT ![p] = NoPayment("deleted")]
        /\ Settle(delta, {payment[p].objective})
        /\ UNCHANGED <<status, target, record, next, rules, base>>
    BY <1>11 DEF RemovePayment
  <2>3. balance' \in [Entities -> Int] /\ completed' \in [Objectives -> BOOLEAN]
    BY <2>1, <2>2, SettleType
  <2>4. (CHOOSE a \in Amounts : TRUE) \in Amounts
    BY ZenonT(30), LedgerAssumption
  <2>5. NoPayment("deleted") \in Payment
    BY <2>4 DEF NoPayment, Payment, States, ObjectiveOrNone
  <2> QED
    BY <2>2, <2>3, <2>5
<1>12. ASSUME NEW e \in Entities, NEW amount \in Openings, NEW goal \in Targets,
              Open(e, amount, goal)
       PROVE  TypeOK'
  <2>1. amount \in Int /\ goal \in Int /\ "live" \in States
    BY Values DEF States
  <2>2. target' \in [Objectives -> Int] /\ completed' \in [Objectives -> BOOLEAN]
    <3>1. CASE e \in Objectives
      <4>1. /\ target' = [target EXCEPT ![e] = goal]
            /\ completed' = [completed EXCEPT ![e] = amount >= goal]
        BY <1>12, <3>1 DEF Open
      <4>2. (amount >= goal) \in BOOLEAN
        BY <2>1
      <4>3. target' \in [Objectives -> Int]
        BY <2>1, <4>1
      <4>4. completed' \in [Objectives -> BOOLEAN]
        BY <4>1, <4>2, Zenon
      <4> QED
        BY <4>3, <4>4
    <3>2. CASE e \notin Objectives
      BY <1>12, <3>2 DEF Open, goalVars
    <3> QED
      BY <3>1, <3>2
  <2> QED
    BY <1>12, <2>1, <2>2 DEF Open
<1>13. ASSUME NEW e \in Patrimony, NEW amount \in Overrides, SetBalance(e, amount)
       PROVE  TypeOK'
  <2>1. amount \in Int /\ Explained(e) \in Int /\ e \in Entities
    BY Values, ExplainedType DEF Entities
  <2> QED
    BY <1>13, <2>1 DEF SetBalance, goalVars
<1>14. ASSUME NEW o \in Objectives, NEW amount \in Overrides \cup {None},
              NEW goal \in Targets \cup {None}, NEW mark \in BOOLEAN \cup {None},
              UpdateObjective(o, amount, goal, mark)
       PROVE  TypeOK'
  <2>1. Explained(o) \in Int /\ o \in Entities
    BY ExplainedType DEF Entities
  <2>2. (amount # None => amount \in Int) /\ (goal # None => goal \in Int)
    BY Values
  <2>3. balance' \in [Entities -> Int] /\ target' \in [Objectives -> Int]
    BY <1>14, <2>1, <2>2 DEF UpdateObjective, Given
  <2>4. base' \in [Entities -> Int]
    BY <1>14, <2>1, <2>2 DEF UpdateObjective
  <2>5. (balance'[o] >= target'[o]) \in BOOLEAN /\ (mark # None => mark \in BOOLEAN)
    BY <2>1, <2>3
  <2>6. completed' \in [Objectives -> BOOLEAN]
    BY <1>14, <2>5 DEF UpdateObjective
  <2> QED
    BY <1>14, <2>3, <2>4, <2>6 DEF UpdateObjective
<1>15. ASSUME NEW e \in Entities, Close(e) PROVE TypeOK'
  <2>1. "deleted" \in States
    BY DEF States
  <2>2. completed' \in [Objectives -> BOOLEAN]
    BY <1>15 DEF Close
  <2>3. target' \in [Objectives -> Int]
    BY <1>15 DEF Close
  <2> QED
    BY <1>15, <2>1, <2>2, <2>3 DEF Close
<1>16. CASE UNCHANGED vars
  BY <1>16 DEF vars, goalVars
<1>17. CASE SingleStep
  BY <1>17, <1>1, <1>2, <1>3, <1>5 DEF SingleStep, PostTransaction, PatchTransaction, CloneTransaction,
         DeleteTransaction
<1>18. CASE TransferStep
  BY <1>18, <1>4, <1>6, <1>7 DEF TransferStep, PostTransfer, PatchTransfer, DeleteTransfer
<1>19. CASE BulkStep
  BY <1>19, <1>8, <1>9 DEF BulkStep, DeleteTransactions, ImportTransactions
<1>20. CASE PaymentStep
  BY <1>20, <1>10, <1>11 DEF PaymentStep, PostPayment, DeletePayment
<1>21. CASE EntityStep
  BY <1>21, <1>12, <1>13, <1>14, <1>15 DEF EntityStep, AccountStep, AssetStep, LiabilityStep, ObjectiveStep, Opens, Changes,
         Entities, Patrimony
<1> QED
  BY <1>16, <1>17, <1>18, <1>19, <1>20, <1>21 DEF Next

\* The empty database is well typed.
LEMMA TypeInit == Init => TypeOK
<1> SUFFICES ASSUME Init PROVE TypeOK
  OBVIOUS
<1>1. Unread("none", 0) \in Record
  BY UnreadType, Bounds DEF States
<1>2. (CHOOSE a \in Amounts : TRUE) \in Amounts
  BY ZenonT(30), LedgerAssumption
<1>3. NoPayment("none") \in Payment
  BY <1>2 DEF NoPayment, Payment, States, ObjectiveOrNone
<1>4. 1 \in 1..(MaxRecords + 1)
  BY Bounds
<1>5. NoRules \in Rules
  BY DEF NoRules, Rules, CategoryOrNone
<1> QED
  BY <1>1, <1>3, <1>4, <1>5 DEF Init, TypeOK, States

\* Every behaviour of the ledger is well typed.
THEOREM TypeCorrect == Spec => []TypeOK
BY TypeInit, TypeStep, PTL DEF Spec

-----------------------------------------------------------------------------
(* How one step changes what explains a balance.                           *)

\* An entity is of exactly one kind, which decides the sign of a contribution.
LEMMA Kinds ==
  /\ None \notin Entities
  /\ \A o \in Objectives : o \notin Accounts /\ o \notin Assets /\ o \notin Liabilities
BY ZenonT(30), LedgerAssumption

\* A step that rewrites the records of S explains the sum of their differences.
LEMMA RecordsExplain ==
  ASSUME TypeOK, TypeOK', payment' = payment, NEW e \in Entities,
         NEW S \in SUBSET Ids,
         \A i \in Ids \ S : Collected(record'[i], e) = Collected(record[i], e)
  PROVE  Explained(e)' = Explained(e)
           + SumOver(S, [i \in Ids |-> Collected(record'[i], e) - Collected(record[i], e)])
<1> DEFINE c == [i \in Ids |-> Collected(record[i], e)]
           d == [i \in Ids |-> Collected(record'[i], e)]
           P == Total(MaxPayments, [p \in Payments |-> Paid(payment[p], e)])
           diff == [i \in Ids |-> Collected(record'[i], e) - Collected(record[i], e)]
<1>1. c \in [Ids -> Int] /\ d \in [Ids -> Int] /\ diff \in [Ids -> Int]
  BY CollectedType DEF TypeOK
<1>2. \A i \in Ids \ S : d[i] = c[i]
  OBVIOUS
<1>3. diff = [i \in Ids |-> d[i] - c[i]]
  OBVIOUS
<1>4. Explained(e) = SumOver(Ids, c) + P /\ Explained(e)' = SumOver(Ids, d) + P
  BY DEF Explained
<1>5. Explained(e) \in Int
  BY ExplainedType
<1>6. P \in Int
  <2>1. \A p \in Payments : Paid(payment[p], e) \in Int
    <3>1. payment \in [Payments -> Payment]
      BY DEF TypeOK
    <3> QED
      BY <3>1, Values DEF Paid, Payment
  <2> QED
    BY <2>1, TotalInt, Bounds DEF Payments
<1> HIDE DEF c, d, P, diff
<1>7. SumOver(Ids, c) \in Int /\ SumOver(S, diff) \in Int
  BY <1>1, SumOverInt
<1>8. SumOver(Ids, d) = SumOver(Ids, c) + SumOver(S, diff)
  BY <1>1, <1>2, <1>3, SumOverChange
<1>9. Explained(e)' = Explained(e) + SumOver(S, diff)
  BY <1>4, <1>6, <1>7, <1>8
<1> QED
  BY <1>9 DEF diff

\* Changing one record changes what explains a balance by the difference of its
\* effects.
LEMMA OneRecordExplains ==
  ASSUME TypeOK, TypeOK', payment' = payment, NEW e \in Entities, NEW k \in Ids,
         \A i \in Ids \ {k} : Collected(record'[i], e) = Collected(record[i], e)
  PROVE  Explained(e)' = Explained(e)
           + (Collected(record'[k], e) - Collected(record[k], e))
<1> DEFINE diff == [i \in Ids |-> Collected(record'[i], e) - Collected(record[i], e)]
<1>1. diff \in [Ids -> Int]
  BY CollectedType DEF TypeOK
<1>2. diff[k] = Collected(record'[k], e) - Collected(record[k], e)
  OBVIOUS
<1>3. Explained(e)' = Explained(e) + SumOver({k}, diff)
  BY RecordsExplain
<1> HIDE DEF diff
<1> QED
  BY <1>1, <1>2, <1>3, SumOverSingle

\* Changing one payment changes what explains a balance by the difference of
\* its effects.
LEMMA OnePaymentExplains ==
  ASSUME TypeOK, TypeOK', record' = record, NEW e \in Entities, NEW k \in Payments,
         \A p \in Payments \ {k} : payment'[p] = payment[p]
  PROVE  Explained(e)' = Explained(e) + (Paid(payment'[k], e) - Paid(payment[k], e))
<1> DEFINE R == SumOver(Ids, [i \in Ids |-> Collected(record[i], e)])
           c == [p \in Payments |-> Paid(payment[p], e)]
           d == [p \in Payments |-> Paid(payment'[p], e)]
           diff == [p \in Payments |-> d[p] - c[p]]
<1>1. \A q \in Payment : Paid(q, e) \in Int
  BY Values DEF Paid, Payment
<1>2. /\ c \in [1..MaxPayments -> Int] /\ d \in [1..MaxPayments -> Int]
      /\ diff \in [1..MaxPayments -> Int]
  BY <1>1 DEF TypeOK, Payments
<1>3. /\ \A p \in 1..MaxPayments : d[p] = c[p] + diff[p]
      /\ \A p \in 1..MaxPayments \ {k} : diff[p] = 0
      /\ diff[k] = Paid(payment'[k], e) - Paid(payment[k], e)
  BY <1>2 DEF Payments
<1>4. k \in 1..MaxPayments /\ MaxPayments \in Nat
  BY Bounds DEF Payments
<1>5. /\ Explained(e) = R + Total(MaxPayments, c)
      /\ Explained(e)' = R + Total(MaxPayments, d)
  BY DEF Explained
<1>6. [i \in Ids |-> Collected(record[i], e)] \in [Ids -> Int]
  BY CollectedType DEF TypeOK
<1>7. R \in Int
  BY <1>6, SumOverInt
<1> HIDE DEF R, c, d, diff
<1>8. Total(MaxPayments, d) = Total(MaxPayments, c) + Total(MaxPayments, diff)
  BY <1>2, <1>3, <1>4, TotalSum
<1>9. Total(MaxPayments, diff) = diff[k]
  BY <1>2, <1>3, <1>4, TotalSingle
<1>10. Total(MaxPayments, c) \in Int /\ diff[k] \in Int
  BY <1>2, <1>4, TotalInt
<1> QED
  BY <1>3, <1>5, <1>7, <1>8, <1>9, <1>10

\* Posting to a balance what the step explains leaves its gap as it is.
LEMMA SettleKeepsGap ==
  ASSUME TypeOK, TypeOK', NEW delta \in [Entities -> Int], NEW touched,
         Settle(delta, touched), status' = status, base' = base,
         NEW e \in Entities, status[e] = "live", Explained(e)' = Explained(e) + delta[e]
  PROVE  Gap(e)' = Gap(e)
<1>1. balance'[e] = balance[e] + delta[e]
  BY DEF Settle
<1>2. balance[e] \in Int /\ base[e] \in Int /\ Explained(e) \in Int /\ delta[e] \in Int
  BY ExplainedType DEF TypeOK
<1>3. Gap(e)' = balance'[e] - base[e] - Explained(e)'
  BY DEF Gap
<1> QED
  BY <1>1, <1>2, <1>3 DEF Gap

\* What a /transfers operation posts or reverts for a record of the shape it
\* expects is what that record contributes.
LEMMA LegAdjusted ==
  ASSUME NEW r \in Record, NEW e \in Entities, r.state = "live",
         r.type = "transfer", r.patrimony = None
  PROVE  Adjusted(r, e) = Collected(r, e)
<1>1. r.amount \in Int /\ r.objective \in Objectives \cup {None}
  BY Values DEF Record, ObjectiveOrNone
<1>2. e # None
  BY Kinds
<1>3. e \in {r.objective, r.patrimony} <=> r.objective = e
  BY <1>2
<1>4. r.objective = e => Contribution(r, e) = r.amount
  BY <1>1, <1>2, Kinds DEF Contribution
<1>5. Movement(r, e) \in Int
  BY <1>1 DEF Movement
<1> QED
  BY <1>1, <1>3, <1>4, <1>5 DEF Adjusted, Collected

\* The records a /transfers operation acts on have that shape.
LEMMA LegsShape ==
  ASSUME TypeOK, LegsKeepShape, NEW i \in Ids, IsTransfer(i), NEW j \in Legs(i)
  PROVE  /\ j \in Ids /\ record[j].state = "live"
         /\ record[j].type = "transfer" /\ record[j].patrimony = None
<1>1. CASE record[i].group = 0
  BY <1>1 DEF Legs, IsTransfer, Live, LegsKeepShape, TransferShape
<1>2. CASE record[i].group # 0
  BY <1>2 DEF Legs, Live, LegsKeepShape, TransferShape
<1> QED
  BY <1>1, <1>2

\* So has every record they act on that is not bent.
LEMMA LegsUnbent ==
  ASSUME NEW i \in Ids, IsTransfer(i), NEW j \in Legs(i), ~ Bent(j)
  PROVE  /\ j \in Ids /\ record[j].state = "live"
         /\ record[j].type = "transfer" /\ record[j].patrimony = None
<1>1. CASE record[i].group = 0
  BY <1>1 DEF Legs, IsTransfer, Live, Bent, TransferShape
<1>2. CASE record[i].group # 0
  BY <1>2 DEF Legs, Live, Bent, TransferShape
<1> QED
  BY <1>1, <1>2

\* A record is worth nothing to an entity it does not name.
LEMMA UnlinkedLeg ==
  ASSUME NEW r, NEW e, e \notin Links(r)
  PROVE  Adjusted(r, e) = 0 /\ Collected(r, e) = 0
BY DEF Links, Adjusted, Collected, Movement

-----------------------------------------------------------------------------
(* The inductive invariant.                                                *)

\* Keys are drawn in order and a group is the key of one of its rows.
Fresh ==
  \A i \in Ids :
    /\ record[i].group < next
    /\ i >= next => record[i].state = "none" /\ record[i].group = 0

\* A live record or payment refers to rows that exist: foreign keys.
Rooted ==
  /\ \A i \in Ids : Live(i) =>
       /\ Exists(record[i].objective) /\ Exists(record[i].patrimony)
       /\ Exists(record[i].origin) /\ Exists(record[i].destination)
  /\ \A p \in Payments :
       payment[p].state = "live" => Exists(payment[p].objective)

IInv ==
  /\ TypeOK
  /\ Fresh
  /\ PairsTogether
  /\ Rooted
  /\ LegEdits # "any" => LegsKeepShape

\* The step changes a record that is no transfer any more and names e.
Opened(e) ==
  \E i \in Ids : /\ Bent(i) /\ record'[i] # record[i]
                 /\ e \in Links(record[i]) \cup Links(record'[i])

\* What a step may do to the gap of a balance: nothing, close it, or open it through
\* such a record.
Accounted(e) ==
  status'[e] = "live" =>
    \/ status[e] = "live" /\ Gap(e)' = Gap(e)
    \/ Gap(e)' = 0
    \/ Opened(e)

Steady == IInv' /\ \A e \in Entities : Accounted(e)

\* A step that posts to each balance what it explains, or changes a bent record.
LEMMA SettledSteady ==
  ASSUME TypeOK, TypeOK', NEW delta \in [Entities -> Int], NEW touched,
         Settle(delta, touched), status' = status, base' = base,
         \A e \in Entities : Explained(e)' = Explained(e) + delta[e] \/ Opened(e)
  PROVE  \A e \in Entities : Accounted(e)
<1> SUFFICES ASSUME NEW e \in Entities, status[e] = "live", ~ Opened(e)
             PROVE  Gap(e)' = Gap(e)
  BY DEF Accounted
<1>1. Explained(e)' = Explained(e) + delta[e]
  OBVIOUS
<1> QED
  BY <1>1, SettleKeepsGap

\* Nothing on file explains a balance of an entity that was never created.
LEMMA UnlinkedExplainsNothing ==
  ASSUME TypeOK, Rooted, NEW e \in Entities, status[e] = "none"
  PROVE  Explained(e) = 0
<1> DEFINE c == [i \in Ids |-> IF i \in Ids THEN [j \in Ids |-> Collected(record[j], e)][i] ELSE 0]
           d == [p \in Payments |-> Paid(payment[p], e)]
<1>1. e # None
  BY Kinds
<1>2. ASSUME NEW i \in Ids PROVE Collected(record[i], e) = 0
  <2>1. CASE record[i].state # "live"
    BY <2>1 DEF Collected
  <2>2. CASE record[i].state = "live"
    <3>1. /\ Exists(record[i].objective) /\ Exists(record[i].patrimony)
          /\ Exists(record[i].origin) /\ Exists(record[i].destination)
      BY <2>2 DEF Rooted, Live
    <3>2. /\ record[i].objective # e /\ record[i].patrimony # e
          /\ record[i].origin # e /\ record[i].destination # e
      BY <3>1, <1>1 DEF Exists
    <3> QED
      BY <3>2 DEF Collected, Movement
  <2> QED
    BY <2>1, <2>2
<1>3. ASSUME NEW p \in Payments PROVE Paid(payment[p], e) = 0
  BY <1>1 DEF Rooted, Exists, Paid
<1>4. Total(MaxRecords, c) = 0
  <2>1. c \in [1..MaxRecords -> Int] /\ \A i \in 1..MaxRecords : c[i] = 0
    BY <1>2 DEF Ids
  <2> HIDE DEF c
  <2> QED
    BY <2>1, TotalZero, Bounds
<1>5. Total(MaxPayments, d) = 0
  <2>1. d \in [1..MaxPayments -> Int] /\ \A i \in 1..MaxPayments : d[i] = 0
    BY <1>3 DEF Payments
  <2> HIDE DEF d
  <2> QED
    BY <2>1, TotalZero, Bounds
<1> QED
  BY <1>4, <1>5 DEF Explained, SumOver

\* A step that leaves status alone leaves foreign keys satisfied.
LEMMA ExistsStays ==
  ASSUME status' = status, NEW e, Exists(e)
  PROVE  Exists(e)'
BY DEF Exists

\* A record written under the next key, and nothing else, keeps the invariant.
LEMMA NewRecordStep ==
  ASSUME IInv, TypeOK', NEW new \in Record,
         next <= MaxRecords,
         record' = [record EXCEPT ![next] = new], next' = next + 1,
         new.state = "live", new.group = 0,
         Exists(new.objective), Exists(new.patrimony),
         Exists(new.origin), Exists(new.destination),
         LegEdits # "any" => TransferShape(0, new),
         SettleNet([e \in Entities |-> Collected(new, e)]),
         UNCHANGED <<status, payment, base>>
  PROVE  Steady
<1>1. /\ record \in [Ids -> Record] /\ next \in Ids /\ TypeOK
      /\ record'[next] = new /\ \A i \in Ids \ {next} : record'[i] = record[i]
  BY Bounds DEF IInv, TypeOK, Ids
<1>2. Fresh'
  <2>1. next \in Nat /\ \A i \in Ids : i \in Nat /\ record[i].group \in Nat
    BY <1>1, Bounds DEF Record, Ids
  <2>2. Fresh
    BY DEF IInv
  <2>3. ASSUME NEW i \in Ids
        PROVE  /\ record'[i].group < next'
               /\ i >= next' => record'[i].state = "none" /\ record'[i].group = 0
    <3>1. CASE i = next
      BY <1>1, <2>1, <3>1
    <3>2. CASE i # next
      BY <1>1, <2>1, <2>2, <3>2 DEF Fresh
    <3> QED
      BY <3>1, <3>2
  <2> QED
    BY <2>3 DEF Fresh
<1>3. PairsTogether'
  BY <1>1 DEF IInv, PairsTogether
<1>4. Rooted'
  BY <1>1, ExistsStays DEF IInv, Rooted, Live
<1>5. ASSUME LegEdits # "any" PROVE LegsKeepShape'
  BY <1>1, <1>5 DEF IInv, LegsKeepShape, Live
<1>6. \A e \in Entities : Accounted(e)
  <2> DEFINE delta == [e \in Entities |-> Collected(new, e)]
  <2>1. delta \in [Entities -> Int]
    BY CollectedType
  <2>2. ASSUME NEW e \in Entities PROVE Explained(e)' = Explained(e) + delta[e]
    <3>1. Collected(record[next], e) = 0
      <4>1. next >= next
        BY <1>1 DEF Ids
      <4>2. record[next].state = "none"
        BY <1>1, <4>1 DEF IInv, Fresh
      <4> QED
        BY <4>2 DEF Collected
    <3>2. Explained(e)' = Explained(e)
            + (Collected(record'[next], e) - Collected(record[next], e))
      BY <1>1, OneRecordExplains
    <3>3. Collected(new, e) \in Int
      BY CollectedType
    <3> QED
      BY <1>1, <3>1, <3>2, <3>3
  <2> HIDE DEF delta
  <2>3. Settle(delta, {o \in Objectives : delta[o] # 0})
    BY DEF SettleNet, delta
  <2> QED
    BY <1>1, <2>1, <2>2, <2>3, SettledSteady
<1> QED
  BY <1>2, <1>3, <1>4, <1>5, <1>6 DEF IInv, Steady

\* Deleting a set of live records that contains every live member of each group
\* it meets, and posting what they contributed, keeps the invariant.
LEMMA DeletionStep ==
  ASSUME IInv, TypeOK', NEW S \in SUBSET Ids, NEW touched,
         NEW delta \in [Entities -> Int],
         \A i \in S : record[i].state = "live",
         \A i \in S, j \in Ids :
           record[i].group # 0 /\ record[j].group = record[i].group => j \in S,
         record' = [i \in Ids |-> IF i \in S THEN Unread("deleted", record[i].group)
                                  ELSE record[i]],
         Settle(delta, touched),
         \A e \in Entities :
           delta[e] = SumOver(S, [i \in Ids |-> -Collected(record[i], e)]) \/ Opened(e),
         UNCHANGED <<status, next, payment, base>>
  PROVE  Steady
<1>1. /\ record \in [Ids -> Record] /\ TypeOK
      /\ \A i \in S : record'[i] = Unread("deleted", record[i].group)
      /\ \A i \in Ids \ S : record'[i] = record[i]
  BY DEF IInv, TypeOK
<1>2. \A i \in S : record'[i].state = "deleted" /\ record'[i].group = record[i].group
  BY <1>1, UnreadType DEF Record, States
<1>3. Fresh'
  BY <1>1, <1>2 DEF IInv, Fresh
<1>4. PairsTogether'
  <2>1. PairsTogether
    BY DEF IInv
  <2>2. \A i \in Ids : record'[i].group = record[i].group
    BY <1>1, <1>2
  <2>3. ASSUME NEW i \in Ids, NEW j \in Ids,
               record[i].group # 0, record[i].group = record[j].group
        PROVE  record'[i].state = record'[j].state
    <3>1. i \in S <=> j \in S
      BY <2>3
    <3> QED
      BY <1>1, <1>2, <2>1, <2>3, <3>1 DEF PairsTogether
  <2> QED
    BY <2>2, <2>3 DEF PairsTogether
<1>5. Rooted'
  BY <1>1, <1>2, ExistsStays DEF IInv, Rooted, Live
<1>6. ASSUME LegEdits # "any" PROVE LegsKeepShape'
  BY <1>1, <1>2, <1>6 DEF IInv, LegsKeepShape, Live
<1>7. \A e \in Entities : Accounted(e)
  <2>1. ASSUME NEW e \in Entities, ~ Opened(e) PROVE Explained(e)' = Explained(e) + delta[e]
    <3> DEFINE lost == [i \in Ids |-> -Collected(record[i], e)]
               diff == [i \in Ids |-> Collected(record'[i], e) - Collected(record[i], e)]
    <3>1. Explained(e)' = Explained(e) + SumOver(S, diff)
      BY <1>1, RecordsExplain
    <3>2. lost \in [Ids -> Int] /\ diff \in [Ids -> Int]
      BY CollectedType DEF TypeOK, IInv
    <3>3. \A i \in S : Collected(record'[i], e) = 0
      BY <1>2 DEF Collected
    <3>4. ASSUME NEW i \in S PROVE lost[i] = diff[i]
      <4>1. /\ lost[i] = -Collected(record[i], e)
            /\ diff[i] = Collected(record'[i], e) - Collected(record[i], e)
        OBVIOUS
      <4>2. Collected(record[i], e) \in Int /\ Collected(record'[i], e) = 0
        BY <1>1, <3>3, CollectedType
      <4> HIDE DEF lost, diff
      <4> QED
        BY <4>1, <4>2
    <3>5. SumOver(S, diff) = SumOver(S, lost)
      <4> HIDE DEF lost, diff
      <4> QED
        BY <3>2, <3>4, SumOverSame
    <3> QED
      BY <2>1, <3>1, <3>5
  <2> QED
    BY <1>1, <2>1, SettledSteady
<1> QED
  BY <1>3, <1>4, <1>5, <1>6, <1>7 DEF IInv, Steady

\* A step that leaves the records, the links and the payments alone and posts
\* nothing keeps all but the balances.
LEMMA EntityStepKeeps ==
  ASSUME IInv, TypeOK', UNCHANGED <<record, next, payment>>,
         \A e \in Entities : status[e] # "none" => status'[e] # "none"
  PROVE  /\ Fresh' /\ PairsTogether' /\ Rooted'
         /\ LegEdits # "any" => LegsKeepShape'
         /\ \A e \in Entities : Explained(e)' = Explained(e)
<1>1. Fresh' /\ PairsTogether'
  BY DEF IInv, Fresh, PairsTogether
<1>2. Rooted'
  BY DEF IInv, Rooted, Exists, Live
<1>3. LegEdits # "any" => LegsKeepShape'
  BY DEF IInv, LegsKeepShape, Live
<1>4. \A e \in Entities : Explained(e)' = Explained(e)
  BY DEF Explained
<1> QED
  BY <1>1, <1>2, <1>3, <1>4

\* A step that rewrites the records of S in place, keeping their state, group
\* and accounts, and posts the sum of the differences, keeps the invariant.
LEMMA RewriteStep ==
  ASSUME IInv, TypeOK', NEW S \in SUBSET Ids, NEW touched,
         NEW delta \in [Entities -> Int],
         \A i \in Ids :
           /\ record'[i].state = record[i].state
           /\ record'[i].group = record[i].group
           /\ record'[i].origin = record[i].origin
           /\ record'[i].destination = record[i].destination,
         \A i \in Ids : Live(i) => LinksExist(record'[i]),
         LegEdits # "any" =>
           \A i \in Ids : Live(i) => TransferShape(record[i].group, record'[i]),
         \A i \in Ids \ S, e \in Entities :
           Collected(record'[i], e) = Collected(record[i], e),
         Settle(delta, touched),
         \A e \in Entities :
           \/ delta[e] = SumOver(S, [i \in Ids |->
                           Collected(record'[i], e) - Collected(record[i], e)])
           \/ Opened(e),
         UNCHANGED <<status, next, payment, base>>
  PROVE  Steady
<1>1. TypeOK /\ Fresh /\ PairsTogether /\ Rooted
  BY DEF IInv
<1>2. Fresh' /\ PairsTogether'
  BY <1>1 DEF Fresh, PairsTogether
<1>3. Rooted'
  BY <1>1, ExistsStays DEF Rooted, Live, LinksExist
<1>4. ASSUME LegEdits # "any" PROVE LegsKeepShape'
  BY <1>4 DEF LegsKeepShape, Live
<1>5. \A e \in Entities : Accounted(e)
  <2>1. ASSUME NEW e \in Entities, ~ Opened(e) PROVE Explained(e)' = Explained(e) + delta[e]
    BY <1>1, <2>1, RecordsExplain
  <2> QED
    BY <1>1, <2>1, SettledSteady
<1> QED
  BY <1>2, <1>3, <1>4, <1>5 DEF IInv, Steady

\* Update: the record and, through apply_to_similar, the category of others.
LEMMA UpdateStep ==
  ASSUME IInv, TypeOK', NEW i \in Ids, NEW f \in Fields, NEW similar \in BOOLEAN,
         Update(i, f, similar)
  PROVE  Steady
<1> DEFINE delta == [e \in Entities |->
                       Collected(Merged(i, f), e) - Collected(record[i], e)]
           other(j) == [record[j] EXCEPT !.category = UpdatedCategory(i, f),
                                         !.status = "categorized"]
<1>1. TypeOK /\ record \in [Ids -> Record]
  BY DEF IInv, TypeOK
<1>2. /\ Live(i) /\ LinksExist(f) /\ Allowed(record[i].group, f)
      /\ record' = [j \in Ids |-> IF j = i THEN Merged(i, f)
                                  ELSE IF similar /\ j \in Similar(i, f)
                                  THEN other(j) ELSE record[j]]
      /\ SettleNet(delta)
      /\ UNCHANGED <<status, next, payment, base>>
  BY DEF Update
<1>3. /\ record'[i] = Merged(i, f)
      /\ \A j \in Ids \ {i} : record'[j] = other(j) \/ record'[j] = record[j]
  BY <1>2
<1>4. ASSUME NEW j \in Ids
      PROVE  /\ other(j).state = record[j].state /\ other(j).group = record[j].group
             /\ other(j).origin = record[j].origin
             /\ other(j).destination = record[j].destination
             /\ other(j).type = record[j].type /\ other(j).amount = record[j].amount
             /\ other(j).objective = record[j].objective
             /\ other(j).patrimony = record[j].patrimony
  BY <1>1 DEF Record
<1> HIDE DEF other
<1>5. ASSUME NEW j \in Ids \ {i}
      PROVE  /\ record'[j].state = record[j].state /\ record'[j].group = record[j].group
             /\ record'[j].origin = record[j].origin
             /\ record'[j].destination = record[j].destination
             /\ record'[j].type = record[j].type
             /\ record'[j].amount = record[j].amount
             /\ record'[j].objective = record[j].objective
             /\ record'[j].patrimony = record[j].patrimony
  BY <1>3, <1>4
<1>6. /\ record'[i].state = record[i].state /\ record'[i].group = record[i].group
      /\ record'[i].origin = record[i].origin
      /\ record'[i].destination = record[i].destination
      /\ record'[i].type = f.type /\ record'[i].patrimony = f.patrimony
      /\ record'[i].objective = f.objective
  BY <1>1, <1>3, MergedType
<1>7. \A j \in Ids \ {i}, e \in Entities :
        Collected(record'[j], e) = Collected(record[j], e)
  BY <1>5 DEF Collected, Movement, Contribution
<1>8. \A j \in Ids : Live(j) => LinksExist(record'[j])
  <2>1. \A j \in Ids \ {i} : Live(j) => LinksExist(record'[j])
    BY <1>5 DEF IInv, Rooted, LinksExist
  <2>2. LinksExist(record'[i])
    BY <1>2, <1>6 DEF LinksExist
  <2> QED
    BY <2>1, <2>2
<1>9. ASSUME LegEdits # "any"
      PROVE  \A j \in Ids : Live(j) => TransferShape(record[j].group, record'[j])
  <2>1. \A j \in Ids \ {i} : Live(j) => TransferShape(record[j].group, record'[j])
    BY <1>5, <1>9 DEF IInv, LegsKeepShape, TransferShape
  <2>2. TransferShape(record[i].group, record'[i])
    BY <1>2, <1>6, <1>9 DEF Allowed, TransferShape
  <2> QED
    BY <2>1, <2>2
<1>10. delta \in [Entities -> Int]
  BY <1>1, CollectedType, MergedType
<1>11. ASSUME NEW e \in Entities
       PROVE  delta[e] = SumOver({i}, [j \in Ids |->
                           Collected(record'[j], e) - Collected(record[j], e)])
  <2> DEFINE diff == [j \in Ids |-> Collected(record'[j], e) - Collected(record[j], e)]
  <2>1. diff \in [Ids -> Int]
    BY <1>1, CollectedType DEF TypeOK
  <2>2. diff[i] = delta[e]
    BY <1>3
  <2> HIDE DEF diff, delta
  <2>3. SumOver({i}, diff) = diff[i]
    BY <2>1, SumOverSingle
  <2> QED
    BY <2>2, <2>3 DEF diff
<1>12. Settle(delta, {o \in Objectives : delta[o] # 0})
  BY <1>2 DEF SettleNet
<1> HIDE DEF delta
<1>13. \A e \in Entities :
         \/ delta[e] = SumOver({i}, [j \in Ids |->
                         Collected(record'[j], e) - Collected(record[j], e)])
         \/ Opened(e)
  BY <1>11
<1>14. \A j \in Ids :
         /\ record'[j].state = record[j].state /\ record'[j].group = record[j].group
         /\ record'[j].origin = record[j].origin
         /\ record'[j].destination = record[j].destination
  BY <1>5, <1>6
<1> QED
  BY <1>2, <1>7, <1>8, <1>9, <1>10, <1>12, <1>13, <1>14, RewriteStep

\* UpdateTransfer: both legs are reverted and posted again.
LEMMA UpdateTransferStep ==
  ASSUME IInv, TypeOK', NEW i \in Ids, NEW amount \in AmountOrNone,
         NEW description \in DescriptionOrNone, NEW relink \in BOOLEAN,
         NEW goal \in ObjectiveOrNone,
         UpdateTransfer(i, amount, description, relink, goal)
  PROVE  Steady
<1> DEFINE new == [j \in Ids |-> Amended(j, amount, description, relink, goal)]
           delta == [e \in Entities |->
                       SumOver(Legs(i), [j \in Ids |->
                         Adjusted(new[j], e) - Adjusted(record[j], e)])]
           touched == {record[j].objective : j \in Legs(i)}
                        \cup {new[j].objective : j \in Legs(i)}
<1>1. /\ IsTransfer(i) /\ Exists(goal)
      /\ record' = [j \in Ids |-> IF j \in Legs(i) THEN new[j] ELSE record[j]]
      /\ Settle(delta, touched)
      /\ UNCHANGED <<status, next, payment, base>>
  BY DEF UpdateTransfer
<1>2. /\ TypeOK /\ record \in [Ids -> Record] /\ new \in [Ids -> Record]
      /\ Legs(i) \in SUBSET Ids
  BY AmendedType DEF IInv, TypeOK, Legs
<1>3. \A j \in Ids :
        /\ new[j].state = record[j].state /\ new[j].group = record[j].group
        /\ new[j].origin = record[j].origin
        /\ new[j].destination = record[j].destination
        /\ new[j].type = record[j].type /\ new[j].patrimony = record[j].patrimony
        /\ new[j].objective \in {record[j].objective, goal}
  BY <1>2, AmendedType
<1> HIDE DEF new, touched
<1>4. \A j \in Ids : record'[j] = IF j \in Legs(i) THEN new[j] ELSE record[j]
  BY <1>1
<1>5. \A j \in Ids :
        /\ record'[j].state = record[j].state /\ record'[j].group = record[j].group
        /\ record'[j].origin = record[j].origin
        /\ record'[j].destination = record[j].destination
  BY <1>3, <1>4
<1>6. \A j \in Ids : Live(j) => LinksExist(record'[j])
  BY <1>1, <1>3, <1>4 DEF IInv, Rooted, LinksExist
<1>7. ASSUME LegEdits # "any"
      PROVE  \A j \in Ids : Live(j) => TransferShape(record[j].group, record'[j])
  BY <1>3, <1>4, <1>7 DEF IInv, LegsKeepShape, TransferShape
<1>8. \A j \in Ids \ Legs(i), e \in Entities :
        Collected(record'[j], e) = Collected(record[j], e)
  BY <1>4
<1>9. \A e \in Entities :
        [j \in Ids |-> Adjusted(new[j], e) - Adjusted(record[j], e)] \in [Ids -> Int]
  BY <1>2, CollectedType
<1>10. delta \in [Entities -> Int]
  BY <1>2, <1>9, SumOverInt
<1>11. ASSUME NEW e \in Entities, ~ Opened(e)
       PROVE  delta[e] = SumOver(Legs(i), [j \in Ids |->
                           Collected(record'[j], e) - Collected(record[j], e)])
  <2> DEFINE posted == [j \in Ids |-> Adjusted(new[j], e) - Adjusted(record[j], e)]
             diff == [j \in Ids |-> Collected(record'[j], e) - Collected(record[j], e)]
  <2>1. /\ posted \in [Ids -> Int] /\ diff \in [Ids -> Int]
        /\ delta[e] = SumOver(Legs(i), posted)
    <3>1. diff \in [Ids -> Int]
      BY <1>2, CollectedType DEF TypeOK
    <3> QED
      BY <1>9, <3>1
  <2>2. ASSUME NEW j \in Legs(i) PROVE posted[j] = diff[j]
    <3>1. record[j].state = "live" /\ j \in Ids /\ record'[j] = new[j]
      BY <1>1, <1>2, <1>4 DEF Legs, IsTransfer, Live
    <3>2. CASE ~ Bent(j)
      <4>1. Adjusted(record[j], e) = Collected(record[j], e)
        BY <1>1, <1>2, <3>1, <3>2, LegAdjusted, LegsUnbent
      <4>2. Adjusted(new[j], e) = Collected(new[j], e)
        BY <1>1, <1>2, <1>3, <3>1, <3>2, LegAdjusted, LegsUnbent
      <4> QED
        BY <1>2, <3>1, <4>1, <4>2
    <3>3. CASE Bent(j) /\ record'[j] = record[j]
      <4>1. Adjusted(new[j], e) = Adjusted(record[j], e) /\ Adjusted(record[j], e) \in Int
        BY <1>2, <3>1, <3>3, CollectedType
      <4>2. Collected(record'[j], e) = Collected(record[j], e) /\ Collected(record[j], e) \in Int
        BY <1>2, <3>1, <3>3, CollectedType
      <4> QED
        BY <3>1, <4>1, <4>2
    <3>4. CASE Bent(j) /\ e \notin Links(record[j]) \cup Links(record'[j])
      <4>1. Adjusted(record[j], e) = 0 /\ Collected(record[j], e) = 0
        BY <3>4, UnlinkedLeg
      <4>2. Adjusted(new[j], e) = 0 /\ Collected(new[j], e) = 0
        BY <3>1, <3>4, UnlinkedLeg
      <4> QED
        BY <1>2, <3>1, <4>1, <4>2
    <3> QED
      BY <1>11, <3>1, <3>2, <3>3, <3>4 DEF Opened
  <2> HIDE DEF posted, diff, delta
  <2> QED
    BY <1>2, <2>1, <2>2, SumOverSame DEF diff
<1> HIDE DEF delta
<1> QED
  BY <1>1, <1>2, <1>5, <1>6, <1>7, <1>8, <1>10, <1>11, RewriteStep

\* RemoveTransfer: every leg is deleted and its posting reverted.
LEMMA RemoveTransferStep ==
  ASSUME IInv, TypeOK', NEW i \in Ids, RemoveTransfer(i)
  PROVE  Steady
<1> DEFINE delta == [e \in Entities |->
                       SumOver(Legs(i), [j \in Ids |-> -Adjusted(record[j], e)])]
           touched == {record[j].objective : j \in Legs(i)}
<1>1. /\ IsTransfer(i)
      /\ record' = [j \in Ids |-> IF j \in Legs(i)
                      THEN Unread("deleted", record[j].group) ELSE record[j]]
      /\ Settle(delta, touched)
      /\ UNCHANGED <<status, next, payment, base>>
  BY DEF RemoveTransfer
<1>2. TypeOK /\ record \in [Ids -> Record] /\ Legs(i) \in SUBSET Ids
  BY DEF IInv, TypeOK, Legs
<1>3. \A j \in Legs(i) : record[j].state = "live"
  BY <1>1 DEF Legs, IsTransfer, Live
<1>4. \A j \in Legs(i), k \in Ids :
        record[j].group # 0 /\ record[k].group = record[j].group => k \in Legs(i)
  <2> SUFFICES ASSUME NEW j \in Legs(i), NEW k \in Ids,
                      record[j].group # 0, record[k].group = record[j].group
               PROVE  k \in Legs(i)
    OBVIOUS
  <2>1. record[k].state = "live"
    BY <1>2, <1>3 DEF IInv, PairsTogether
  <2>2. record[j].group = record[i].group /\ record[i].group # 0
    BY DEF Legs
  <2> QED
    BY <2>1, <2>2 DEF Legs, Live
<1>5. \A e \in Entities : [j \in Ids |-> -Adjusted(record[j], e)] \in [Ids -> Int]
  BY <1>2, CollectedType
<1>6. delta \in [Entities -> Int]
  BY <1>2, <1>5, SumOverInt
<1>7. ASSUME NEW e \in Entities, ~ Opened(e)
      PROVE  delta[e] = SumOver(Legs(i), [j \in Ids |-> -Collected(record[j], e)])
  <2> DEFINE posted == [j \in Ids |-> -Adjusted(record[j], e)]
             lost == [j \in Ids |-> -Collected(record[j], e)]
  <2>1. posted \in [Ids -> Int] /\ lost \in [Ids -> Int] /\ delta[e] = SumOver(Legs(i), posted)
    BY <1>2, <1>5, CollectedType
  <2>2. ASSUME NEW j \in Legs(i) PROVE posted[j] = lost[j]
    <3>1. /\ record[j].state = "live" /\ j \in Ids
          /\ record'[j] = Unread("deleted", record[j].group)
      BY <1>1, <1>2, <1>3
    <3>2. record'[j] # record[j]
      BY <1>2, <3>1, UnreadType DEF Record, States
    <3>3. CASE ~ Bent(j)
      BY <1>1, <1>2, <3>1, <3>3, LegAdjusted, LegsUnbent
    <3>4. CASE e \notin Links(record[j])
      BY <1>2, <3>4, UnlinkedLeg
    <3> QED
      BY <1>7, <3>1, <3>2, <3>3, <3>4 DEF Opened
  <2> HIDE DEF posted, lost, delta
  <2> QED
    BY <1>2, <2>1, <2>2, SumOverSame DEF lost
<1> HIDE DEF delta, touched
<1> QED
  BY <1>1, <1>2, <1>3, <1>4, <1>6, <1>7, DeletionStep

\* RemoveMany: the doomed records are deleted and what they contributed is taken
\* back in one aggregate posting.
LEMMA RemoveManyStep ==
  ASSUME IInv, TypeOK', NEW ids \in SUBSET Ids, RemoveMany(ids)
  PROVE  Steady
<1> DEFINE delta == [e \in Entities |->
                       SumOver(Doomed(ids), [i \in Ids |-> -Collected(record[i], e)])]
<1>1. /\ record' = [i \in Ids |-> IF i \in Doomed(ids)
                      THEN Unread("deleted", record[i].group) ELSE record[i]]
      /\ SettleNet(delta)
      /\ UNCHANGED <<status, next, payment, base>>
  BY DEF RemoveMany
<1>2. TypeOK /\ record \in [Ids -> Record] /\ Doomed(ids) \in SUBSET Ids
  BY DEF IInv, TypeOK, Doomed
<1>3. \A i \in Doomed(ids) : record[i].state = "live"
  BY DEF Doomed, Live
<1>4. \A i \in Doomed(ids), j \in Ids :
        record[i].group # 0 /\ record[j].group = record[i].group => j \in Doomed(ids)
  <2> SUFFICES ASSUME NEW i \in Doomed(ids), NEW j \in Ids,
                      record[i].group # 0, record[j].group = record[i].group
               PROVE  j \in Doomed(ids)
    OBVIOUS
  <2>1. record[j].state = "live"
    BY <1>2, <1>3 DEF IInv, PairsTogether
  <2> DEFINE chosen == {k \in ids : Live(k)}
             groups == {record[k].group : k \in chosen} \ {0}
  <2>2. CASE groups = {}
    <3>1. i \in chosen
      BY <2>2 DEF Doomed
    <3> QED
      BY <2>2, <3>1
  <2>3. CASE groups # {}
    <3>1. Doomed(ids) = {k \in Ids : Live(k) /\ record[k].group \in groups}
      BY <2>3 DEF Doomed
    <3> QED
      BY <2>1, <3>1 DEF Live
  <2> QED
    BY <2>2, <2>3
<1>5. \A e \in Entities : [i \in Ids |-> -Collected(record[i], e)] \in [Ids -> Int]
  BY <1>2, CollectedType
<1>6. delta \in [Entities -> Int]
  BY <1>2, <1>5, SumOverInt
<1>7. \A e \in Entities :
        delta[e] = SumOver(Doomed(ids), [i \in Ids |-> -Collected(record[i], e)])
  OBVIOUS
<1>8. Settle(delta, {o \in Objectives : delta[o] # 0})
  BY <1>1 DEF SettleNet
<1> HIDE DEF delta
<1> QED
  BY <1>1, <1>2, <1>3, <1>4, <1>6, <1>7, <1>8, DeletionStep

\* Remove of a record that belongs to no transfer.
LEMMA RemoveStep ==
  ASSUME IInv, TypeOK', NEW i \in Ids, Remove(i)
  PROVE  Steady
<1>1. CASE record[i].group # 0
  BY <1>1, RemoveTransferStep DEF Remove
<1>2. CASE record[i].group = 0
  <2> DEFINE delta == [e \in Entities |-> -Collected(record[i], e)]
  <2>1. /\ Live(i) /\ record' = [record EXCEPT ![i] = Unread("deleted", 0)]
        /\ SettleNet(delta)
        /\ UNCHANGED <<status, next, payment, base>>
    BY <1>2 DEF Remove
  <2>2. TypeOK /\ record \in [Ids -> Record]
    BY DEF IInv, TypeOK
  <2>3. record' = [j \in Ids |-> IF j \in {i} THEN Unread("deleted", record[j].group)
                                 ELSE record[j]]
    BY <1>2, <2>1, <2>2
  <2>4. delta \in [Entities -> Int]
    BY <2>2, CollectedType
  <2>5. ASSUME NEW e \in Entities
        PROVE  delta[e] = SumOver({i}, [j \in Ids |-> -Collected(record[j], e)])
    <3> DEFINE lost == [j \in Ids |-> -Collected(record[j], e)]
    <3>1. lost \in [Ids -> Int] /\ lost[i] = delta[e]
      BY <2>2, CollectedType
    <3> HIDE DEF lost, delta
    <3> QED
      BY <3>1, SumOverSingle DEF lost
  <2>6. Settle(delta, {o \in Objectives : delta[o] # 0})
    BY <2>1 DEF SettleNet
  <2>7. \A k \in {i} : record[k].state = "live"
    BY <2>1 DEF Live
  <2>8. \A k \in {i}, j \in Ids :
          record[k].group # 0 /\ record[j].group = record[k].group => j \in {i}
    BY <1>2
  <2> HIDE DEF delta
  <2>9. \A e \in Entities :
          delta[e] = SumOver({i}, [j \in Ids |-> -Collected(record[j], e)]) \/ Opened(e)
    BY <2>5
  <2> QED
    BY <2>1, <2>3, <2>4, <2>6, <2>7, <2>8, <2>9, DeletionStep
<1> QED
  BY <1>1, <1>2

\* CreateTransfer: two legs under a fresh group.
LEMMA CreateTransferStep ==
  ASSUME IInv, TypeOK', NEW source \in Accounts, NEW dest \in Accounts,
         NEW amount \in Amounts, NEW goal \in ObjectiveOrNone,
         NEW description \in Descriptions, NEW company \in CompanyOrNone,
         CreateTransfer(source, dest, amount, goal, description, company)
  PROVE  Steady
<1> DEFINE origin  == Leg(amount, None, description, company, source, None)
           arrival == Leg(amount, goal, description, company, None, dest)
           delta   == [e \in Entities |-> Adjusted(origin, e) + Adjusted(arrival, e)]
<1>1. /\ next + 1 <= MaxRecords
      /\ status[source] = "live" /\ status[dest] = "live" /\ Exists(goal)
      /\ record' = [record EXCEPT ![next] = origin, ![next + 1] = arrival]
      /\ next' = next + 2
      /\ Settle(delta, {goal})
      /\ UNCHANGED <<status, payment, base>>
  BY DEF CreateTransfer
<1>2. TypeOK /\ Fresh /\ PairsTogether /\ Rooted
  BY DEF IInv
<1>3. origin \in Record /\ arrival \in Record
  BY <1>1, <1>2, LegType DEF ObjectiveOrNone, AccountOrNone
<1>4. /\ origin.state = "live" /\ origin.group = next /\ origin.type = "transfer"
      /\ origin.objective = None /\ origin.patrimony = None
      /\ origin.origin = source /\ origin.destination = None
      /\ arrival.state = "live" /\ arrival.group = next /\ arrival.type = "transfer"
      /\ arrival.objective = goal /\ arrival.patrimony = None
      /\ arrival.origin = None /\ arrival.destination = dest
  BY DEF Leg
<1> HIDE DEF origin, arrival
<1>5. /\ next \in Ids /\ next + 1 \in Ids /\ next # next + 1 /\ next \in Nat
      /\ \A i \in Ids : i \in Nat /\ record[i].group \in Nat
  <2>1. next \in Nat /\ next >= 1 /\ record \in [Ids -> Record]
    BY <1>2, Bounds DEF TypeOK
  <2> QED
    BY <1>1, <2>1, Bounds DEF Ids, Record
<1>6. /\ record'[next] = origin /\ record'[next + 1] = arrival
      /\ \A i \in Ids \ {next, next + 1} : record'[i] = record[i]
  BY <1>1, <1>2, <1>5 DEF TypeOK
<1>7. Fresh'
  <2>1. ASSUME NEW i \in Ids
        PROVE  /\ record'[i].group < next'
               /\ i >= next' => record'[i].state = "none" /\ record'[i].group = 0
    <3>1. CASE i \in {next, next + 1}
      BY <1>1, <1>4, <1>5, <1>6, <3>1
    <3>2. CASE i \notin {next, next + 1}
      <4>1. record'[i] = record[i] /\ next' = next + 2
        BY <1>1, <1>6, <3>2
      <4>2. /\ record[i].group < next
            /\ i >= next => record[i].state = "none" /\ record[i].group = 0
        BY <1>2 DEF Fresh
      <4>3. /\ record[i].group < next + 2
            /\ i >= next + 2 => record[i].state = "none" /\ record[i].group = 0
        <5>1. i \in Nat /\ next \in Nat /\ record[i].group \in Nat
          BY <1>5
        <5>2. record[i].group < next + 2 /\ (i >= next + 2 => i >= next)
          BY <4>2, <5>1
        <5> QED
          BY <4>2, <5>2
      <4> QED
        BY <4>1, <4>3
    <3> QED
      BY <3>1, <3>2
  <2> QED
    BY <2>1 DEF Fresh
<1>8. PairsTogether'
  <2>1. \A i \in Ids \ {next, next + 1} : record[i].group # next
    BY <1>2, <1>5 DEF Fresh
  <2> QED
    BY <1>2, <1>4, <1>6, <2>1 DEF PairsTogether
<1>9. Rooted'
  <2>1. Exists(source) /\ Exists(dest) /\ Exists(None)
    BY <1>1 DEF Exists, Entities, Patrimony
  <2>2. \A i \in {next, next + 1} :
          /\ Exists(record'[i].objective) /\ Exists(record'[i].patrimony)
          /\ Exists(record'[i].origin) /\ Exists(record'[i].destination)
    BY <1>1, <1>4, <1>6, <2>1
  <2> QED
    BY <1>1, <1>2, <1>6, <2>2, ExistsStays DEF Rooted, Live
<1>10. ASSUME LegEdits # "any" PROVE LegsKeepShape'
  BY <1>4, <1>6, <1>10 DEF IInv, LegsKeepShape, Live, TransferShape
<1>11. \A e \in Entities : Accounted(e)
  <2>1. delta \in [Entities -> Int]
    BY <1>3, CollectedType
  <2>2. ASSUME NEW e \in Entities PROVE Explained(e)' = Explained(e) + delta[e]
    <3> DEFINE diff == [i \in Ids |-> Collected(record'[i], e) - Collected(record[i], e)]
    <3>1. diff \in [Ids -> Int]
      BY <1>2, CollectedType DEF TypeOK
    <3>2. Collected(record[next], e) = 0 /\ Collected(record[next + 1], e) = 0
      <4>1. record[next].state = "none" /\ record[next + 1].state = "none"
        BY <1>2, <1>5 DEF Fresh
      <4> QED
        BY <4>1 DEF Collected
    <3>3. diff[next] = Adjusted(origin, e) /\ diff[next + 1] = Adjusted(arrival, e)
      BY <1>3, <1>4, <1>5, <1>6, <3>2, LegAdjusted, CollectedType
    <3>4. Explained(e)' = Explained(e) + SumOver({next, next + 1}, diff)
      BY <1>1, <1>2, <1>5, <1>6, RecordsExplain
    <3>5. delta[e] = Adjusted(origin, e) + Adjusted(arrival, e)
      OBVIOUS
    <3> HIDE DEF diff, delta
    <3>6. SumOver({next, next + 1}, diff) = diff[next] + diff[next + 1]
      <4>1. next + 1 \in Ids \ {next}
        BY <1>5
      <4>2. SumOver({next, next + 1}, diff) = SumOver({next}, diff) + SumOver({next + 1}, diff)
        BY <1>5, <3>1, <4>1, SumOverPair
      <4>3. SumOver({next}, diff) = diff[next]
        BY <1>5, <3>1, SumOverSingle
      <4>4. SumOver({next + 1}, diff) = diff[next + 1]
        BY <1>5, <3>1, SumOverSingle
      <4> QED
        BY <4>2, <4>3, <4>4
    <3> QED
      BY <3>3, <3>4, <3>5, <3>6
  <2> HIDE DEF delta
  <2> QED
    BY <1>1, <1>2, <2>1, <2>2, SettledSteady
<1> QED
  BY <1>2, <1>7, <1>8, <1>9, <1>10, <1>11 DEF IInv, Steady

\* CreateMany: every row of the batch under its own key, one aggregate posting.
LEMMA CreateManyStep ==
  ASSUME IInv, TypeOK', NEW batch \in Batches, NEW assign \in BOOLEAN,
         CreateMany(batch, assign)
  PROVE  Steady
<1> DEFINE rows == next .. (next + Len(batch) - 1)
           new  == [i \in rows |-> Imported(batch[i - next + 1], assign)]
           line(e) == [i \in Ids |-> IF i \in rows THEN Collected(new[i], e) ELSE 0]
           delta == [e \in Entities |-> SumOver(rows, line(e))]
<1>1. /\ next + Len(batch) - 1 <= MaxRecords
      /\ \A k \in 1..Len(batch) : LinksExist(batch[k])
      /\ record' = [i \in Ids |-> IF i \in rows THEN new[i] ELSE record[i]]
      /\ next' = next + Len(batch)
      /\ SettleNet(delta)
      /\ UNCHANGED <<status, payment, base>>
  BY DEF CreateMany
<1>2. TypeOK /\ Fresh /\ PairsTogether /\ Rooted
  BY DEF IInv
<1>3. /\ next \in Nat /\ next >= 1 /\ Len(batch) \in Nat /\ rows \in SUBSET Ids
      /\ \A i \in Ids : i \in Nat /\ record[i].group \in Nat
  <2>1. next \in Nat /\ next >= 1 /\ record \in [Ids -> Record] /\ Len(batch) \in Nat
    BY <1>2, Bounds, BatchType DEF TypeOK
  <2> QED
    BY <1>1, <2>1, Bounds DEF Ids, Record
<1>4. \A i \in rows : i - next + 1 \in 1..Len(batch)
  BY <1>3
<1>5. ASSUME NEW i \in rows
      PROVE  /\ new[i] \in Record /\ new[i].state = "live" /\ new[i].group = 0
             /\ new[i].type # "transfer"
             /\ Exists(new[i].objective) /\ Exists(new[i].patrimony)
             /\ new[i].origin = None /\ new[i].destination = None
  <2> DEFINE f == batch[i - next + 1]
             category == IF assign
                         THEN Categorize(rules, f.category, f.description, f.company)
                         ELSE WithCompanyDefault(f.category, f.company)
  <2>1. f \in Fields /\ f.type \in {"income", "expense"} /\ LinksExist(f)
    BY <1>1, <1>4, BatchType
  <2>2. category \in CategoryOrNone
    BY <1>2, <2>1, CategorizeType DEF TypeOK, Fields
  <2>3. new[i] = Plain(f, category)
    BY DEF Imported
  <2> HIDE DEF f, category, new
  <2> QED
    BY <2>1, <2>2, <2>3, PlainType DEF LinksExist
<1> HIDE DEF rows, new
<1>6. /\ \A i \in rows : record'[i] = new[i]
      /\ \A i \in Ids \ rows : record'[i] = record[i]
  BY <1>1, <1>3
<1>7. \A i \in rows : i >= next /\ i < next'
  BY <1>1, <1>3 DEF rows
<1>8. \A i \in Ids : i >= next' => i >= next /\ i \notin rows
  BY <1>1, <1>3, <1>7
<1>9. Fresh'
  <2>1. ASSUME NEW i \in Ids
        PROVE  /\ record'[i].group < next'
               /\ i >= next' => record'[i].state = "none" /\ record'[i].group = 0
    <3>1. CASE i \in rows
      BY <1>1, <1>3, <1>5, <1>6, <1>8, <3>1
    <3>2. CASE i \notin rows
      <4>1. record'[i] = record[i] /\ next' \in Nat /\ next' >= next
        BY <1>1, <1>3, <1>6, <3>2
      <4>2. /\ record[i].group < next
            /\ i >= next => record[i].state = "none" /\ record[i].group = 0
        BY <1>2 DEF Fresh
      <4> QED
        BY <1>3, <1>8, <4>1, <4>2
    <3> QED
      BY <3>1, <3>2
  <2> QED
    BY <2>1 DEF Fresh
<1>10. PairsTogether'
  BY <1>2, <1>5, <1>6 DEF PairsTogether
<1>11. Rooted'
  <2>1. Exists(None)
    BY DEF Exists
  <2> QED
    BY <1>1, <1>2, <1>5, <1>6, <2>1, ExistsStays DEF Rooted, Live
<1>12. ASSUME LegEdits # "any" PROVE LegsKeepShape'
  BY <1>5, <1>6, <1>12 DEF IInv, LegsKeepShape, Live, TransferShape
<1>13. \A e \in Entities : line(e) \in [Ids -> Int]
  BY <1>3, <1>5, CollectedType
<1>14. delta \in [Entities -> Int]
  BY <1>3, <1>13, SumOverInt
<1>15. \A e \in Entities : Accounted(e)
  <2>1. ASSUME NEW e \in Entities PROVE Explained(e)' = Explained(e) + delta[e]
    <3> DEFINE diff == [i \in Ids |-> Collected(record'[i], e) - Collected(record[i], e)]
    <3>1. diff \in [Ids -> Int]
      BY <1>2, CollectedType DEF TypeOK
    <3>2. ASSUME NEW i \in rows PROVE line(e)[i] = diff[i]
      <4>1. Collected(record[i], e) = 0
        BY <1>2, <1>3, <1>7 DEF Fresh, Collected
      <4>2. Collected(new[i], e) \in Int
        BY <1>5, CollectedType
      <4> QED
        BY <1>3, <1>6, <4>1, <4>2
    <3>3. Explained(e)' = Explained(e) + SumOver(rows, diff)
      BY <1>1, <1>2, <1>3, <1>6, RecordsExplain
    <3>4. delta[e] = SumOver(rows, line(e))
      OBVIOUS
    <3> HIDE DEF diff, delta, line
    <3>5. SumOver(rows, line(e)) = SumOver(rows, diff)
      BY <1>3, <1>13, <3>1, <3>2, SumOverSame
    <3> QED
      BY <3>3, <3>4, <3>5
  <2>2. Settle(delta, {o \in Objectives : delta[o] # 0})
    BY <1>1 DEF SettleNet
  <2> HIDE DEF delta
  <2> QED
    BY <1>1, <1>2, <1>14, <2>1, <2>2, SettledSteady
<1> QED
  BY <1>2, <1>9, <1>10, <1>11, <1>12, <1>15 DEF IInv, Steady

\* Payments: one posting to the goal.
LEMMA PaymentsStep ==
  ASSUME IInv, TypeOK', PaymentStep
  PROVE  Steady
<1>1. TypeOK /\ Fresh /\ PairsTogether /\ Rooted
  BY DEF IInv
<1>2. UNCHANGED <<status, record, next, base>>
  BY DEF PaymentStep, PostPayment, DeletePayment, CreatePayment, RemovePayment
<1>3. Fresh' /\ PairsTogether' /\ (LegEdits # "any" => LegsKeepShape')
  BY <1>1, <1>2 DEF IInv, Fresh, PairsTogether, LegsKeepShape, Live
<1>4. ASSUME NEW o \in Objectives, NEW amount \in Amounts, CreatePayment(o, amount)
      PROVE  Rooted' /\ \A e \in Entities : Accounted(e)
  <2> DEFINE delta == [e \in Entities |-> IF e = o THEN amount ELSE 0]
             new == [state |-> "live", objective |-> o, amount |-> amount]
  <2>1. PICK p \in Payments :
          payment[p].state = "none" /\ payment' = [payment EXCEPT ![p] = new]
    BY <1>4 DEF CreatePayment
  <2>2. status[o] = "live" /\ Settle(delta, {o})
    BY <1>4 DEF CreatePayment
  <2>3. /\ payment'[p] = new /\ \A q \in Payments \ {p} : payment'[q] = payment[q]
    BY <1>1, <2>1 DEF TypeOK
  <2>4. Rooted'
    <3>1. Exists(o)
      BY <2>2 DEF Exists, Entities
    <3> QED
      BY <1>1, <1>2, <2>3, <3>1, ExistsStays DEF Rooted, Live
  <2>5. delta \in [Entities -> Int]
    BY Values
  <2>6. ASSUME NEW e \in Entities PROVE Explained(e)' = Explained(e) + delta[e]
    <3>1. Paid(payment[p], e) = 0 /\ Paid(new, e) = delta[e]
      BY <2>1 DEF Paid
    <3>2. Explained(e)' = Explained(e) + (Paid(payment'[p], e) - Paid(payment[p], e))
      BY <1>1, <1>2, <2>3, OnePaymentExplains
    <3> HIDE DEF new, delta
    <3> QED
      BY <2>3, <2>5, <3>1, <3>2
  <2> HIDE DEF delta
  <2> QED
    BY <1>1, <1>2, <2>2, <2>4, <2>5, <2>6, SettledSteady
<1>5. ASSUME NEW p \in Payments, RemovePayment(p)
      PROVE  Rooted' /\ \A e \in Entities : Accounted(e)
  <2> DEFINE delta == [e \in Entities |->
                         IF e = payment[p].objective THEN -payment[p].amount ELSE 0]
  <2>1. /\ payment[p].state = "live"
        /\ payment' = [payment EXCEPT ![p] = NoPayment("deleted")]
        /\ Settle(delta, {payment[p].objective})
    BY <1>5 DEF RemovePayment
  <2>2. payment'[p].state = "deleted" /\ \A q \in Payments \ {p} : payment'[q] = payment[q]
    BY <1>1, <2>1 DEF TypeOK, NoPayment
  <2>3. Rooted'
    BY <1>1, <1>2, <2>2, ExistsStays DEF Rooted, Live
  <2>4. payment[p].amount \in Int
    BY <1>1, Values DEF TypeOK, Payment
  <2>5. delta \in [Entities -> Int]
    BY <2>4
  <2>6. ASSUME NEW e \in Entities PROVE Explained(e)' = Explained(e) + delta[e]
    <3>1. Paid(payment'[p], e) = 0 /\ 0 - Paid(payment[p], e) = delta[e]
      BY <2>1, <2>2, <2>4 DEF Paid
    <3>2. Explained(e)' = Explained(e) + (Paid(payment'[p], e) - Paid(payment[p], e))
      BY <1>1, <1>2, <2>2, OnePaymentExplains
    <3> HIDE DEF delta
    <3> QED
      BY <3>1, <3>2
  <2> HIDE DEF delta
  <2> QED
    BY <1>1, <1>2, <2>1, <2>3, <2>5, <2>6, SettledSteady
<1>6. Rooted' /\ \A e \in Entities : Accounted(e)
  BY <1>4, <1>5 DEF PaymentStep, PostPayment, DeletePayment
<1> QED
  BY <1>3, <1>6 DEF IInv, Steady

\* The linked entities: a new row has nothing behind it, a balance set by hand
\* moves the part that no movement explains, a deleted row is read no more.
LEMMA EntitiesStep ==
  ASSUME IInv, TypeOK', EntityStep
  PROVE  Steady
<1>1. TypeOK /\ Rooted
  BY DEF IInv
<1>2. ASSUME NEW e \in Entities, NEW amount \in Openings, NEW goal \in Targets,
             Open(e, amount, goal)
      PROVE  Steady
  <2>1. /\ status[e] = "none" /\ status' = [status EXCEPT ![e] = "live"]
        /\ balance' = [balance EXCEPT ![e] = amount]
        /\ base' = [base EXCEPT ![e] = amount]
        /\ UNCHANGED <<record, next, payment>>
    BY <1>2 DEF Open
  <2>2. \A x \in Entities : status[x] # "none" => status'[x] # "none"
    BY <1>1, <2>1 DEF TypeOK
  <2>3. Explained(e) = 0
    BY <1>1, <2>1, UnlinkedExplainsNothing
  <2>4. amount \in Int
    BY Values
  <2>5. \A x \in Entities : Accounted(x)
    <3> SUFFICES ASSUME NEW x \in Entities, status'[x] = "live"
                 PROVE  Gap(x)' = 0 \/ (status[x] = "live" /\ Gap(x)' = Gap(x))
      BY DEF Accounted
    <3>1. Explained(x)' = Explained(x)
      BY <2>1, <2>2, EntityStepKeeps
    <3>2. Gap(x)' = balance'[x] - base'[x] - Explained(x)'
      BY DEF Gap
    <3>3. CASE x = e
      BY <1>1, <2>1, <2>3, <2>4, <3>1, <3>2, <3>3 DEF TypeOK
    <3>4. CASE x # e
      <4>1. status[x] = "live" /\ balance'[x] = balance[x] /\ base'[x] = base[x]
        BY <1>1, <2>1, <3>4 DEF TypeOK
      <4> QED
        BY <3>1, <3>2, <4>1 DEF Gap
    <3> QED
      BY <3>3, <3>4
  <2> QED
    BY <2>1, <2>2, <2>5, EntityStepKeeps DEF IInv, Steady
<1>3. ASSUME NEW e \in Entities, NEW amount \in Int,
             status' = status, UNCHANGED <<record, next, payment>>,
             \/ balance' = [balance EXCEPT ![e] = amount]
                  /\ base' = [base EXCEPT ![e] = amount - Explained(e)]
             \/ balance' = balance /\ base' = base
      PROVE  Steady
  <2>1. \A x \in Entities : status[x] # "none" => status'[x] # "none"
    BY <1>3
  <2>2. \A x \in Entities : Accounted(x)
    <3> SUFFICES ASSUME NEW x \in Entities, status[x] = "live"
                 PROVE  Gap(x)' = 0 \/ Gap(x)' = Gap(x)
      BY <1>3 DEF Accounted
    <3>1. Explained(x)' = Explained(x) /\ Explained(x) \in Int
      BY <1>1, <1>3, <2>1, EntityStepKeeps, ExplainedType
    <3>2. Gap(x)' = balance'[x] - base'[x] - Explained(x)'
      BY DEF Gap
    <3>3. balance \in [Entities -> Int] /\ base \in [Entities -> Int]
      BY <1>1 DEF TypeOK
    <3>4. CASE balance' = balance /\ base' = base
      BY <3>1, <3>2, <3>4 DEF Gap
    <3>5. CASE /\ balance' = [balance EXCEPT ![e] = amount]
               /\ base' = [base EXCEPT ![e] = amount - Explained(e)]
      <4>1. CASE x = e
        <5>1. balance'[x] = amount /\ base'[x] = amount - Explained(x)
          BY <3>3, <3>5, <4>1
        <5> QED
          BY <1>3, <3>1, <3>2, <5>1
      <4>2. CASE x # e
        <5>1. balance'[x] = balance[x] /\ base'[x] = base[x]
          BY <3>3, <3>5, <4>2
        <5> QED
          BY <3>1, <3>2, <5>1 DEF Gap
      <4> QED
        BY <4>1, <4>2
    <3> QED
      BY <1>3, <3>4, <3>5
  <2> QED
    BY <1>3, <2>1, <2>2, EntityStepKeeps DEF IInv, Steady
<1>4. ASSUME NEW e \in Patrimony, NEW amount \in Overrides, SetBalance(e, amount)
      PROVE  Steady
  <2>1. e \in Entities /\ amount \in Int
    BY Values DEF Entities
  <2> QED
    BY <1>3, <1>4, <2>1 DEF SetBalance
<1>5. ASSUME NEW o \in Objectives, NEW amount \in Overrides \cup {None},
             NEW goal \in Targets \cup {None}, NEW mark \in BOOLEAN \cup {None},
             UpdateObjective(o, amount, goal, mark)
      PROVE  Steady
  <2>1. o \in Entities
    BY DEF Entities
  <2>2. status' = status /\ UNCHANGED <<record, next, payment>>
    BY <1>5 DEF UpdateObjective
  <2>3. CASE amount = None
    <3>1. balance' = [balance EXCEPT ![o] = balance[o]]
          /\ base' = [base EXCEPT ![o] = base[o]]
      BY <1>5, <2>3 DEF UpdateObjective, Given
    <3>2. balance' = balance /\ base' = base
      BY <1>1, <3>1 DEF TypeOK
    <3> QED
      BY <1>3, <2>1, <2>2, <3>2
  <2>4. CASE amount # None
    <3>1. amount \in Int
      BY <2>4, Values
    <3>2. /\ balance' = [balance EXCEPT ![o] = amount]
          /\ base' = [base EXCEPT ![o] = amount - Explained(o)]
      BY <1>5, <2>4 DEF UpdateObjective, Given
    <3> QED
      BY <1>3, <2>1, <2>2, <3>1, <3>2
  <2> QED
    BY <2>3, <2>4
<1>6. ASSUME NEW e \in Entities, Close(e) PROVE Steady
  <2>1. /\ status' = [status EXCEPT ![e] = "deleted"]
        /\ balance' = [balance EXCEPT ![e] = 0]
        /\ base' = [base EXCEPT ![e] = 0]
        /\ UNCHANGED <<record, next, payment>>
    BY <1>6 DEF Close
  <2>2. \A x \in Entities : status[x] # "none" => status'[x] # "none"
    BY <1>1, <2>1 DEF TypeOK
  <2>3. \A x \in Entities : Accounted(x)
    <3> SUFFICES ASSUME NEW x \in Entities, status'[x] = "live"
                 PROVE  status[x] = "live" /\ Gap(x)' = Gap(x)
      BY DEF Accounted
    <3>1. Explained(x)' = Explained(x)
      BY <2>1, <2>2, EntityStepKeeps
    <3>2. status[x] = "live" /\ balance'[x] = balance[x] /\ base'[x] = base[x]
      BY <1>1, <2>1 DEF TypeOK
    <3> QED
      BY <3>1, <3>2 DEF Gap
  <2> QED
    BY <2>1, <2>2, <2>3, EntityStepKeeps DEF IInv, Steady
<1> QED
  BY <1>2, <1>4, <1>5, <1>6 DEF EntityStep, AccountStep, AssetStep, LiabilityStep, ObjectiveStep, Opens, Changes,
         Entities, Patrimony

\* Every operation of the ledger keeps the invariant and accounts for every balance.
LEMMA StepSteady == IInv /\ [Next]_vars => Steady
<1> SUFFICES ASSUME IInv, [Next]_vars PROVE Steady
  OBVIOUS
<1>1. TypeOK /\ TypeOK'
  BY TypeStep DEF IInv
<1>2. ASSUME NEW f \in Fields, Create(f) PROVE Steady
  <2> DEFINE new == Plain(f, Categorize(rules, f.category, f.description, f.company))
  <2>1. /\ new \in Record /\ new.state = "live" /\ new.group = 0
        /\ new.type = f.type /\ new.patrimony = f.patrimony
        /\ new.objective = f.objective /\ new.origin = None /\ new.destination = None
    BY <1>1, CategorizeType, PlainType DEF TypeOK, Fields
  <2>2. /\ next <= MaxRecords /\ LinksExist(f) /\ Allowed(0, f)
        /\ record' = [record EXCEPT ![next] = new] /\ next' = next + 1
        /\ SettleNet([e \in Entities |-> Collected(new, e)])
        /\ UNCHANGED <<status, payment, base>>
    BY <1>2 DEF Create
  <2> HIDE DEF new
  <2>3. /\ Exists(new.objective) /\ Exists(new.patrimony)
        /\ Exists(new.origin) /\ Exists(new.destination)
    BY <2>1, <2>2 DEF LinksExist, Exists
  <2>4. LegEdits # "any" => TransferShape(0, new)
    BY <2>1, <2>2 DEF Allowed, TransferShape
  <2> QED
    BY <1>1, <2>1, <2>2, <2>3, <2>4, NewRecordStep
<1>3. ASSUME NEW i \in Ids, NEW amount \in AmountOrNone,
             NEW description \in DescriptionOrNone,
             NEW category \in CategoryOrNone, NEW company \in CompanyOrNone,
             Clone(i, amount, description, category, company)
      PROVE  Steady
  <2> DEFINE new == Cloned(i, amount, description, category, company)
  <2>1. /\ new \in Record /\ new.state = record[i].state /\ new.group = 0
        /\ new.type = record[i].type /\ new.patrimony = record[i].patrimony
        /\ new.objective = record[i].objective /\ new.origin = record[i].origin
        /\ new.destination = record[i].destination
    BY <1>1, ClonedType
  <2>2. /\ Live(i) /\ next <= MaxRecords
        /\ record' = [record EXCEPT ![next] = new] /\ next' = next + 1
        /\ SettleNet([e \in Entities |-> Collected(new, e)])
        /\ UNCHANGED <<status, payment, base>>
    BY <1>3 DEF Clone
  <2> HIDE DEF new
  <2>3. /\ Exists(new.objective) /\ Exists(new.patrimony)
        /\ Exists(new.origin) /\ Exists(new.destination)
    BY <2>1, <2>2 DEF IInv, Rooted
  <2>4. LegEdits # "any" => TransferShape(0, new)
    BY <2>1, <2>2 DEF IInv, LegsKeepShape, TransferShape
  <2>5. new.state = "live"
    BY <2>1, <2>2 DEF Live
  <2> QED
    BY <1>1, <2>1, <2>2, <2>3, <2>4, <2>5, NewRecordStep
<1>4. CASE SingleStep
  BY <1>1, <1>2, <1>3, <1>4, UpdateStep, RemoveStep DEF SingleStep, PostTransaction, PatchTransaction, CloneTransaction,
         DeleteTransaction
<1>5. CASE TransferStep
  BY <1>1, <1>5, CreateTransferStep, UpdateTransferStep, RemoveTransferStep
     DEF TransferStep, PostTransfer, PatchTransfer, DeleteTransfer
<1>6. CASE BulkStep
  BY <1>1, <1>6, RemoveManyStep, CreateManyStep DEF BulkStep, DeleteTransactions, ImportTransactions
<1>7. CASE PaymentStep
  BY <1>1, <1>7, PaymentsStep
<1>8. CASE EntityStep
  BY <1>1, <1>8, EntitiesStep
<1>9. CASE UNCHANGED vars
  <2>1. UNCHANGED <<status, balance, record, next, payment, base>>
    BY <1>9 DEF vars
  <2>2. \A e \in Entities : status[e] # "none" => status'[e] # "none"
    BY <2>1
  <2>3. \A e \in Entities : Accounted(e)
    BY <1>1, <2>1, <2>2, EntityStepKeeps DEF Accounted, Gap
  <2> QED
    BY <1>1, <2>1, <2>2, <2>3, EntityStepKeeps DEF IInv, Steady
<1> QED
  BY <1>4, <1>5, <1>6, <1>7, <1>8, <1>9 DEF Next

\* Every operation keeps the invariant.
LEMMA Inductive == IInv /\ [Next]_vars => IInv'
BY StepSteady DEF Steady

\* The inductive invariant holds at the start.
LEMMA BooksStart == Init => IInv
<1> SUFFICES ASSUME Init PROVE IInv
  OBVIOUS
<1>1. TypeOK
  BY TypeInit
<1>2. \A i \in Ids : record[i].state = "none" /\ record[i].group = 0
  BY UnreadType, Bounds DEF Init, States
<1>3. Fresh
  BY <1>2 DEF Init, Fresh
<1>4. PairsTogether /\ LegsKeepShape
  BY <1>2 DEF PairsTogether, LegsKeepShape, Live
<1>5. Rooted
  BY <1>2 DEF Init, Rooted, Live, NoPayment
<1> QED
  BY <1>1, <1>3, <1>4, <1>5 DEF IInv

\* The inductive invariant holds in every behaviour of the ledger.
LEMMA Invariance == Spec => []IInv
  BY BooksStart, Inductive, PTL DEF Spec

-----------------------------------------------------------------------------
(* The theorems.                                                           *)

\* Neither DELETE /transactions, DELETE /transactions/:id nor DELETE
\* /transfers/:id ever leaves one leg of a transfer without the other.
THEOREM PairsStayTogether == Spec => []PairsTogether
<1>1. IInv => PairsTogether
  BY DEF IInv
<1> QED
  BY <1>1, Invariance, PTL

\* Whatever clients do to the rows of transfers with PATCH /transactions/:id, only a
\* request that changes a row which is no transfer any more moves a balance away from
\* what explains it.
THEOREM GapsExplained == Spec => GapsComeFromBentRecords
<1>1. ASSUME IInv, [Next]_vars, NEW e \in Entities, status[e] = "live", status'[e] = "live",
             Gap(e)' \notin {0, Gap(e)}
      PROVE  Opened(e)
  BY <1>1, StepSteady DEF Steady, Accounted
<1>2. IInv /\ [Next]_vars =>
        [\A e \in Entities :
           /\ status[e] = "live" /\ status'[e] = "live"
           /\ Gap(e)' \notin {0, Gap(e)}
           => \E i \in Ids : /\ Bent(i) /\ record'[i] # record[i]
                             /\ e \in Links(record[i]) \cup Links(record'[i])]_vars
  BY <1>1 DEF Opened
<1> QED
  BY <1>2, Invariance, PTL DEF Spec, GapsComeFromBentRecords

\* If clients keep a leg a transfer without patrimony link, no record is ever bent, so
\* no operation moves a balance away from what explains it: it is the amount last set
\* by hand and the effect of the live records and payments.
THEOREM BooksBalance ==
  ASSUME LegEdits # "any"
  PROVE  Spec => []Reconciled
<1>1. Init => Reconciled
  BY DEF Init, Reconciled
<1>2. ASSUME IInv, Reconciled, [Next]_vars PROVE Reconciled'
  <2> SUFFICES ASSUME NEW e \in Entities, status'[e] = "live"
               PROVE  balance'[e] = base'[e] + Explained(e)'
    BY DEF Reconciled
  <2>1. TypeOK /\ TypeOK' /\ Accounted(e)
    BY <1>2, StepSteady DEF Steady, IInv
  <2>2. ~ Opened(e)
    BY <1>2 DEF IInv, LegsKeepShape, Opened, Bent
  <2>3. status[e] = "live" => Gap(e) = 0
    <3>1. balance[e] \in Int /\ base[e] \in Int /\ Explained(e) \in Int
      BY <2>1, ExplainedType DEF TypeOK
    <3> QED
      BY <1>2, <3>1 DEF Gap, Reconciled
  <2>4. Gap(e)' = 0
    BY <2>1, <2>2, <2>3 DEF Accounted
  <2>5. balance'[e] \in Int /\ base'[e] \in Int /\ Explained(e)' \in Int
    BY <2>1, ExplainedTypeNext DEF TypeOK
  <2>6. Gap(e)' = balance'[e] - base'[e] - Explained(e)'
    BY DEF Gap
  <2> QED
    BY <2>4, <2>5, <2>6
<1> QED
  BY <1>1, <1>2, Invariance, PTL DEF Spec

-----------------------------------------------------------------------------
(* The review queue and the two legs of a transfer.                        *)

\* What a step that is not one of /transfers does to a record: nothing, a removal
\* that keeps the group, a new record, or an edit that decides the status anew.
Untouched(i) == record'[i] = record[i]

Removed(i) ==
  /\ record[i].state = "live" /\ record'[i].state = "deleted"
  /\ record'[i].group = record[i].group

Added(i) ==
  /\ record[i].state = "none"
  /\ record'[i].group = 0 /\ record'[i].status = ReviewStatus(record'[i].category)

Patched(i) == \E f \in Fields, similar \in BOOLEAN : Update(i, f, similar)

Edited(i) ==
  /\ record[i].state = "live" /\ record'[i].state = "live"
  /\ record'[i].group = record[i].group
  /\ record'[i].origin = record[i].origin /\ record'[i].destination = record[i].destination
  /\ record'[i].status = ReviewStatus(record'[i].category)
  /\ record[i].category # None => record'[i].category # None
  /\ record'[i].amount = record[i].amount \/ Patched(i)

Preserved(i) == Untouched(i) \/ Removed(i) \/ Added(i) \/ Edited(i)

\* A category that is given is the category of the record.
LEMMA GivenCategoryWins ==
  ASSUME NEW r, NEW c, NEW d, NEW f, c # None
  PROVE  Categorize(r, c, d, f) = c
BY DEF Categorize, AutoCategory, WithCompanyDefault

-----------------------------------------------------------------------------
(* The steps of /transactions.                                             *)

\* One record is written at the next key.
LEMMA AddedOne ==
  ASSUME TypeOK, Fresh, NEW new \in Record, next <= MaxRecords,
         new.group = 0, new.status = ReviewStatus(new.category),
         record' = [record EXCEPT ![next] = new]
  PROVE  \A i \in Ids : Preserved(i)
<1>1. next \in Ids /\ record \in [Ids -> Record]
  BY Bounds DEF TypeOK, Ids
<1>2. record[next].state = "none"
  BY <1>1, Bounds DEF Fresh, Ids
<1>3. Added(next)
  BY <1>1, <1>2 DEF Added
<1> QED
  BY <1>1, <1>3 DEF Preserved, Untouched

\* Create (TransactionRecordRepository.create) adds one row and keeps the others.
LEMMA CreateKeeps ==
  ASSUME TypeOK, Fresh, NEW f \in Fields, Create(f)
  PROVE  \A i \in Ids : Preserved(i)
<1> DEFINE category == Categorize(rules, f.category, f.description, f.company)
           new == Plain(f, category)
<1>1. category \in CategoryOrNone
  BY CategorizeType DEF TypeOK, Fields
<1>2. next <= MaxRecords /\ record' = [record EXCEPT ![next] = new]
  BY DEF Create
<1> HIDE DEF category
<1>3. new \in Record /\ new.group = 0
  BY <1>1, PlainType
<1>4. new.status = ReviewStatus(new.category)
  BY DEF Plain
<1> HIDE DEF new
<1> QED
  BY <1>2, <1>3, <1>4, AddedOne

\* Clone adds a copy under a new key and keeps the other rows.
LEMMA CloneKeeps ==
  ASSUME TypeOK, Fresh, NEW i \in Ids, NEW amount \in AmountOrNone,
         NEW description \in DescriptionOrNone, NEW category \in CategoryOrNone,
         NEW company \in CompanyOrNone, Clone(i, amount, description, category, company)
  PROVE  \A j \in Ids : Preserved(j)
<1> DEFINE new == Cloned(i, amount, description, category, company)
<1>1. next <= MaxRecords /\ record' = [record EXCEPT ![next] = new]
  BY DEF Clone
<1>2. new \in Record /\ new.group = 0
  BY ClonedType
<1>3. new.status = ReviewStatus(new.category)
  <2>1. record[i] \in Record
    BY DEF TypeOK
  <2> DEFINE final == Categorize(rules, Given(category, record[i].category),
                                 Given(description, record[i].description),
                                 Given(company, record[i].company))
  <2>2. new = [record[i] EXCEPT
                 !.amount = Given(amount, @),
                 !.description = Given(description, record[i].description),
                 !.category = final, !.status = ReviewStatus(final),
                 !.company = Given(company, record[i].company), !.group = 0]
    BY DEF Cloned
  <2> HIDE DEF final, new
  <2> QED
    BY <2>1, <2>2 DEF Record
<1> HIDE DEF new
<1> QED
  BY <1>1, <1>2, <1>3, AddedOne

\* Update, with the update chained to it, keeps the reviewed form of every row.
LEMMA UpdatePreserves ==
  ASSUME TypeOK, NEW i \in Ids, NEW f \in Fields, NEW similar \in BOOLEAN,
         Update(i, f, similar)
  PROVE  \A j \in Ids : Preserved(j)
<1> DEFINE known == UpdatedCategory(i, f)
           final == Categorize(rules, known, f.description, f.company)
<1>1. /\ record[i].state = "live" /\ Allowed(record[i].group, f)
      /\ record' = [j \in Ids |->
           IF j = i THEN Merged(i, f)
           ELSE IF similar /\ j \in Similar(i, f)
           THEN [record[j] EXCEPT !.category = known, !.status = "categorized"]
           ELSE record[j]]
      /\ record \in [Ids -> Record]
  BY DEF Update, Live, TypeOK
<1>2. /\ Merged(i, f).state = record[i].state /\ Merged(i, f).group = record[i].group
      /\ Merged(i, f).origin = record[i].origin
      /\ Merged(i, f).destination = record[i].destination
  BY MergedType
<1>3. Merged(i, f).category = final /\ Merged(i, f).status = ReviewStatus(final)
  <2>1. record[i] \in Record
    BY <1>1
  <2>2. Merged(i, f) =
          [record[i] EXCEPT
             !.type = f.type, !.amount = f.amount, !.objective = f.objective,
             !.patrimony = f.patrimony, !.description = f.description,
             !.category = final, !.status = ReviewStatus(final), !.company = f.company]
    BY DEF Merged
  <2> HIDE DEF final
  <2> QED
    BY <2>1, <2>2 DEF Record
<1>4. record[i].category # None => final # None
  <2>1. record[i].category # None => known # None
    BY DEF UpdatedCategory, Given
  <2> HIDE DEF known
  <2> QED
    BY <2>1, GivenCategoryWins
<1>5. Patched(i)
  BY DEF Patched
<1> HIDE DEF known, final
<1>6. Edited(i)
  BY <1>1, <1>2, <1>3, <1>4, <1>5 DEF Edited
<1>7. ASSUME NEW j \in Ids \ {i}, similar, j \in Similar(i, f) PROVE Edited(j)
  <2>1. record[j].state = "live" /\ record[j] \in Record /\ known # None
    BY <1>1, <1>7 DEF Similar, Live, known
  <2>2. record'[j] = [record[j] EXCEPT !.category = known, !.status = "categorized"]
    BY <1>1, <1>7
  <2>3. /\ record'[j].category = known /\ record'[j].status = "categorized"
        /\ record'[j].state = record[j].state /\ record'[j].group = record[j].group
        /\ record'[j].origin = record[j].origin
        /\ record'[j].destination = record[j].destination
        /\ record'[j].amount = record[j].amount
    BY <2>1, <2>2 DEF Record
  <2> QED
    BY <2>1, <2>3 DEF Edited, ReviewStatus
<1>8. ASSUME NEW j \in Ids \ {i}, ~ (similar /\ j \in Similar(i, f)) PROVE Untouched(j)
  BY <1>1, <1>8 DEF Untouched
<1> QED
  BY <1>6, <1>7, <1>8 DEF Preserved

\* A removal takes live records and leaves their group.
LEMMA RemovalKeeps ==
  ASSUME TypeOK, NEW S \in SUBSET Ids, \A i \in S : record[i].state = "live",
         record' = [i \in Ids |->
           IF i \in S THEN Unread("deleted", record[i].group) ELSE record[i]]
  PROVE  \A i \in Ids : Preserved(i)
<1>1. \A i \in S : /\ Unread("deleted", record[i].group).state = "deleted"
                   /\ Unread("deleted", record[i].group).group = record[i].group
  BY UnreadType DEF TypeOK, Record, States
<1> QED
  BY <1>1 DEF Preserved, Removed, Untouched

\* softDeleteTransfer removes both rows of a group and edits none.
LEMMA RemoveTransferKeeps ==
  ASSUME TypeOK, NEW i \in Ids, RemoveTransfer(i)
  PROVE  \A j \in Ids : Preserved(j)
<1>1. Legs(i) \in SUBSET Ids /\ \A j \in Legs(i) : record[j].state = "live"
  BY DEF RemoveTransfer, IsTransfer, Legs, Live
<1> QED
  BY <1>1, RemovalKeeps DEF RemoveTransfer

\* softDelete removes a row, or the pair it belongs to, and edits none.
LEMMA RemoveKeeps ==
  ASSUME TypeOK, NEW i \in Ids, Remove(i)
  PROVE  \A j \in Ids : Preserved(j)
<1>1. CASE RemoveTransfer(i)
  BY <1>1, RemoveTransferKeeps
<1>2. CASE ~ RemoveTransfer(i)
  <2>1. /\ record[i].state = "live" /\ record[i].group = 0
        /\ record' = [record EXCEPT ![i] = Unread("deleted", 0)]
    BY <1>2 DEF Remove, Live
  <2>2. record' = [j \in Ids |->
          IF j \in {i} THEN Unread("deleted", record[j].group) ELSE record[j]]
    BY <2>1 DEF TypeOK
  <2> QED
    BY <2>1, <2>2, RemovalKeeps
<1> QED
  BY <1>1, <1>2

\* softDeleteMany removes rows and edits none.
LEMMA RemoveManyKeeps ==
  ASSUME TypeOK, NEW ids \in SUBSET Ids, RemoveMany(ids)
  PROVE  \A i \in Ids : Preserved(i)
<1>1. Doomed(ids) \in SUBSET Ids /\ \A i \in Doomed(ids) : record[i].state = "live"
  BY DEF Doomed, Live
<1> QED
  BY <1>1, RemovalKeeps DEF RemoveMany

\* createMany adds a block of rows and keeps the others.
LEMMA CreateManyKeeps ==
  ASSUME TypeOK, Fresh, NEW batch \in Batches, NEW assign \in BOOLEAN,
         CreateMany(batch, assign)
  PROVE  \A i \in Ids : Preserved(i)
<1> DEFINE rows == next .. (next + Len(batch) - 1)
           new  == [i \in rows |-> Imported(batch[i - next + 1], assign)]
<1>1. record' = [i \in Ids |-> IF i \in rows THEN new[i] ELSE record[i]]
  BY DEF CreateMany
<1>2. \A i \in rows : new[i].group = 0 /\ new[i].status = ReviewStatus(new[i].category)
  BY DEF Imported, Plain
<1>3. \A i \in rows \cap Ids : record[i].state = "none"
  <2>1. next \in Nat /\ Len(batch) \in Nat
    BY Bounds, BatchType DEF TypeOK
  <2>2. \A i \in rows \cap Ids : i >= next
    BY <2>1
  <2> HIDE DEF rows
  <2> QED
    BY <2>2 DEF Fresh
<1> HIDE DEF rows, new
<1> QED
  BY <1>1, <1>2, <1>3 DEF Preserved, Added, Untouched

\* Payments and entities leave the records alone.
LEMMA OthersPreserved ==
  ASSUME PaymentStep \/ EntityStep \/ UNCHANGED vars
  PROVE  \A i \in Ids : Preserved(i)
<1>1. record' = record
  BY DEF PaymentStep, PostPayment, DeletePayment, CreatePayment, RemovePayment, EntityStep,
         AccountStep, AssetStep, LiabilityStep, ObjectiveStep, Opens, Changes, Open, SetBalance,
         UpdateObjective, Close, vars
<1> QED
  BY <1>1 DEF Preserved, Untouched

\* Every step but the two of /transfers that write legs.
LEMMA StepKeeps ==
  ASSUME TypeOK, Fresh, [Next]_vars, ~ PostTransfer, ~ PatchTransfer
  PROVE  \A i \in Ids : Preserved(i)
<1>1. CASE SingleStep
  BY <1>1, CreateKeeps, CloneKeeps, UpdatePreserves, RemoveKeeps
     DEF SingleStep, PostTransaction, PatchTransaction, CloneTransaction, DeleteTransaction
<1>2. CASE TransferStep
  BY <1>2, RemoveTransferKeeps DEF TransferStep, DeleteTransfer
<1>3. CASE BulkStep
  BY <1>3, RemoveManyKeeps, CreateManyKeeps DEF BulkStep, DeleteTransactions, ImportTransactions
<1> QED
  BY <1>1, <1>2, <1>3, OthersPreserved DEF Next

-----------------------------------------------------------------------------
(* The steps of /transfers that write legs.                                *)

\* A new transfer: two rows nobody read before, in a group of their own.
LEMMA NewLegs ==
  ASSUME TypeOK, Fresh, NEW source \in Accounts, NEW dest \in Accounts,
         NEW amount \in Amounts, NEW goal \in ObjectiveOrNone,
         NEW description \in Descriptions, NEW company \in CompanyOrNone,
         CreateTransfer(source, dest, amount, goal, description, company)
  PROVE  /\ next \in Ids /\ next + 1 \in Ids /\ next # next + 1 /\ next # 0
         /\ record[next].state = "none" /\ record[next + 1].state = "none"
         /\ \A i \in Ids \ {next, next + 1} : Untouched(i) /\ record[i].group # next
         /\ record'[next].state = "live" /\ record'[next + 1].state = "live"
         /\ record'[next].group = next /\ record'[next + 1].group = next
         /\ record'[next].amount = amount /\ record'[next + 1].amount = amount
         /\ record'[next].origin = source /\ record'[next].destination = None
         /\ record'[next + 1].origin = None /\ record'[next + 1].destination = dest
         /\ source # dest
<1> DEFINE origin  == Leg(amount, None, description, company, source, None)
           arrival == Leg(amount, goal, description, company, None, dest)
<1>1. /\ source # dest /\ next + 1 <= MaxRecords
      /\ record' = [record EXCEPT ![next] = origin, ![next + 1] = arrival]
  BY DEF CreateTransfer
<1>2. /\ origin.state = "live" /\ origin.group = next /\ origin.amount = amount
      /\ origin.origin = source /\ origin.destination = None
      /\ arrival.state = "live" /\ arrival.group = next /\ arrival.amount = amount
      /\ arrival.origin = None /\ arrival.destination = dest
  BY DEF Leg
<1> HIDE DEF origin, arrival
<1>3. next \in Ids /\ next + 1 \in Ids /\ next # next + 1 /\ next # 0
  BY <1>1, Bounds DEF TypeOK, Ids
<1>4. /\ record[next].state = "none" /\ record[next + 1].state = "none"
      /\ \A i \in Ids : record[i].group # next
  <2>1. next \in Nat /\ \A i \in Ids : record[i].group < next
    BY <1>3 DEF Fresh, Ids
  <2>2. \A i \in Ids : record[i].group \in Nat
    BY Bounds DEF TypeOK, Record
  <2>3. record[next].state = "none" /\ record[next + 1].state = "none"
    BY <1>3, <2>1 DEF Fresh
  <2> QED
    BY <2>1, <2>2, <2>3
<1>5. record \in [Ids -> Record]
  BY DEF TypeOK
<1> QED
  BY <1>1, <1>2, <1>3, <1>4, <1>5 DEF Untouched

\* An amended transfer: all its live rows take the amount that is given.
LEMMA AmendedLegs ==
  ASSUME TypeOK, NEW i \in Ids, NEW amount \in AmountOrNone,
         NEW description \in DescriptionOrNone, NEW relink \in BOOLEAN,
         NEW goal \in ObjectiveOrNone,
         UpdateTransfer(i, amount, description, relink, goal)
  PROVE  \A j \in Ids :
           /\ record'[j].state = record[j].state /\ record'[j].group = record[j].group
           /\ record'[j].origin = record[j].origin
           /\ record'[j].destination = record[j].destination
           /\ record'[j].category = record[j].category
           /\ record'[j].status = record[j].status
           /\ record'[j].amount = IF j \in Legs(i) THEN Given(amount, record[j].amount)
                                  ELSE record[j].amount
<1> SUFFICES ASSUME NEW j \in Ids
             PROVE  /\ record'[j].state = record[j].state /\ record'[j].group = record[j].group
                    /\ record'[j].origin = record[j].origin
                    /\ record'[j].destination = record[j].destination
                    /\ record'[j].category = record[j].category
                    /\ record'[j].status = record[j].status
                    /\ record'[j].amount =
                         IF j \in Legs(i) THEN Given(amount, record[j].amount) ELSE record[j].amount
  OBVIOUS
<1>1. record'[j] = IF j \in Legs(i) THEN Amended(j, amount, description, relink, goal) ELSE record[j]
  BY DEF UpdateTransfer
<1>2. record[j] \in Record
  BY DEF TypeOK
<1> DEFINE a == Amended(j, amount, description, relink, goal)
<1>3. /\ a.state = record[j].state /\ a.group = record[j].group
      /\ a.origin = record[j].origin /\ a.destination = record[j].destination
      /\ a.category = record[j].category /\ a.status = record[j].status
      /\ a.amount = Given(amount, record[j].amount)
  BY <1>2 DEF Amended, Record
<1> QED
  BY <1>1, <1>3

-----------------------------------------------------------------------------
(* The review queue.                                                       *)

\* Every step of the ledger keeps the review queue equal to the rows without category.
LEMMA QueueStep ==
  ASSUME TypeOK, Fresh, QueueIsUncategorized, [Next]_vars
  PROVE  QueueIsUncategorized'
<1> SUFFICES ASSUME NEW i \in Ids, record'[i].state = "live", record'[i].group = 0
             PROVE  record'[i].status = ReviewStatus(record'[i].category)
  BY DEF QueueIsUncategorized, Live
<1>1. CASE PostTransfer
  <2>1. Untouched(i)
    BY <1>1, NewLegs DEF PostTransfer
  <2> QED
    BY <2>1 DEF Untouched, QueueIsUncategorized, Live
<1>2. CASE PatchTransfer
  BY <1>2, AmendedLegs DEF PatchTransfer, QueueIsUncategorized, Live
<1>3. CASE ~ PostTransfer /\ ~ PatchTransfer
  <2>1. Preserved(i)
    BY <1>3, StepKeeps
  <2> QED
    BY <2>1 DEF Preserved, Untouched, Removed, Added, Edited, QueueIsUncategorized, Live
<1> QED
  BY <1>1, <1>2, <1>3

\* Whatever writes a record -- a request, a clone, an import, the chained update --
\* it is in the review queue if and only if it has no category.
THEOREM QueueHolds == Spec => []QueueIsUncategorized
<1>1. Init => QueueIsUncategorized
  <2>1. Init => \A i \in Ids : record[i].state = "none"
    BY UnreadType, Bounds DEF Init, States
  <2> QED
    BY <2>1 DEF QueueIsUncategorized, Live
<1>2. IInv /\ QueueIsUncategorized /\ [Next]_vars => QueueIsUncategorized'
  BY QueueStep DEF IInv
<1> QED
  BY <1>1, <1>2, Invariance, PTL DEF Spec

\* No step of the ledger takes its category from a live row.
LEMMA CategoryStep ==
  ASSUME TypeOK, Fresh, [Next]_vars, NEW i \in Ids,
         record[i].state = "live", record'[i].state = "live", record[i].category # None
  PROVE  record'[i].category # None
<1>1. CASE PostTransfer
  <2>1. Untouched(i)
    BY <1>1, NewLegs DEF PostTransfer
  <2> QED
    BY <2>1 DEF Untouched
<1>2. CASE PatchTransfer
  BY <1>2, AmendedLegs DEF PatchTransfer
<1>3. CASE ~ PostTransfer /\ ~ PatchTransfer
  <2>1. Preserved(i)
    BY <1>3, StepKeeps
  <2> QED
    BY <2>1 DEF Preserved, Untouched, Removed, Added, Edited
<1> QED
  BY <1>1, <1>2, <1>3

\* No request takes the category of a live record away again.
THEOREM CategoryStays == Spec => CategoryNeverLost
<1>1. IInv /\ [Next]_vars =>
        [\A i \in Ids :
           record[i].state = "live" /\ record'[i].state = "live" /\ record[i].category # None
             => record'[i].category # None]_vars
  BY CategoryStep DEF IInv
<1> QED
  BY <1>1, Invariance, PTL DEF Spec, CategoryNeverLost

-----------------------------------------------------------------------------
(* The two legs of a transfer.                                             *)

\* A step leaves two live rows of one transfer in mirror image, unless they were not
\* so before or it is an edit of one of them.
LEMMA PairsStep ==
  ASSUME TypeOK, Fresh, [Next]_vars, NEW i \in Ids, NEW j \in Ids, InPair(i, j)'
  PROVE  \/ Mirror(record'[i], record'[j])
         \/ InPair(i, j) /\ ~ Mirror(record[i], record[j])
         \/ Patched(i) \/ Patched(j)
<1>1. /\ i # j /\ record'[i].state = "live" /\ record'[j].state = "live"
      /\ record'[i].group # 0 /\ record'[j].group = record'[i].group
  BY DEF InPair, Live
<1>2. CASE PostTransfer
  <2>1. PICK source \in Accounts, dest \in Accounts, amount \in Amounts,
             goal \in ObjectiveOrNone, description \in Descriptions, company \in CompanyOrNone :
          CreateTransfer(source, dest, amount, goal, description, company)
    BY <1>2 DEF PostTransfer
  <2>2. None \notin Accounts
    BY Kinds DEF Entities, Patrimony
  <2>3. \A k \in Ids \ {next, next + 1} :
          record'[k] = record[k] /\ record[k].group # next
    BY <2>1, NewLegs DEF Untouched
  <2>4. Mirror(record'[next], record'[next + 1]) /\ Mirror(record'[next + 1], record'[next])
    BY <2>1, <2>2, NewLegs DEF Mirror
  <2>5. record'[next].group = next /\ record'[next + 1].group = next
    BY <2>1, NewLegs
  <2>6. CASE i \in {next, next + 1}
    <3>1. j \in {next, next + 1}
      BY <1>1, <2>3, <2>5, <2>6
    <3> QED
      BY <1>1, <2>4, <2>6, <3>1
  <2>7. CASE i \notin {next, next + 1}
    <3>1. j \notin {next, next + 1}
      BY <1>1, <2>3, <2>5, <2>7
    <3>2. record'[i] = record[i] /\ record'[j] = record[j]
      BY <2>3, <2>7, <3>1
    <3> QED
      BY <1>1, <3>2 DEF InPair, Live
  <2> QED
    BY <2>6, <2>7
<1>3. CASE PatchTransfer
  <2>1. PICK t \in Ids, amount \in AmountOrNone, description \in DescriptionOrNone,
             relink \in BOOLEAN, goal \in ObjectiveOrNone :
          UpdateTransfer(t, amount, description, relink, goal)
    BY <1>3 DEF PatchTransfer
  <2>2. \A k \in Ids :
          /\ record'[k].state = record[k].state /\ record'[k].group = record[k].group
          /\ record'[k].origin = record[k].origin
          /\ record'[k].destination = record[k].destination
          /\ record'[k].amount = IF k \in Legs(t) THEN Given(amount, record[k].amount)
                                 ELSE record[k].amount
    BY <2>1, AmendedLegs
  <2>3. InPair(i, j)
    BY <1>1, <2>2 DEF InPair, Live
  <2>4. i \in Legs(t) <=> j \in Legs(t)
    BY <2>3 DEF Legs, InPair
  <2>5. record[j].amount = record[i].amount => record'[j].amount = record'[i].amount
    BY <2>2, <2>4 DEF Given
  <2> QED
    BY <2>2, <2>3, <2>5 DEF Mirror
<1>4. CASE ~ PostTransfer /\ ~ PatchTransfer
  <2>1. Preserved(i) /\ Preserved(j)
    BY <1>4, StepKeeps
  <2>2. \A k \in {i, j} : Untouched(k) \/ Edited(k)
    BY <1>1, <2>1 DEF Preserved, Removed, Added
  <2>3. \A k \in {i, j} :
          /\ record[k].state = "live" /\ record[k].group = record'[k].group
          /\ record'[k].origin = record[k].origin
          /\ record'[k].destination = record[k].destination
          /\ record'[k].amount = record[k].amount \/ Patched(k)
    BY <1>1, <2>2 DEF Untouched, Edited
  <2>4. InPair(i, j)
    BY <1>1, <2>3 DEF InPair, Live
  <2>5. CASE Patched(i) \/ Patched(j)
    BY <2>5
  <2>6. CASE ~ Patched(i) /\ ~ Patched(j)
    BY <2>3, <2>4, <2>6 DEF Mirror
  <2> QED
    BY <2>5, <2>6
<1> QED
  BY <1>2, <1>3, <1>4

\* A transfer moves money and makes none, until a client edits one of its legs: no
\* other request sets the two rows of a transfer apart.
THEOREM PairsPartOnlyByPatch == Spec => PairsPartByPatch
<1>1. IInv /\ [Next]_vars =>
        [\A i, j \in Ids :
           InPair(i, j)' =>
             \/ Mirror(record'[i], record'[j])
             \/ InPair(i, j) /\ ~ Mirror(record[i], record[j])
             \/ \E k \in {i, j}, f \in Fields, similar \in BOOLEAN : Update(k, f, similar)]_vars
  <2> SUFFICES ASSUME IInv, [Next]_vars, NEW i \in Ids, NEW j \in Ids, InPair(i, j)'
               PROVE  \/ Mirror(record'[i], record'[j])
                      \/ InPair(i, j) /\ ~ Mirror(record[i], record[j])
                      \/ \E k \in {i, j}, f \in Fields, similar \in BOOLEAN :
                           Update(k, f, similar)
    OBVIOUS
  <2>1. TypeOK /\ Fresh
    BY DEF IInv
  <2>2. \/ Mirror(record'[i], record'[j])
        \/ InPair(i, j) /\ ~ Mirror(record[i], record[j])
        \/ Patched(i) \/ Patched(j)
    BY <2>1, PairsStep
  <2> QED
    BY <2>2 DEF Patched
<1> QED
  BY <1>1, Invariance, PTL DEF Spec, PairsPartByPatch

-----------------------------------------------------------------------------
(* The completion of a goal.                                               *)

\* What a step may do to a goal that is live before and after it: neither its
\* balance nor its target moves, or its completion is that of the new figures.
GoalInOrder(o) ==
  balance'[o] # balance[o] \/ target'[o] # target[o]
    => completed'[o] = (balance'[o] >= target'[o])

\* A settlement that touches every goal whose balance it moves keeps goals in order.
LEMMA SettledInOrder ==
  ASSUME TypeOK, NEW delta, NEW touched, Settle(delta, touched), UNCHANGED target,
         NEW o \in Objectives, status[o] = "live", o \in touched \/ delta[o] = 0
  PROVE  GoalInOrder(o)
<1>1. o \in Entities /\ balance[o] \in Int /\ balance'[o] = balance[o] + delta[o]
  BY DEF Settle, TypeOK, Entities
<1>2. CASE o \in touched
  BY <1>1, <1>2 DEF Settle, GoalInOrder
<1>3. CASE delta[o] = 0
  BY <1>1, <1>3 DEF GoalInOrder
<1> QED
  BY <1>2, <1>3

\* A net settlement touches every goal whose balance it moves.
LEMMA NetInOrder ==
  ASSUME TypeOK, NEW delta, SettleNet(delta), UNCHANGED target,
         NEW o \in Objectives, status[o] = "live"
  PROVE  GoalInOrder(o)
BY SettledInOrder DEF SettleNet

\* A sum of zeros is zero.
LEMMA SumOverZeros ==
  ASSUME NEW S \in SUBSET Ids, NEW c \in [Ids -> Int], \A i \in S : c[i] = 0
  PROVE  SumOver(S, c) = 0
<1> DEFINE cc == [i \in Ids |-> IF i \in S THEN c[i] ELSE 0]
<1>1. cc \in [1..MaxRecords -> Int] /\ MaxRecords \in Nat /\ \A i \in 1..MaxRecords : cc[i] = 0
  BY Bounds DEF Ids
<1>2. Total(MaxRecords, cc) = 0
  <2> HIDE DEF cc
  <2> QED
    BY <1>1, TotalZero
<1> QED
  BY <1>2 DEF SumOver

\* A transfer reaches a goal only through the objective of its legs.
LEMMA AdjustedGoal ==
  ASSUME NEW r, NEW o \in Objectives, r.origin \in AccountOrNone,
         r.destination \in AccountOrNone, r.amount \in Nat
  PROVE  Adjusted(r, o) = IF r.objective = o THEN r.amount ELSE 0
<1>1. o # None /\ o \notin Accounts
  BY Kinds DEF Entities
<1>2. r.origin # o /\ r.destination # o
  BY <1>1 DEF AccountOrNone
<1> QED
  BY <1>2 DEF Adjusted, Movement

\* What the proofs use of the type of a record.
LEMMA RecordColumns ==
  ASSUME NEW r \in Record
  PROVE  r.origin \in AccountOrNone /\ r.destination \in AccountOrNone /\ r.amount \in Nat
BY Values DEF Record

\* POST /transfers evaluates the goal it pays into.
LEMMA PostTransferInOrder ==
  ASSUME TypeOK, PostTransfer, NEW o \in Objectives, status[o] = "live"
  PROVE  GoalInOrder(o)
<1>1. PICK source \in Accounts, dest \in Accounts, amount \in Amounts, goal \in ObjectiveOrNone,
           description \in Descriptions, company \in CompanyOrNone :
        CreateTransfer(source, dest, amount, goal, description, company)
  BY DEF PostTransfer
<1> DEFINE origin  == Leg(amount, None, description, company, source, None)
           arrival == Leg(amount, goal, description, company, None, dest)
           delta   == [e \in Entities |-> Adjusted(origin, e) + Adjusted(arrival, e)]
<1>2. Settle(delta, {goal}) /\ UNCHANGED target
  BY <1>1 DEF CreateTransfer
<1>3. o \in {goal} \/ delta[o] = 0
  <2>1. amount \in Nat /\ o # None /\ o \in Entities
    BY Values, Kinds DEF Entities
  <2>2. Adjusted(origin, o) = 0
    BY <2>1, AdjustedGoal DEF Leg, AccountOrNone
  <2>3. Adjusted(arrival, o) = IF goal = o THEN amount ELSE 0
    BY <2>1, AdjustedGoal DEF Leg, AccountOrNone
  <2> QED
    BY <2>1, <2>2, <2>3
<1> QED
  <2> HIDE DEF delta
  <2> QED
    BY <1>2, <1>3, SettledInOrder

\* PATCH /transfers/:id evaluates the goals its legs leave and reach.
LEMMA PatchTransferInOrder ==
  ASSUME TypeOK, PatchTransfer, NEW o \in Objectives, status[o] = "live"
  PROVE  GoalInOrder(o)
<1>1. PICK i \in Ids, amount \in AmountOrNone, description \in DescriptionOrNone,
           relink \in BOOLEAN, goal \in ObjectiveOrNone :
        UpdateTransfer(i, amount, description, relink, goal)
  BY DEF PatchTransfer
<1> DEFINE new     == [j \in Ids |-> Amended(j, amount, description, relink, goal)]
           part(e) == [j \in Ids |-> Adjusted(new[j], e) - Adjusted(record[j], e)]
           delta   == [e \in Entities |-> SumOver(Legs(i), part(e))]
           touched == {record[j].objective : j \in Legs(i)}
                        \cup {new[j].objective : j \in Legs(i)}
<1>2. Settle(delta, touched) /\ UNCHANGED target
  BY <1>1 DEF UpdateTransfer
<1>3. Legs(i) \in SUBSET Ids
  BY DEF Legs
<1>4. \A j \in Ids : new[j] \in Record /\ record[j] \in Record
  BY AmendedType DEF TypeOK
<1>5. \A j \in Ids :
        /\ Adjusted(new[j], o) = IF new[j].objective = o THEN new[j].amount ELSE 0
        /\ Adjusted(record[j], o) = IF record[j].objective = o THEN record[j].amount ELSE 0
        /\ new[j].amount \in Nat /\ record[j].amount \in Nat
  <2> HIDE DEF new
  <2> QED
    BY <1>4, RecordColumns, AdjustedGoal
<1>6. ASSUME o \notin touched PROVE delta[o] = 0
  <2>1. \A j \in Legs(i) : new[j].objective # o /\ record[j].objective # o
    BY <1>6
  <2>2. part(o) \in [Ids -> Int] /\ \A j \in Legs(i) : part(o)[j] = 0
    <3> HIDE DEF new
    <3> QED
      BY <1>3, <1>5, <2>1
  <2>3. SumOver(Legs(i), part(o)) = 0
    <3> HIDE DEF part
    <3> QED
      BY <1>3, <2>2, SumOverZeros
  <2> QED
    BY <2>3 DEF Entities
<1> QED
  <2> HIDE DEF delta, touched
  <2> QED
    BY <1>2, <1>6, SettledInOrder

\* DELETE /transfers/:id evaluates the goals of the legs.
LEMMA RemoveTransferInOrder ==
  ASSUME TypeOK, NEW i \in Ids, RemoveTransfer(i), NEW o \in Objectives, status[o] = "live"
  PROVE  GoalInOrder(o)
<1> DEFINE part(e) == [j \in Ids |-> -Adjusted(record[j], e)]
           delta   == [e \in Entities |-> SumOver(Legs(i), part(e))]
           touched == {record[j].objective : j \in Legs(i)}
<1>1. Settle(delta, touched) /\ UNCHANGED target
  BY DEF RemoveTransfer
<1>2. Legs(i) \in SUBSET Ids /\ \A j \in Ids : record[j] \in Record
  BY DEF Legs, TypeOK
<1>3. \A j \in Ids :
        /\ Adjusted(record[j], o) = IF record[j].objective = o THEN record[j].amount ELSE 0
        /\ record[j].amount \in Nat
  BY <1>2, RecordColumns, AdjustedGoal
<1>4. ASSUME o \notin touched PROVE delta[o] = 0
  <2>1. part(o) \in [Ids -> Int] /\ \A j \in Legs(i) : part(o)[j] = 0
    BY <1>2, <1>3, <1>4
  <2>2. SumOver(Legs(i), part(o)) = 0
    <3> HIDE DEF part
    <3> QED
      BY <1>2, <2>1, SumOverZeros
  <2> QED
    BY <2>2 DEF Entities
<1> QED
  <2> HIDE DEF delta, touched
  <2> QED
    BY <1>1, <1>4, SettledInOrder

\* The steps of /transactions and the bulk operations settle the net change, and a
\* payment touches the goal it pays.
LEMMA RecordsInOrder ==
  ASSUME TypeOK, SingleStep \/ BulkStep \/ PaymentStep, NEW o \in Objectives, status[o] = "live"
  PROVE  GoalInOrder(o)
<1>1. CASE PostTransaction
  BY <1>1, NetInOrder DEF PostTransaction, Create
<1>2. CASE PatchTransaction
  BY <1>2, NetInOrder DEF PatchTransaction, Update
<1>3. CASE CloneTransaction
  BY <1>3, NetInOrder DEF CloneTransaction, Clone
<1>4. CASE DeleteTransaction
  BY <1>4, NetInOrder, RemoveTransferInOrder DEF DeleteTransaction, Remove
<1>5. CASE DeleteTransactions
  BY <1>5, NetInOrder DEF DeleteTransactions, RemoveMany
<1>6. CASE ImportTransactions
  BY <1>6, NetInOrder DEF ImportTransactions, CreateMany
<1>7. CASE PostPayment
  <2>1. PICK g \in Objectives, amount \in Amounts : CreatePayment(g, amount)
    BY <1>7 DEF PostPayment
  <2> DEFINE delta == [e \in Entities |-> IF e = g THEN amount ELSE 0]
  <2>2. Settle(delta, {g}) /\ UNCHANGED target
    BY <2>1 DEF CreatePayment
  <2>3. o \in {g} \/ delta[o] = 0
    BY DEF Entities
  <2> HIDE DEF delta
  <2> QED
    BY <2>2, <2>3, SettledInOrder
<1>8. CASE DeletePayment
  <2>1. PICK p \in Payments : RemovePayment(p)
    BY <1>8 DEF DeletePayment
  <2> DEFINE delta == [e \in Entities |->
                         IF e = payment[p].objective THEN -payment[p].amount ELSE 0]
  <2>2. Settle(delta, {payment[p].objective}) /\ UNCHANGED target
    BY <2>1 DEF RemovePayment
  <2>3. o \in {payment[p].objective} \/ delta[o] = 0
    BY DEF Entities
  <2> HIDE DEF delta
  <2> QED
    BY <2>2, <2>3, SettledInOrder
<1> QED
  BY <1>1, <1>2, <1>3, <1>4, <1>5, <1>6, <1>7, <1>8 DEF SingleStep, BulkStep, PaymentStep

\* An entity that is opened, closed or set by hand leaves the figures of the other
\* goals alone; an update of the goal evaluates it unless it states the completion.
LEMMA EntitiesInOrder ==
  ASSUME TypeOK, EntityStep, NEW o \in Objectives, status[o] = "live", status'[o] = "live",
         ~ \E amount \in Overrides \cup {None}, goal \in Targets \cup {None}, mark \in BOOLEAN :
             UpdateObjective(o, amount, goal, mark)
  PROVE  GoalInOrder(o)
<1>1. /\ balance \in [Entities -> Int] /\ target \in [Objectives -> Int]
      /\ completed \in [Objectives -> BOOLEAN] /\ status \in [Entities -> States]
      /\ o \in Entities /\ o \notin Patrimony
  BY Kinds DEF TypeOK, Entities, Patrimony
<1>2. ASSUME NEW e \in Entities, NEW amount, NEW goal, Open(e, amount, goal)
      PROVE  GoalInOrder(o)
  <2>1. e # o
    BY <1>2 DEF Open
  <2>2. balance'[o] = balance[o]
    BY <1>1, <1>2, <2>1 DEF Open
  <2>3. target'[o] = target[o]
    BY <1>1, <1>2, <2>1 DEF Open, goalVars
  <2> QED
    BY <2>2, <2>3 DEF GoalInOrder
<1>3. ASSUME NEW e \in Entities, Close(e)
      PROVE  GoalInOrder(o)
  <2>1. e # o
    BY <1>1, <1>3 DEF Close
  <2> QED
    BY <1>1, <1>3, <2>1 DEF Close, GoalInOrder
<1>4. ASSUME NEW e \in Patrimony, NEW amount, SetBalance(e, amount)
      PROVE  GoalInOrder(o)
  BY <1>1, <1>4 DEF SetBalance, goalVars, GoalInOrder
<1>5. ASSUME NEW g \in Objectives, NEW amount \in Overrides \cup {None},
             NEW goal \in Targets \cup {None}, NEW mark \in BOOLEAN \cup {None},
             UpdateObjective(g, amount, goal, mark)
      PROVE  GoalInOrder(o)
  <2>1. CASE g # o
    BY <1>1, <1>5, <2>1 DEF UpdateObjective, GoalInOrder
  <2>2. CASE g = o
    <3>1. mark = None
      BY <1>5, <2>2
    <3>2. completed'[o] = (balance'[o] >= target'[o])
      BY <1>1, <1>5, <2>2, <3>1 DEF UpdateObjective
    <3> QED
      BY <3>2 DEF GoalInOrder
  <2> QED
    BY <2>1, <2>2
<1>6. Patrimony \subseteq Entities /\ Objectives \subseteq Entities
      /\ Accounts \subseteq Patrimony /\ Assets \subseteq Patrimony /\ Liabilities \subseteq Patrimony
  BY DEF Entities, Patrimony
<1>7. ASSUME NEW E, E \subseteq Patrimony, Opens(E) \/ Changes(E)
      PROVE  GoalInOrder(o)
  BY <1>2, <1>3, <1>4, <1>6, <1>7 DEF Opens, Changes
<1>8. CASE ObjectiveStep
  BY <1>2, <1>3, <1>5, <1>6, <1>8 DEF ObjectiveStep, Opens
<1> QED
  BY <1>6, <1>7, <1>8 DEF EntityStep, AccountStep, AssetStep, LiabilityStep

\* A step that moves the balance or the target of a live goal decides its
\* completion anew, unless the request states the completion itself.
THEOREM CompletionIsCurrent == Spec => CompletionFollowsBalance
<1>1. TypeOK /\ [Next]_vars =>
        [\A o \in Objectives :
           /\ status[o] = "live" /\ status'[o] = "live"
           /\ balance'[o] # balance[o] \/ target'[o] # target[o]
           /\ ~ \E amount \in Overrides \cup {None}, goal \in Targets \cup {None},
                   mark \in BOOLEAN : UpdateObjective(o, amount, goal, mark)
           => completed'[o] = (balance'[o] >= target'[o])]_vars
  <2> SUFFICES ASSUME TypeOK, Next, NEW o \in Objectives,
                      status[o] = "live", status'[o] = "live",
                      balance'[o] # balance[o] \/ target'[o] # target[o],
                      ~ \E amount \in Overrides \cup {None}, goal \in Targets \cup {None},
                          mark \in BOOLEAN : UpdateObjective(o, amount, goal, mark)
               PROVE  completed'[o] = (balance'[o] >= target'[o])
    OBVIOUS
  <2>1. GoalInOrder(o)
    <3>1. CASE SingleStep \/ BulkStep \/ PaymentStep
      BY <3>1, RecordsInOrder
    <3>2. CASE TransferStep
      BY <3>2, PostTransferInOrder, PatchTransferInOrder, RemoveTransferInOrder
      DEF TransferStep, DeleteTransfer
    <3>3. CASE EntityStep
      BY <3>3, EntitiesInOrder
    <3> QED
      BY <3>1, <3>2, <3>3 DEF Next
  <2> QED
    BY <2>1 DEF GoalInOrder
<1> QED
  BY <1>1, TypeCorrect, PTL DEF Spec, CompletionFollowsBalance
=============================================================================
