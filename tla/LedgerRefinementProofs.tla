----------------------- MODULE LedgerRefinementProofs -----------------------
(***************************************************************************)
(* One request at a time, its statements run one by one, implements Ledger,*)
(* where a request is a single step.  Each request carries out a plan from *)
(* its first statement to its commit (Promise), and what a commit leaves   *)
(* of the plan is a step of Ledger.                                        *)
(***************************************************************************)
EXTENDS LedgerRacesProofs

-----------------------------------------------------------------------------
(* What a request is about to do to the books: a plan.                     *)

\* The rows it leaves of those it found, the rows and payments it adds, the payments
\* it removes, the goals whose completion it decides and the balances it states.
Plan(rows, fresh, gone, paid, touched, hand) ==
  [rows |-> rows, fresh |-> fresh, gone |-> gone, paid |-> paid,
   touched |-> touched, hand |-> hand]

\* The goals with a net change.
Goals(delta) == {o \in Objectives : delta[o] # 0}

Adding(rows, delta)   == Plan(<< >>, rows, {}, << >>, Goals(delta), << >>)
Leaving(rows, touched) == Plan(rows, << >>, {}, << >>, touched, << >>)

Blanked(ids) == [j \in ids |-> Unread("deleted", record[j].group)]

Gained(row)     == [e \in Entities |-> Collected(row, e)]
Changed(row, i) == [e \in Entities |-> Collected(row, e) - Collected(record[i], e)]
Lost(ids)       == [e \in Entities |-> SumOver(ids, [i \in Ids |-> - Collected(record[i], e)])]
LostOne(i)      == [e \in Entities |-> - Collected(record[i], e)]
Rows(batch)     == [k \in 1..Len(batch) |-> Plain(batch[k], None)]
Imports(rows) ==
  [e \in Entities |-> Total(Len(rows), [k \in 1..Len(rows) |-> Collected(rows[k], e)])]

\* Each kind of request, with what its handler has checked.
Creating(pl) ==
  \E f \in Fields :
    /\ LinksExist(f) /\ Allowed(0, f)
    /\ pl = Adding(<<Plain(f, None)>>, Gained(Plain(f, None)))

Importing(pl) ==
  \E batch \in Batches :
    /\ \A k \in 1..Len(batch) : LinksExist(batch[k])
    /\ pl = Adding(Rows(batch), Imports(Rows(batch)))

Copy(i, amount) == Cloned(i, amount, None, None, None)

Copying(pl) ==
  \E i \in Ids, amount \in AmountOrNone :
    Live(i) /\ pl = Adding(<<Copy(i, amount)>>, Gained(Copy(i, amount)))

Updating(pl) ==
  \E i \in Ids, f \in Fields :
    /\ Live(i) /\ LinksExist(f) /\ Allowed(record[i].group, f)
    /\ pl = Leaving([j \in {i} |-> Merged(i, f)], Goals(Changed(Merged(i, f), i)))

Undoing(pl) ==
  \E i \in Ids :
    IsTransfer(i) /\ pl = Leaving(Blanked(Legs(i)), {record[j].objective : j \in Legs(i)})

Removing(pl) ==
  \E i \in Ids :
    /\ Live(i) /\ record[i].group = 0
    /\ pl = Leaving(Blanked({i}), Goals(LostOne(i)))

RemovingMany(pl) ==
  \E ids \in SUBSET Ids :
    /\ \E i \in ids : Live(i)
    /\ pl = Leaving(Blanked(Doomed(ids)), Goals(Lost(Doomed(ids))))

SomeText == CHOOSE d \in Descriptions : TRUE
Origin(amount, source)      == Leg(amount, None, SomeText, None, source, None)
Arrival(amount, goal, dest) == Leg(amount, goal, SomeText, None, None, dest)

Transferring(pl) ==
  \E source, dest \in Accounts, amount \in Amounts, goal \in ObjectiveOrNone :
    /\ source # dest /\ status[source] = "live" /\ status[dest] = "live" /\ Exists(goal)
    /\ pl = Plan(<< >>, <<Origin(amount, source), Arrival(amount, goal, dest)>>,
                 {}, << >>, {goal}, << >>)

Amend(i, amount, relink, goal) ==
  [j \in Legs(i) |-> Amended(j, amount, None, relink, goal)]

Amending(pl) ==
  \E i \in Ids, amount \in AmountOrNone, relink \in BOOLEAN, goal \in ObjectiveOrNone :
    /\ IsTransfer(i) /\ Exists(goal)
    /\ pl = Leaving(Amend(i, amount, relink, goal),
                    {record[j].objective : j \in Legs(i)}
                      \cup {Amended(j, amount, None, relink, goal).objective : j \in Legs(i)})

Instalment(o, amount) == [state |-> "live", objective |-> o, amount |-> amount]

Paying(pl) ==
  \E o \in Objectives, amount \in Amounts :
    status[o] = "live" /\ pl = Plan(<< >>, << >>, {}, <<Instalment(o, amount)>>, {o}, << >>)

Unpaying(pl) ==
  \E k \in Payments :
    /\ payment[k].state = "live"
    /\ pl = Plan(<< >>, << >>, {k}, << >>, {payment[k].objective}, << >>)

Stated(e, amount) == IF amount = None THEN << >> ELSE [x \in {e} |-> amount]

Editing(pl) ==
  \E e \in Entities, amount \in Overrides \cup {None} :
    status[e] = "live" /\ pl = Plan(<< >>, << >>, {}, << >>, {e}, Stated(e, amount))

Intended(pl) ==
  \/ Creating(pl) \/ Importing(pl) \/ Copying(pl) \/ Updating(pl)
  \/ Undoing(pl) \/ Removing(pl) \/ RemovingMany(pl)
  \/ Transferring(pl) \/ Amending(pl) \/ Paying(pl) \/ Unpaying(pl) \/ Editing(pl)

-----------------------------------------------------------------------------
(* What a request has written, and what it has left to do, carry a plan out.*)

\* A statement about a row puts there what the plan leaves.
RowServed(s, pl) ==
  /\ s.do \in {"save", "update", "drop"} => s.id \in DOMAIN pl.rows
  /\ s.do \in {"save", "update"} => s.row = pl.rows[s.id]
  /\ s.do = "update" => \A c \in DOMAIN s.row \ s.columns : record[s.id][c] = s.row[c]
  /\ s.do = "drop" => pl.rows[s.id] = Unread("deleted", record[s.id].group)

\* The rows of the plan, and no others, are written or are to be, but where nothing changes.
RowsCarried(p, pl) ==
  /\ \A i \in DOMAIN pl.rows : i \in Ids /\ i < next
  /\ \A s \in Left(p) : RowServed(s, pl)
  /\ \A i \in Ids : Row(i) \in DOMAIN work[p] =>
                      i \in DOMAIN pl.rows /\ work[p][Row(i)] = pl.rows[i]
  /\ \A i \in DOMAIN pl.rows :
       \/ pl.rows[i] = record[i] \/ Row(i) \in DOMAIN work[p]
       \/ \E s \in Left(p) : Row(i) \in Pending(s)

\* Rows are inserted first, in the order of the plan.
NewCarried(p, pl) ==
  /\ Len(pl.fresh) \in Nat
  /\ Len(new[p]) <= Len(pl.fresh)
  /\ \A k \in 1..Len(new[p]) : new[p][k] = pl.fresh[k]
  /\ \A k \in 1..Len(todo[p]) :
       /\ todo[p][k].do = "insert" <=> Len(new[p]) + k <= Len(pl.fresh)
       /\ todo[p][k].do = "insert" => todo[p][k].row = pl.fresh[Len(new[p]) + k]

\* Payments are removed and added as planned, the latter first.
PayCarried(p, pl) ==
  /\ \A k \in Payments :
       k \in pl.gone <=> \/ Abono(k) \in DOMAIN work[p]
                         \/ \E s \in Left(p) : s.do = "unpay" /\ s.id = k
  /\ \/ newPay[p] = pl.paid /\ \A s \in Left(p) : s.do # "pay"
     \/ /\ newPay[p] = << >> /\ todo[p] # << >> /\ todo[p][1].do = "pay"
        /\ pl.paid = <<todo[p][1].row>>

\* A figure written of e: of a live entity, with its completion decided anew, and by
\* hand only where the plan states it.
Proven(e, figure, pl) ==
  /\ status[e] = "live"
  /\ figure.completed = Reached(e, figure.balance)
  /\ e \in Objectives => e \in pl.touched
  /\ figure.byHand => e \in DOMAIN pl.hand /\ figure.balance = pl.hand[e]

MoneyServed(s, pl) ==
  /\ s.do = "write" => Proven(s.on, s.figure, pl) /\ (s.figure.byHand => s.counted)
  /\ s.do = "adjust" /\ s.on \in Objectives => s.on \in pl.touched

\* The goals of the plan, and no others, are written or are to be, but where nothing changes.
MoneyCarried(p, pl) ==
  /\ \A e \in Entities : Entity(e) \in DOMAIN work[p] => Proven(e, work[p][Entity(e)], pl)
  /\ \A s \in Left(p) : MoneyServed(s, pl)
  /\ \A o \in Objectives \cap pl.touched : status[o] = "live" =>
       \/ Entity(o) \in DOMAIN work[p]
       \/ \E s \in Left(p) : s.do \in {"adjust", "write"} /\ s.on = o
       \/ completed[o] = (balance[o] >= target[o])
  /\ \A e \in DOMAIN pl.hand : e \in Entities /\
       (\/ Entity(e) \in DOMAIN work[p] /\ work[p][Entity(e)].byHand
        \/ \E s \in Left(p) : s.do = "write" /\ s.on = e /\ s.figure.byHand)

Carried(p, pl) ==
  RowsCarried(p, pl) /\ NewCarried(p, pl) /\ PayCarried(p, pl) /\ MoneyCarried(p, pl)

\* Every request under way carries out a plan.
Promise == \A p \in Requests : Running(p) => \E pl : Intended(pl) /\ Carried(p, pl)

-----------------------------------------------------------------------------
(* One statement.                                                          *)

\* Rows stay on the way to their plan.
LEMMA RowsMoved ==
  ASSUME NEW p, NEW pl, RowsCarried(p, pl), record' = record, next' = next,
         \A s \in Left(p)' : s \in Left(p) \/ RowServed(s, pl),
         \A i \in Ids : Row(i) \in DOMAIN work'[p] =>
           \/ Row(i) \in DOMAIN work[p] /\ work'[p][Row(i)] = work[p][Row(i)]
           \/ i \in DOMAIN pl.rows /\ work'[p][Row(i)] = pl.rows[i],
         \A i \in Ids : Row(i) \in DOMAIN work[p] => Row(i) \in DOMAIN work'[p],
         \A i \in DOMAIN pl.rows, s \in Left(p) : Row(i) \in Pending(s) =>
           \/ pl.rows[i] = record[i] \/ Row(i) \in DOMAIN work'[p]
           \/ \E t \in Left(p)' : Row(i) \in Pending(t)
  PROVE  RowsCarried(p, pl)'
<1>1. \A s : RowServed(s, pl)' <=> RowServed(s, pl)
  BY DEF RowServed
<1>2. \A s \in Left(p)' : RowServed(s, pl)'
  BY <1>1 DEF RowsCarried
<1>3. \A i \in DOMAIN pl.rows : i \in Ids /\ i < next
  BY DEF RowsCarried
<1>4. \A i \in Ids : Row(i) \in DOMAIN work'[p] =>
         i \in DOMAIN pl.rows /\ work'[p][Row(i)] = pl.rows[i]
  BY DEF RowsCarried
<1>5. ASSUME NEW i \in DOMAIN pl.rows
      PROVE  \/ pl.rows[i] = record[i] \/ Row(i) \in DOMAIN work'[p]
             \/ \E s \in Left(p)' : Row(i) \in Pending(s)
  <2>1. CASE Row(i) \in DOMAIN work[p]
    BY <1>3, <1>5, <2>1
  <2>2. CASE \E s \in Left(p) : Row(i) \in Pending(s)
    BY <1>5, <2>2
  <2> QED
    BY <1>5, <2>1, <2>2 DEF RowsCarried
<1>6. \A i : \A s : (Row(i) \in Pending(s))' <=> Row(i) \in Pending(s)
  BY DEF Pending
<1> QED
  BY <1>2, <1>3, <1>4, <1>5, <1>6 DEF RowsCarried

\* Money stays on the way to its plan.
LEMMA MoneyMoved ==
  ASSUME NEW p, NEW pl, MoneyCarried(p, pl), UNCHANGED vars,
         \A s \in Left(p)' : s \in Left(p) \/ MoneyServed(s, pl),
         \A e \in Entities : Entity(e) \in DOMAIN work'[p] =>
           \/ Entity(e) \in DOMAIN work[p] /\ work'[p][Entity(e)] = work[p][Entity(e)]
           \/ Proven(e, work'[p][Entity(e)], pl),
         \A o \in Objectives \cap pl.touched : status[o] = "live" =>
           \/ Entity(o) \in DOMAIN work'[p]
           \/ \E s \in Left(p)' : s.do \in {"adjust", "write"} /\ s.on = o
           \/ completed[o] = (balance[o] >= target[o]),
         \A e \in DOMAIN pl.hand : 
           \/ Entity(e) \in DOMAIN work'[p] /\ work'[p][Entity(e)].byHand
           \/ \E s \in Left(p)' : s.do = "write" /\ s.on = e /\ s.figure.byHand
  PROVE  MoneyCarried(p, pl)'
<1>0. status' = status /\ balance' = balance /\ completed' = completed /\ target' = target
  BY Unmoved
<1>1. \A e, f : Proven(e, f, pl)' <=> Proven(e, f, pl)
  BY <1>0 DEF Proven, Reached
<1>2. \A s : MoneyServed(s, pl)' <=> MoneyServed(s, pl)
  BY <1>1 DEF MoneyServed
<1>3. \A s \in Left(p)' : MoneyServed(s, pl)'
  BY <1>2 DEF MoneyCarried
<1>4. PICK now : now = work'[p]
  OBVIOUS
<1>5. \A e \in Entities : Entity(e) \in DOMAIN now => Proven(e, now[Entity(e)], pl)
  BY <1>4 DEF MoneyCarried
<1>6. \A e \in Entities : Entity(e) \in DOMAIN now => Proven(e, now[Entity(e)], pl)'
  BY <1>1, <1>5
<1>7. \A e \in DOMAIN pl.hand : e \in Entities
  BY DEF MoneyCarried
<1> QED
  BY <1>0, <1>3, <1>4, <1>6, <1>7 DEF MoneyCarried

\* Payments stay on the way to their plan.
LEMMA PayMoved ==
  ASSUME NEW p, NEW pl, PayCarried(p, pl),
         \A k \in Payments :
           (Abono(k) \in DOMAIN work'[p] \/ \E s \in Left(p)' : s.do = "unpay" /\ s.id = k)
             <=> (Abono(k) \in DOMAIN work[p] \/ \E s \in Left(p) : s.do = "unpay" /\ s.id = k),
         newPay'[p] = pl.paid /\ \A s \in Left(p)' : s.do # "pay"
  PROVE  PayCarried(p, pl)'
<1>1. \A k \in Payments :
        k \in pl.gone <=> \/ Abono(k) \in DOMAIN work'[p]
                          \/ \E s \in Left(p)' : s.do = "unpay" /\ s.id = k
  BY DEF PayCarried
<1> QED
  BY <1>1 DEF PayCarried

\* The rows a request inserts first, when its next statement inserts one or does something else.
LEMMA NewMoved ==
  ASSUME RaceTypes, NEW p \in Requests, NEW pl, NewCarried(p, pl), Len(pl.fresh) \in Nat,
         Ordered(p), todo[p] # << >>, todo'[p] = Tail(todo[p]),
         IF Head(todo[p]).do = "insert" THEN new'[p] = Append(new[p], Head(todo[p]).row)
         ELSE new'[p] = new[p]
  PROVE  NewCarried(p, pl)'
<1>1. PICK list \in Seq(Statements) : list = todo[p]
  BY DEF RaceTypes
<1>2. PICK rows \in Seq(Draft) : rows = new[p]
  BY DEF RaceTypes
<1>3. PICK rest : rest = Tail(list)
  OBVIOUS
<1>4. /\ Len(rest) = Len(list) - 1 /\ Len(list) \in Nat /\ Len(rows) \in Nat
      /\ \A k \in 1..Len(rest) : k + 1 \in 1..Len(list) /\ rest[k] = list[k+1]
      /\ Head(list) = list[1] /\ 1 \in 1..Len(list)
  BY <1>1, <1>2, <1>3, HeadFacts
<1>5. /\ Len(rows) <= Len(pl.fresh)
      /\ \A k \in 1..Len(rows) : rows[k] = pl.fresh[k]
      /\ \A k \in 1..Len(list) :
           /\ list[k].do = "insert" <=> Len(rows) + k <= Len(pl.fresh)
           /\ list[k].do = "insert" => list[k].row = pl.fresh[Len(rows) + k]
  BY <1>1, <1>2 DEF NewCarried
<1>6. CASE list[1].do = "insert"
  <2>1. PICK row \in Draft : row = list[1].row
    <3>1. list[1] \in Statements
      BY <1>1, <1>4
    <3> QED
      BY <1>6, <3>1, StatementParts
  <2>2. PICK now \in Seq(Draft) : now = Append(rows, row)
    <3>1. Append(rows, row) \in Seq(Draft)
      OBVIOUS
    <3> QED
      BY <3>1
  <2>3. /\ Len(now) = Len(rows) + 1 /\ now[Len(rows) + 1] = row
        /\ \A k \in 1..Len(rows) : now[k] = rows[k]
    BY <1>2, <2>1, <2>2
  <2>4. row = pl.fresh[Len(rows) + 1] /\ Len(rows) + 1 <= Len(pl.fresh)
    BY <1>4, <1>5, <1>6, <2>1
  <2>5. ASSUME NEW k \in 1..Len(now) PROVE now[k] = pl.fresh[k]
    <3>1. k = Len(rows) + 1 \/ k \in 1..Len(rows)
      BY <1>4, <2>3, <2>5
    <3> QED
      BY <1>5, <2>3, <2>4, <3>1
  <2>6. ASSUME NEW k \in 1..Len(rest)
        PROVE  /\ rest[k].do = "insert" <=> Len(now) + k <= Len(pl.fresh)
               /\ rest[k].do = "insert" => rest[k].row = pl.fresh[Len(now) + k]
    <3>0. k \in Nat /\ k + 1 \in 1..Len(list) /\ rest[k] = list[k+1]
      BY <1>4, <2>6
    <3>1. Len(rows) + (k + 1) = Len(now) + k
      BY <1>4, <2>3, <3>0
    <3> QED
      BY <1>5, <3>0, <3>1
  <2>7. new'[p] = now /\ todo'[p] = rest
    BY <1>1, <1>2, <1>3, <1>4, <1>6, <2>1, <2>2
  <2> QED
    BY <2>3, <2>4, <2>5, <2>6, <2>7 DEF NewCarried
<1>7. CASE list[1].do # "insert"
  <2>1. Len(rows) + 1 > Len(pl.fresh)
    BY <1>4, <1>5, <1>7
  <2>2. ASSUME NEW k \in 1..Len(rest)
        PROVE  /\ rest[k].do = "insert" <=> Len(rows) + k <= Len(pl.fresh)
               /\ rest[k].do = "insert" => rest[k].row = pl.fresh[Len(rows) + k]
    <3>1. k + 1 \in 1..Len(list) /\ rest[k] = list[k+1]
      BY <1>4, <2>2
    <3>2. k \in Nat /\ k >= 1 /\ Len(rows) \in Nat
      BY <1>4
    <3>3. rest[k].do = "insert" <=> Len(rows) + (k + 1) <= Len(pl.fresh)
      BY <1>5, <3>1
    <3>4. ~ (Len(rows) + k <= Len(pl.fresh)) /\ ~ (Len(rows) + (k + 1) <= Len(pl.fresh))
      BY <2>1, <3>2
    <3> QED
      BY <3>3, <3>4
  <2>3. new'[p] = rows /\ todo'[p] = rest
    BY <1>1, <1>2, <1>3, <1>4, <1>7
  <2> QED
    BY <1>5, <2>2, <2>3 DEF NewCarried
<1> QED
  BY <1>6, <1>7

\* The same for a statement that inserts nothing.
LEMMA NewLetBe ==
  ASSUME RaceTypes, NEW p \in Requests, NEW pl, Carried(p, pl), Ordered(p), todo[p] # << >>,
         todo'[p] = Tail(todo[p]), Head(todo[p]).do # "insert", new'[p] = new[p]
  PROVE  NewCarried(p, pl)'
<1>1. NewCarried(p, pl)
  BY DEF Carried
<1>2. Len(pl.fresh) \in Nat
  BY <1>1 DEF NewCarried
<1>3. IF Head(todo[p]).do = "insert" THEN new'[p] = Append(new[p], Head(todo[p]).row)
      ELSE new'[p] = new[p]
  OBVIOUS
<1> QED
  BY <1>1, <1>2, <1>3, NewMoved

\* What a plan inserts is a list.
LEMMA NewHeld ==
  ASSUME NEW p, NEW pl, Carried(p, pl)
  PROVE  NewCarried(p, pl) /\ Len(pl.fresh) \in Nat
BY DEF Carried, NewCarried

\* The same when it is replaced by another that inserts nothing.
LEMMA NewReplaced ==
  ASSUME RaceTypes, NEW p \in Requests, NEW pl, NewCarried(p, pl), Len(pl.fresh) \in Nat,
         Ordered(p), todo[p] # << >>, NEW x \in Statements, todo'[p] = Before(x, Tail(todo[p])),
         Head(todo[p]).do # "insert", x.do # "insert", new'[p] = new[p]
  PROVE  NewCarried(p, pl)'
<1>1. PICK list \in Seq(Statements) : list = todo[p]
  BY DEF RaceTypes
<1>2. PICK rows \in Seq(Draft) : rows = new[p]
  BY DEF RaceTypes
<1>3. PICK rest : rest = Tail(list)
  OBVIOUS
<1>4. /\ Len(rest) = Len(list) - 1 /\ Len(list) \in Nat /\ Len(rows) \in Nat
      /\ rest \in Seq(Statements)
      /\ \A k \in 1..Len(rest) : k + 1 \in 1..Len(list) /\ rest[k] = list[k+1]
      /\ Head(list) = list[1] /\ 1 \in 1..Len(list)
  BY <1>1, <1>2, <1>3, HeadFacts
<1>5. /\ Len(rows) <= Len(pl.fresh)
      /\ \A k \in 1..Len(rows) : rows[k] = pl.fresh[k]
      /\ \A k \in 1..Len(list) :
           /\ list[k].do = "insert" <=> Len(rows) + k <= Len(pl.fresh)
           /\ list[k].do = "insert" => list[k].row = pl.fresh[Len(rows) + k]
  BY <1>1, <1>2 DEF NewCarried
<1>6. PICK now : now = Before(x, rest)
  OBVIOUS
<1>7. /\ Len(now) = Len(list) /\ now[1] = x
      /\ \A k \in 1..Len(now) : k # 1 => now[k] = rest[k-1] /\ k - 1 \in 1..Len(rest)
  BY <1>4, <1>6, Prefixed
<1>8. ~ (Len(rows) + 1 <= Len(pl.fresh))
  BY <1>1, <1>4, <1>5
<1>9. ASSUME NEW k \in 1..Len(now)
      PROVE  now[k].do # "insert" /\ ~ (Len(rows) + k <= Len(pl.fresh))
  <2>1. CASE k = 1
    BY <1>7, <1>8, <2>1
  <2>2. CASE k # 1
    <3>1. k - 1 \in 1..Len(rest) /\ now[k] = rest[k-1]
      BY <1>7, <1>9, <2>2
    <3>2. (k - 1) + 1 = k
      BY <1>4
    <3>3. k \in 1..Len(list) /\ now[k] = list[k]
      BY <1>4, <3>1, <3>2
    <3> QED
      BY <1>4, <1>5, <1>8, <3>3
  <2> QED
    BY <2>1, <2>2
<1>10. new'[p] = rows /\ todo'[p] = now
  BY <1>1, <1>2, <1>3, <1>6
<1> QED
  BY <1>5, <1>9, <1>10 DEF NewCarried

\* What a request has left once its next statement is done or replaced, and of its figures
\* what it had.
Onwards(p, x) ==
  \/ todo'[p] = Tail(todo[p])
  \/ x \in Statements /\ todo'[p] = Before(x, Tail(todo[p]))

\* What is left after a statement: what was, but that one, and what replaces it.
LEMMA LeftOnwards ==
  ASSUME RaceInv, NEW p \in Requests, Executing(p), NEW x, Onwards(p, x)
  PROVE  /\ Left(p)' \subseteq {x} \cup Left(p)
         /\ Left(p) \subseteq {Head(todo[p])} \cup Left(p)'
         /\ Head(todo[p]) \in Left(p)
         /\ todo'[p] = Tail(todo[p]) => Left(p)' \subseteq Left(p)
<1>1. RaceTypes /\ Ordered(p) /\ todo[p] # << >>
  BY Starting DEF Executing
<1>2. Head(todo[p]) \in Left(p)
  <2>1. Head(todo[p]) = todo[p][1] /\ 1 \in 1..Len(todo[p])
    BY <1>1, HeadFacts
  <2> QED
    BY <2>1 DEF Left
<1>3. CASE todo'[p] = Tail(todo[p])
  BY <1>1, <1>2, <1>3, LeftDone
<1>4. CASE x \in Statements /\ todo'[p] = Before(x, Tail(todo[p]))
  <2>1. /\ Left(p)' \subseteq {x} \cup Left(p)
        /\ Left(p) \subseteq {Head(todo[p])} \cup Left(p)'
    BY <1>1, <1>4, LeftReplaced
  <2>2. todo'[p] = Tail(todo[p]) => Left(p)' \subseteq Left(p)
    BY <1>1, LeftDone
  <2> QED
    BY <1>2, <2>1, <2>2
<1> QED
  BY <1>3, <1>4 DEF Onwards

\* A replacing statement is among what is left.
LEMMA LeftHas ==
  ASSUME RaceInv, NEW p \in Requests, Executing(p), NEW x \in Statements,
         todo'[p] = Before(x, Tail(todo[p]))
  PROVE  x \in Left(p)'
<1>1. PICK rest \in Seq(Statements) : rest = Tail(todo[p])
  BY Starting DEF Executing
<1>2. PICK now : now = Before(x, rest)
  OBVIOUS
<1>3. now[1] = x /\ Len(now) = Len(rest) + 1 /\ Len(rest) \in Nat
  <2>1. (Before(x, rest))[1] = x /\ Len(Before(x, rest)) = Len(rest) + 1
    BY <1>1, Prefixed
  <2>2. Len(rest) \in Nat
    BY <1>1
  <2> QED
    BY <1>2, <2>1, <2>2
<1>4. 1 \in 1..Len(now)
  BY <1>3
<1>5. todo'[p] = now
  BY <1>1, <1>2
<1> QED
  BY <1>3, <1>4, <1>5 DEF Left

AboutRows  == {"save", "update", "drop"}
AboutMoney == {"adjust", "write"}
AboutPay   == {"pay", "unpay"}

\* A statement that writes no row.
LEMMA RowsLetBe ==
  ASSUME RaceInv, NEW p \in Requests, Executing(p), NEW pl, RowsCarried(p, pl),
         NEW x, Onwards(p, x), Head(todo[p]).do \notin AboutRows, x.do \notin AboutRows,
         \A i \in Ids : /\ Row(i) \in DOMAIN work'[p] <=> Row(i) \in DOMAIN work[p]
                        /\ Row(i) \in DOMAIN work[p] => work'[p][Row(i)] = work[p][Row(i)]
  PROVE  RowsCarried(p, pl)'
<1>1. record' = record /\ next' = next
  BY Unmoved DEF Executing
<1>2. /\ Left(p)' \subseteq {x} \cup Left(p)
      /\ Left(p) \subseteq {Head(todo[p])} \cup Left(p)'
  BY LeftOnwards
<1>3. RowServed(x, pl)
  BY DEF RowServed, AboutRows
<1>4. \A i \in Ids : Row(i) \notin Pending(Head(todo[p]))
  BY Keys DEF Pending, AboutRows
<1>5. \A i \in DOMAIN pl.rows, s \in Left(p) : Row(i) \in Pending(s) =>
        \E t \in Left(p)' : Row(i) \in Pending(t)
  BY <1>2, <1>4 DEF RowsCarried
<1> QED
  BY <1>1, <1>2, <1>3, <1>5, RowsMoved

\* A statement that writes no balance.
LEMMA MoneyLetBe ==
  ASSUME RaceInv, NEW p \in Requests, Executing(p), NEW pl, MoneyCarried(p, pl),
         NEW x, Onwards(p, x), Head(todo[p]).do \notin AboutMoney, x.do \notin AboutMoney,
         \A e \in Entities : /\ Entity(e) \in DOMAIN work'[p] <=> Entity(e) \in DOMAIN work[p]
                             /\ Entity(e) \in DOMAIN work[p] => work'[p][Entity(e)] = work[p][Entity(e)]
  PROVE  MoneyCarried(p, pl)'
<1>1. UNCHANGED vars
  BY DEF Executing
<1>2. /\ Left(p)' \subseteq {x} \cup Left(p)
      /\ Left(p) \subseteq {Head(todo[p])} \cup Left(p)'
  BY LeftOnwards
<1>3. MoneyServed(x, pl)
  BY DEF MoneyServed, AboutMoney
<1>4. \A o \in Objectives : o \in Entities
  BY DEF Entities
<1>5. \A s \in Left(p) : s.do \in AboutMoney => s \in Left(p)'
  BY <1>2
<1>6. ASSUME NEW o \in Objectives \cap pl.touched, status[o] = "live"
      PROVE  \/ Entity(o) \in DOMAIN work'[p]
             \/ \E s \in Left(p)' : s.do \in {"adjust", "write"} /\ s.on = o
             \/ completed[o] = (balance[o] >= target[o])
  BY <1>4, <1>5, <1>6 DEF MoneyCarried, AboutMoney
<1>7. ASSUME NEW e \in DOMAIN pl.hand
      PROVE  \/ Entity(e) \in DOMAIN work'[p] /\ work'[p][Entity(e)].byHand
             \/ \E s \in Left(p)' : s.do = "write" /\ s.on = e /\ s.figure.byHand
  BY <1>5, <1>7 DEF MoneyCarried, AboutMoney
<1> QED
  BY <1>1, <1>2, <1>3, <1>6, <1>7, MoneyMoved

\* A statement that neither adds nor removes a payment.
LEMMA PayLetBe ==
  ASSUME RaceInv, NEW p \in Requests, Executing(p), NEW pl, PayCarried(p, pl),
         NEW x, Onwards(p, x), Head(todo[p]).do \notin AboutPay, x.do \notin AboutPay,
         \A k \in Payments : Abono(k) \in DOMAIN work'[p] <=> Abono(k) \in DOMAIN work[p],
         newPay'[p] = newPay[p]
  PROVE  PayCarried(p, pl)'
<1>1. /\ Left(p)' \subseteq {x} \cup Left(p)
      /\ Left(p) \subseteq {Head(todo[p])} \cup Left(p)'
  BY LeftOnwards
<1>2. Head(todo[p]) = todo[p][1]
  BY Starting, HeadFacts DEF Executing
<1>3. newPay[p] = pl.paid /\ \A s \in Left(p) : s.do # "pay"
  BY <1>2 DEF PayCarried, AboutPay
<1>4. \A s : s.do = "unpay" => (s \in Left(p) <=> s \in Left(p)')
  BY <1>1 DEF AboutPay
<1>5. \A k \in Payments :
        (Abono(k) \in DOMAIN work'[p] \/ \E s \in Left(p)' : s.do = "unpay" /\ s.id = k)
          <=> (Abono(k) \in DOMAIN work[p] \/ \E s \in Left(p) : s.do = "unpay" /\ s.id = k)
  BY <1>4
<1>6. \A s \in Left(p)' : s.do # "pay"
  BY <1>1, <1>3 DEF AboutPay
<1> QED
  BY <1>3, <1>5, <1>6, PayMoved

\* A lock of something else leaves the figures and the payments as they are.
LEMMA OthersAside ==
  ASSUME NEW p \in Requests, DOMAIN work = Requests, NEW key, NEW value, Lock(p, key, value)
  PROVE  /\ (\A e \in Entities : key # Entity(e)) =>
              \A e \in Entities : /\ Entity(e) \in DOMAIN work'[p] <=> Entity(e) \in DOMAIN work[p]
                                  /\ Entity(e) \in DOMAIN work[p] =>
                                       work'[p][Entity(e)] = work[p][Entity(e)]
         /\ (\A k \in Payments : key # Abono(k)) =>
              \A k \in Payments : Abono(k) \in DOMAIN work'[p] <=> Abono(k) \in DOMAIN work[p]
<1>1. PICK now : now = work'[p]
  OBVIOUS
<1>2. /\ DOMAIN now = DOMAIN work[p] \cup {key}
      /\ \A k \in DOMAIN work[p] : k # key => now[k] = work[p][k]
  BY <1>1, LockFacts
<1> QED
  BY <1>1, <1>2

\* An inserted row.
LEMMA InsertCarried ==
  ASSUME RaceInv, NEW p \in Requests, Executing(p), NEW pl, Carried(p, pl),
         Inserts(p, Head(todo[p]))
  PROVE  Carried(p, pl)'
<1>1. /\ RaceTypes /\ Ordered(p) /\ todo[p] # << >> /\ DOMAIN todo = Requests
      /\ new \in [Requests -> Seq(Draft)]
  BY Starting DEF Executing
<1>2. PICK s : s = Head(todo[p])
  OBVIOUS
<1>3. /\ s.do = "insert" /\ todo'[p] = Tail(todo[p]) /\ work' = work /\ newPay' = newPay
      /\ new'[p] = Append(new[p], s.row)
  BY <1>1, <1>2, DoneFacts DEF Inserts
<1>4. Onwards(p, s) /\ s.do \notin AboutRows /\ s.do \notin AboutMoney /\ s.do \notin AboutPay
  BY <1>3 DEF Onwards, AboutRows, AboutMoney, AboutPay
<1>5. RowsCarried(p, pl)' /\ MoneyCarried(p, pl)' /\ PayCarried(p, pl)'
  BY <1>2, <1>3, <1>4, RowsLetBe, MoneyLetBe, PayLetBe DEF Carried
<1>6. NewCarried(p, pl)'
  <2>1. NewCarried(p, pl) /\ Len(pl.fresh) \in Nat
    BY NewHeld
  <2>2. /\ todo'[p] = Tail(todo[p]) /\ Head(todo[p]).do = "insert"
        /\ new'[p] = Append(new[p], Head(todo[p]).row)
    BY <1>2, <1>3
  <2> QED
    BY <1>1, <2>1, <2>2, NewMoved
<1> QED
  BY <1>5, <1>6 DEF Carried

\* A registered payment.
LEMMA PaymentCarried ==
  ASSUME RaceInv, NEW p \in Requests, Executing(p), NEW pl, Carried(p, pl),
         Pays(p, Head(todo[p]))
  PROVE  Carried(p, pl)'
<1>1. /\ RaceTypes /\ Ordered(p) /\ todo[p] # << >> /\ DOMAIN todo = Requests
      /\ newPay \in [Requests -> Seq(Payment)]
  BY Starting DEF Executing
<1>2. PICK s : s = Head(todo[p])
  OBVIOUS
<1>3. /\ s.do = "pay" /\ todo'[p] = Tail(todo[p]) /\ work' = work /\ new' = new
      /\ newPay'[p] = Append(newPay[p], s.row)
  BY <1>1, <1>2, DoneFacts DEF Pays
<1>4. Onwards(p, s) /\ s.do \notin AboutRows /\ s.do \notin AboutMoney
  BY <1>3 DEF Onwards, AboutRows, AboutMoney
<1>5. RowsCarried(p, pl)' /\ MoneyCarried(p, pl)'
  BY <1>2, <1>3, <1>4, RowsLetBe, MoneyLetBe DEF Carried
<1>6. NewCarried(p, pl)'
  <2>1. todo'[p] = Tail(todo[p]) /\ Head(todo[p]).do # "insert" /\ new'[p] = new[p]
    BY <1>2, <1>3
  <2> QED
    BY <1>1, <2>1, NewLetBe
<1>7. s = todo[p][1] /\ s \in Left(p) /\ s \in Statements
  BY <1>1, <1>2, <1>4, HeadFacts, LeftOnwards
<1>8. newPay[p] = << >> /\ pl.paid = <<s.row>>
  BY <1>3, <1>7 DEF Carried, PayCarried
<1>9. newPay'[p] = pl.paid
  <2>1. PICK row \in Payment : row = s.row
    BY <1>3, <1>7, StatementParts
  <2>2. Append(<< >>, row) = <<row>>
    OBVIOUS
  <2> QED
    BY <1>3, <1>8, <2>1, <2>2
<1>10. Left(p)' \subseteq Left(p) /\ Left(p) \subseteq {s} \cup Left(p)'
  BY <1>2, <1>3, <1>4, LeftOnwards
<1>11. \A t \in Left(p)' : t.do # "pay"
  <2>1. \A k \in 1..Len(todo'[p]) : todo'[p][k].do # "pay"
    <3>1. \A k \in 1..Len(Tail(todo[p])) :
            k + 1 \in 1..Len(todo[p]) /\ Tail(todo[p])[k] = todo[p][k+1] /\ k + 1 # 1
      BY <1>1, HeadFacts
    <3>2. \A k \in 1..Len(todo[p]) : todo[p][k].do = "pay" => k = 1
      BY <1>1 DEF Ordered
    <3> QED
      BY <1>3, <3>1, <3>2
  <2> QED
    BY <2>1 DEF Left
<1>12. \A t : t.do = "unpay" => (t \in Left(p) <=> t \in Left(p)')
  BY <1>3, <1>10
<1>13. PayCarried(p, pl)'
  BY <1>3, <1>9, <1>11, <1>12, PayMoved DEF Carried
<1> QED
  BY <1>5, <1>6, <1>13 DEF Carried

\* A removed payment.
LEMMA UnpaymentCarried ==
  ASSUME RaceInv, NEW p \in Requests, Executing(p), NEW pl, Carried(p, pl),
         Unpays(p, Head(todo[p]))
  PROVE  Carried(p, pl)'
<1>1. /\ RaceTypes /\ Ordered(p) /\ todo[p] # << >> /\ DOMAIN todo = Requests /\ DOMAIN work = Requests
  BY Starting DEF Executing
<1>2. PICK s : s = Head(todo[p])
  OBVIOUS
<1>3. /\ s.do = "unpay" /\ todo'[p] = Tail(todo[p]) /\ new' = new /\ newPay' = newPay
      /\ Lock(p, Abono(s.id), NoPayment("deleted"))
  BY <1>1, <1>2, DoneFacts DEF Unpays
<1>4. Onwards(p, s) /\ s.do \notin AboutRows /\ s.do \notin AboutMoney
  BY <1>3 DEF Onwards, AboutRows, AboutMoney
<1>5. RowsCarried(p, pl)'
  <2>1. \A i \in Ids : Abono(s.id) # Row(i)
    BY Keys
  <2>2. \A i \in Ids : /\ Row(i) \in DOMAIN work'[p] <=> Row(i) \in DOMAIN work[p]
                       /\ Row(i) \in DOMAIN work[p] => work'[p][Row(i)] = work[p][Row(i)]
    BY <1>1, <1>3, <2>1, RowsAside
  <2> QED
    BY <1>2, <1>3, <1>4, <2>2, RowsLetBe DEF Carried
<1>6. MoneyCarried(p, pl)'
  <2>1. \A e \in Entities : Abono(s.id) # Entity(e)
    BY Keys
  <2>2. \A e \in Entities : /\ Entity(e) \in DOMAIN work'[p] <=> Entity(e) \in DOMAIN work[p]
                            /\ Entity(e) \in DOMAIN work[p] => work'[p][Entity(e)] = work[p][Entity(e)]
    BY <1>1, <1>3, <2>1, OthersAside
  <2> QED
    BY <1>2, <1>3, <1>4, <2>2, MoneyLetBe DEF Carried
<1>7. NewCarried(p, pl)'
  <2>1. todo'[p] = Tail(todo[p]) /\ Head(todo[p]).do # "insert" /\ new'[p] = new[p]
    BY <1>2, <1>3
  <2> QED
    BY <1>1, <2>1, NewLetBe
<1>8. s \in Left(p) /\ s = todo[p][1]
  BY <1>1, <1>2, <1>4, HeadFacts, LeftOnwards
<1>9. Left(p)' \subseteq Left(p) /\ Left(p) \subseteq {s} \cup Left(p)'
  BY <1>2, <1>3, <1>4, LeftOnwards
<1>10. newPay'[p] = pl.paid /\ \A t \in Left(p)' : t.do # "pay"
  BY <1>3, <1>8, <1>9 DEF Carried, PayCarried
<1>11. PICK now : now = work'[p]
  OBVIOUS
<1>12. DOMAIN now = DOMAIN work[p] \cup {Abono(s.id)}
  BY <1>1, <1>3, <1>11, LockFacts
<1>13. \A k \in Payments :
        (Abono(k) \in DOMAIN now \/ \E t \in Left(p)' : t.do = "unpay" /\ t.id = k)
          <=> (Abono(k) \in DOMAIN work[p] \/ \E t \in Left(p) : t.do = "unpay" /\ t.id = k)
  BY <1>3, <1>8, <1>9, <1>12, Keys
<1>14. PayCarried(p, pl)'
  BY <1>10, <1>11, <1>13, PayMoved DEF Carried
<1> QED
  BY <1>5, <1>6, <1>7, <1>14 DEF Carried

\* A row written as the plan leaves it.
LEMMA RowCarried ==
  ASSUME RaceInv, NEW p \in Requests, Executing(p), NEW pl, Carried(p, pl),
         NEW i \in Ids, i \in DOMAIN pl.rows, Lock(p, Row(i), pl.rows[i]),
         Head(todo[p]).do \in AboutRows, Head(todo[p]).id = i, todo'[p] = Tail(todo[p]),
         new' = new, newPay' = newPay
  PROVE  Carried(p, pl)'
<1>1. /\ RaceTypes /\ Ordered(p) /\ todo[p] # << >> /\ DOMAIN todo = Requests /\ DOMAIN work = Requests
      /\ record' = record /\ next' = next
  BY Starting, Unmoved DEF Executing
<1>2. PICK s : s = Head(todo[p])
  OBVIOUS
<1>3. Onwards(p, s) /\ s.do \notin AboutPay /\ s.do \notin AboutMoney /\ s.do # "insert"
  BY <1>2 DEF Onwards, AboutRows, AboutMoney, AboutPay
<1>4. Left(p)' \subseteq Left(p) /\ Left(p) \subseteq {s} \cup Left(p)'
  BY <1>2, <1>3, LeftOnwards
<1>5. PICK now : now = work'[p]
  OBVIOUS
<1>6. /\ DOMAIN now = DOMAIN work[p] \cup {Row(i)} /\ now[Row(i)] = pl.rows[i]
      /\ \A k \in DOMAIN work[p] : k # Row(i) => now[k] = work[p][k]
  BY <1>1, <1>5, LockFacts
<1>7. \A j \in Ids : Row(j) \in DOMAIN now =>
         \/ Row(j) \in DOMAIN work[p] /\ now[Row(j)] = work[p][Row(j)]
         \/ j \in DOMAIN pl.rows /\ now[Row(j)] = pl.rows[j]
  BY <1>6, Keys
<1>8. \A j \in Ids : Row(j) \in DOMAIN work[p] => Row(j) \in DOMAIN now
  BY <1>6
<1>9. \A j \in DOMAIN pl.rows, t \in Left(p) : Row(j) \in Pending(t) =>
        Row(j) \in DOMAIN now \/ \E u \in Left(p)' : Row(j) \in Pending(u)
  <2>1. ASSUME NEW j, Row(j) \in Pending(s) PROVE Row(j) \in DOMAIN now
    BY <1>2, <1>6, <2>1 DEF Pending, AboutRows
  <2> QED
    BY <1>4, <2>1
<1>10. RowsCarried(p, pl)'
  BY <1>1, <1>4, <1>5, <1>7, <1>8, <1>9, RowsMoved DEF Carried
<1>11. MoneyCarried(p, pl)' /\ PayCarried(p, pl)'
  <2>1. /\ \A e \in Entities : Row(i) # Entity(e)
        /\ \A k \in Payments : Row(i) # Abono(k)
    BY Keys
  <2>2. \A e \in Entities : /\ Entity(e) \in DOMAIN work'[p] <=> Entity(e) \in DOMAIN work[p]
                            /\ Entity(e) \in DOMAIN work[p] => work'[p][Entity(e)] = work[p][Entity(e)]
    BY <1>1, <2>1, OthersAside
  <2>3. \A k \in Payments : Abono(k) \in DOMAIN work'[p] <=> Abono(k) \in DOMAIN work[p]
    BY <1>1, <2>1, OthersAside
  <2> QED
    BY <1>2, <1>3, <2>2, <2>3, MoneyLetBe, PayLetBe DEF Carried
<1>12. NewCarried(p, pl)'
  <2>1. todo'[p] = Tail(todo[p]) /\ Head(todo[p]).do # "insert" /\ new'[p] = new[p]
    BY <1>2, <1>3
  <2> QED
    BY <1>1, <2>1, NewLetBe
<1> QED
  BY <1>10, <1>11, <1>12 DEF Carried

\* What a request finds of a row it is about to write is what is committed.
LEMMA RowFound ==
  ASSUME RaceInv, NEW p \in Requests, Executing(p), Head(todo[p]).do \in AboutRows
  PROVE  /\ Head(todo[p]).id \in Ids
         /\ OwnRecord(p, Head(todo[p]).id) = record[Head(todo[p]).id]
<1>1. RaceTypes /\ Ordered(p) /\ Once(p) /\ todo[p] # << >>
  BY Starting DEF Executing
<1>2. PICK s \in Statements : s = Head(todo[p])
  BY <1>1, Starting
<1>3. Row(s.id) \in Pending(Head(todo[p]))
  BY <1>2 DEF Pending, AboutRows
<1>4. s.id \in Ids
  BY <1>2, StatementParts DEF AboutRows
<1>5. Row(s.id) \notin DOMAIN work[p]
  BY <1>1, <1>3, HeadPending
<1> QED
  BY <1>2, <1>4, <1>5 DEF OwnRecord

\* A deleted row.
LEMMA DropCarried ==
  ASSUME RaceInv, NEW p \in Requests, Executing(p), NEW pl, Carried(p, pl),
         Drops(p, Head(todo[p]))
  PROVE  Carried(p, pl)'
<1>1. DOMAIN todo = Requests /\ todo[p] # << >>
  BY Starting DEF Executing
<1>2. PICK s : s = Head(todo[p])
  OBVIOUS
<1>3. s.do = "drop" /\ s.do \in AboutRows
  BY <1>2 DEF Drops, AboutRows
<1>4. s.id \in Ids /\ OwnRecord(p, s.id) = record[s.id]
  BY <1>2, <1>3, RowFound
<1>5. /\ Lock(p, Row(s.id), Unread("deleted", record[s.id].group))
      /\ todo'[p] = Tail(todo[p]) /\ new' = new /\ newPay' = newPay
  BY <1>1, <1>2, <1>4, DoneFacts DEF Drops
<1>6. s \in Left(p)
  BY <1>2, <1>5, LeftOnwards DEF Onwards
<1>7. s.id \in DOMAIN pl.rows /\ pl.rows[s.id] = Unread("deleted", record[s.id].group)
  BY <1>3, <1>6 DEF Carried, RowsCarried, RowServed
<1> QED
  BY <1>2, <1>3, <1>4, <1>5, <1>7, RowCarried

\* A saved row.
LEMMA UpdateCarried ==
  ASSUME RaceInv, NEW p \in Requests, Executing(p), NEW pl, Carried(p, pl),
         Updates(p, Head(todo[p]))
  PROVE  Carried(p, pl)'
<1>1. RaceTypes /\ DOMAIN todo = Requests /\ todo[p] # << >>
  BY Starting DEF Executing
<1>2. PICK s \in Statements : s = Head(todo[p]) /\ Fit(p, s)
  BY <1>1, Starting
<1>3. s.do = "update" /\ s.do \in AboutRows
  BY <1>2 DEF Updates, AboutRows
<1>4. s.id \in Ids /\ OwnRecord(p, s.id) = record[s.id]
  BY <1>2, <1>3, RowFound
<1>5. PICK r \in Record : r = s.row
  BY <1>2, <1>3, StatementParts
<1>6. PICK old \in Record : old = record[s.id]
  BY <1>1, <1>4, RaceTypeParts
<1>7. PICK row : row = [c \in DOMAIN old |-> IF c \in s.columns THEN r[c] ELSE old[c]]
  OBVIOUS
<1>8. todo'[p] = Tail(todo[p]) /\ new' = new /\ newPay' = newPay
      /\ Lock(p, Row(s.id), IF row.state = "live" THEN row ELSE Unread("deleted", row.group))
  <2>1. /\ Lock(p, Row(s.id), IF row.state = "live" THEN row ELSE Unread("deleted", row.group))
        /\ Done(p) /\ UNCHANGED <<new, newPay>>
    BY <1>2, <1>4, <1>5, <1>6, <1>7 DEF Updates
  <2> QED
    BY <1>1, <2>1, DoneFacts
<1>9. s \in Left(p)
  BY <1>2, <1>8, LeftOnwards DEF Onwards
<1>10. /\ s.id \in DOMAIN pl.rows /\ r = pl.rows[s.id]
       /\ \A c \in DOMAIN r \ s.columns : old[c] = r[c]
  BY <1>3, <1>5, <1>6, <1>9 DEF Carried, RowsCarried, RowServed
<1>11. row = r
  <2>0. row \in Record
    BY <1>7, MixedRow
  <2>1. \A c \in DOMAIN r : row[c] = IF c \in s.columns THEN r[c] ELSE old[c]
    BY <1>7, MixedRow
  <2>2. \A c \in DOMAIN r : r[c] = row[c]
    BY <1>10, <2>1
  <2> QED
    BY <2>0, <2>2, SameRow
<1>12. r.state = "live"
  BY <1>2, <1>3, <1>5 DEF Fit
<1>13. Lock(p, Row(s.id), pl.rows[s.id])
  BY <1>8, <1>10, <1>11, <1>12
<1> QED
  BY <1>2, <1>3, <1>4, <1>8, <1>10, <1>13, RowCarried

\* A row that is compared with what is stored.
LEMMA CompareCarried ==
  ASSUME RaceInv, NEW p \in Requests, Executing(p), NEW pl, Carried(p, pl),
         Compares(p, Head(todo[p]))
  PROVE  Carried(p, pl)'
<1>1. /\ RaceTypes /\ Files /\ Ordered(p) /\ todo[p] # << >>
      /\ DOMAIN todo = Requests /\ DOMAIN work = Requests /\ record' = record /\ next' = next
  BY Starting, Unmoved DEF Executing, RaceInv
<1>2. PICK s \in Statements : s = Head(todo[p]) /\ Fit(p, s)
  BY <1>1, Starting
<1>3. s.do = "save" /\ s.do \in AboutRows /\ s.do \notin AboutMoney /\ s.do \notin AboutPay
      /\ s.do # "insert" /\ work' = work /\ new' = new /\ newPay' = newPay
  BY <1>2 DEF Compares, AboutRows, AboutMoney, AboutPay
<1>4. s.id \in Ids /\ OwnRecord(p, s.id) = record[s.id]
  BY <1>2, <1>3, RowFound
<1>5. PICK C : C = s.stated \cup {c \in DOMAIN s.row : s.row[c] # record[s.id][c]}
  OBVIOUS
<1>6. PICK x : x = [do |-> "update", id |-> s.id, row |-> s.row, columns |-> C]
  OBVIOUS
<1>7. x \in Statements /\ (C = {} => s.row = record[s.id])
  BY <1>1, <1>2, <1>3, <1>5, <1>6, CompareFit
<1>8. x.do = "update" /\ x.id = s.id /\ x.row = s.row /\ x.columns = C
  BY <1>6
<1>9. \/ C = {} /\ todo'[p] = Tail(todo[p])
      \/ todo'[p] = Before(x, Tail(todo[p]))
  <2>1. IF C = {} THEN Done(p) ELSE Replace(p, x)
    BY <1>2, <1>3, <1>4, <1>5, <1>6 DEF Compares
  <2> QED
    BY <1>1, <2>1, DoneFacts, ReplaceFacts
<1>10. Onwards(p, x) /\ x.do \notin AboutMoney /\ x.do \notin AboutPay /\ x.do # "insert"
  BY <1>7, <1>8, <1>9 DEF Onwards, AboutMoney, AboutPay
<1>11. /\ Left(p)' \subseteq {x} \cup Left(p)
       /\ Left(p) \subseteq {s} \cup Left(p)' /\ s \in Left(p)
  BY <1>2, <1>10, LeftOnwards
<1>12. s.id \in DOMAIN pl.rows /\ s.row = pl.rows[s.id]
  BY <1>3, <1>11 DEF Carried, RowsCarried, RowServed
<1>13. RowServed(x, pl)
  <2>1. \A c \in DOMAIN x.row \ x.columns : record[x.id][c] = x.row[c]
    BY <1>5, <1>8
  <2> QED
    BY <1>8, <1>12, <2>1 DEF RowServed
<1>14. Pending(s) = {Row(s.id)} /\ Pending(x) = {Row(s.id)}
  BY <1>3, <1>8 DEF Pending
<1>15. \A j \in DOMAIN pl.rows, t \in Left(p) : Row(j) \in Pending(t) =>
         pl.rows[j] = record[j] \/ \E u \in Left(p)' : Row(j) \in Pending(u)
  <2>1. ASSUME NEW j \in DOMAIN pl.rows, Row(j) \in Pending(s)
        PROVE  pl.rows[j] = record[j] \/ \E u \in Left(p)' : Row(j) \in Pending(u)
    <3>1. j = s.id
      BY <1>14, <2>1, Keys
    <3>2. CASE C = {}
      BY <1>7, <1>12, <3>1, <3>2
    <3>3. CASE todo'[p] = Before(x, Tail(todo[p]))
      <4>1. x \in Left(p)'
        BY <1>7, <3>3, LeftHas
      <4> QED
        BY <1>14, <3>1, <4>1
    <3> QED
      BY <1>9, <3>2, <3>3
  <2> QED
    BY <1>11, <2>1
<1>16. RowsCarried(p, pl)'
  BY <1>1, <1>3, <1>11, <1>13, <1>15, RowsMoved DEF Carried
<1>17. MoneyCarried(p, pl)' /\ PayCarried(p, pl)'
  BY <1>2, <1>3, <1>10, MoneyLetBe, PayLetBe DEF Carried
<1>18. NewCarried(p, pl)'
  <2>1. NewCarried(p, pl)
    BY DEF Carried
  <2>2. Len(pl.fresh) \in Nat
    BY <2>1 DEF NewCarried
  <2>3. CASE todo'[p] = Tail(todo[p])
    <3>1. Head(todo[p]).do # "insert" /\ new'[p] = new[p]
      BY <1>2, <1>3
    <3> QED
      BY <1>1, <2>3, <3>1, NewLetBe
  <2>4. CASE todo'[p] = Before(x, Tail(todo[p]))
    BY <1>1, <1>2, <1>3, <1>7, <1>10, <2>1, <2>2, <2>4, NewReplaced
  <2> QED
    BY <1>9, <2>3, <2>4
<1> QED
  BY <1>16, <1>17, <1>18 DEF Carried

\* A balance that is read.
LEMMA ReadCarried ==
  ASSUME RaceInv, NEW p \in Requests, Executing(p), NEW pl, Carried(p, pl),
         Reads(p, Head(todo[p]))
  PROVE  Carried(p, pl)'
<1>1. /\ RaceTypes /\ Imaged(p) /\ Ordered(p) /\ todo[p] # << >> /\ UNCHANGED vars
      /\ DOMAIN todo = Requests /\ DOMAIN work = Requests
  BY Starting DEF Executing
<1>2. PICK s \in Statements : s = Head(todo[p])
  BY <1>1, Starting
<1>3. s.do = "adjust" /\ s.do \notin AboutRows /\ s.do \notin AboutPay
      /\ s.do # "insert" /\ work' = work /\ new' = new /\ newPay' = newPay
  BY <1>2 DEF Reads, AboutRows, AboutPay
<1>4. s.on \in Entities /\ s.by \in Int
  BY <1>2, <1>3, StatementParts
<1>5. PICK total \in Int : total = OwnFigure(p, s.on).balance + s.by
  <2>1. OwnFigure(p, s.on) \in Figures
    BY <1>1, <1>4, FigureType
  <2>2. OwnFigure(p, s.on).balance + s.by \in Int
    BY <1>4, <2>1 DEF Figures
  <2> QED
    BY <2>2
<1>6. PICK f : f = Figure(total, Reached(s.on, total), FALSE)
  OBVIOUS
<1>7. f \in Figures /\ f.completed = Reached(s.on, f.balance) /\ f.byHand = FALSE
  <2>1. Reached(s.on, total) \in BOOLEAN
    BY DEF Reached
  <2> QED
    BY <1>5, <1>6, <2>1 DEF Figure, Figures
<1>8. PICK x : x = Write(s.on, f, TRUE)
  OBVIOUS
<1>9. x.do = "write" /\ x.on = s.on /\ x.figure = f /\ x.counted = TRUE
  BY <1>8 DEF Write
<1>10. x \in Statements /\ x.do \notin AboutRows /\ x.do \notin AboutPay /\ x.do # "insert"
  <2>1. x \in Statements
    BY <1>4, <1>7, <1>8, StatementKinds
  <2> QED
    BY <1>9, <2>1 DEF AboutRows, AboutPay
<1>11. \/ status[s.on] # "live" /\ todo'[p] = Tail(todo[p])
       \/ status[s.on] = "live" /\ todo'[p] = Before(x, Tail(todo[p]))
  <2>1. IF status[s.on] = "live" THEN Replace(p, x) ELSE Done(p)
    BY <1>2, <1>3, <1>5, <1>6, <1>8 DEF Reads
  <2> QED
    BY <1>1, <2>1, DoneFacts, ReplaceFacts
<1>12. Onwards(p, x)
  BY <1>10, <1>11 DEF Onwards
<1>13. /\ Left(p)' \subseteq {x} \cup Left(p)
       /\ Left(p) \subseteq {s} \cup Left(p)' /\ s \in Left(p)
  BY <1>2, <1>12, LeftOnwards
<1>14. status[s.on] = "live" => x \in Left(p)' /\ MoneyServed(x, pl)
  <2>1. status[s.on] = "live" => x \in Left(p)'
    BY <1>10, <1>11, LeftHas
  <2>2. s.on \in Objectives => s.on \in pl.touched
    BY <1>3, <1>13 DEF Carried, MoneyCarried, MoneyServed
  <2>3. status[s.on] = "live" => Proven(s.on, f, pl)
    BY <1>7, <2>2 DEF Proven
  <2> QED
    BY <1>7, <1>9, <2>1, <2>3 DEF MoneyServed
<1>15. MoneyCarried(p, pl)'
  <2>1. \A t \in Left(p)' : t \in Left(p) \/ MoneyServed(t, pl)
    <3>1. status[s.on] # "live" => Left(p)' \subseteq Left(p)
      BY <1>11, <1>12, LeftOnwards
    <3> QED
      BY <1>13, <1>14, <3>1
  <2>2. ASSUME NEW o \in Objectives \cap pl.touched, status[o] = "live"
        PROVE  \/ Entity(o) \in DOMAIN work[p]
               \/ \E t \in Left(p)' : t.do \in {"adjust", "write"} /\ t.on = o
               \/ completed[o] = (balance[o] >= target[o])
    <3>1. CASE \E t \in Left(p) : t.do \in {"adjust", "write"} /\ t.on = o
      <4>1. PICK t \in Left(p) : t.do \in {"adjust", "write"} /\ t.on = o
        BY <3>1
      <4>2. CASE t = s
        BY <1>9, <1>14, <2>2, <4>1, <4>2
      <4> QED
        BY <1>13, <4>1, <4>2
    <3> QED
      BY <2>2, <3>1 DEF Carried, MoneyCarried
  <2>3. ASSUME NEW e \in DOMAIN pl.hand
        PROVE  \/ Entity(e) \in DOMAIN work[p] /\ work[p][Entity(e)].byHand
               \/ \E t \in Left(p)' : t.do = "write" /\ t.on = e /\ t.figure.byHand
    BY <1>3, <1>13, <2>3 DEF Carried, MoneyCarried
  <2> QED
    BY <1>1, <1>3, <2>1, <2>2, <2>3, MoneyMoved DEF Carried
<1>16. RowsCarried(p, pl)' /\ PayCarried(p, pl)'
  BY <1>2, <1>3, <1>10, <1>12, RowsLetBe, PayLetBe DEF Carried
<1>17. NewCarried(p, pl)'
  <2>1. CASE todo'[p] = Tail(todo[p])
    <3>1. Head(todo[p]).do # "insert" /\ new'[p] = new[p]
      BY <1>2, <1>3
    <3> QED
      BY <1>1, <2>1, <3>1, NewLetBe
  <2>2. CASE todo'[p] = Before(x, Tail(todo[p]))
    <3>1. NewCarried(p, pl) /\ Len(pl.fresh) \in Nat
      BY NewHeld
    <3>2. /\ Head(todo[p]).do # "insert" /\ x.do # "insert" /\ x \in Statements
          /\ new'[p] = new[p]
      BY <1>2, <1>3, <1>10
    <3> QED
      BY <1>1, <2>2, <3>1, <3>2, NewReplaced
  <2> QED
    BY <1>11, <2>1, <2>2
<1> QED
  BY <1>15, <1>16, <1>17 DEF Carried

\* A balance that is written, or is found to be there.
LEMMA WriteCarried ==
  ASSUME RaceInv, NEW p \in Requests, Executing(p), NEW pl, Carried(p, pl),
         Writes(p, Head(todo[p]))
  PROVE  Carried(p, pl)'
<1>1. /\ RaceTypes /\ Imaged(p) /\ Ordered(p) /\ todo[p] # << >> /\ UNCHANGED vars
      /\ DOMAIN todo = Requests /\ DOMAIN work = Requests
  BY Starting DEF Executing
<1>2. PICK s \in Statements : s = Head(todo[p])
  BY <1>1, Starting
<1>3. s.do = "write" /\ s.do \notin AboutRows /\ s.do \notin AboutPay
      /\ s.do # "insert" /\ new' = new /\ newPay' = newPay /\ todo'[p] = Tail(todo[p])
  BY <1>1, <1>2, DoneFacts DEF Writes, AboutRows, AboutPay
<1>4. s.on \in Entities /\ s.figure \in Figures
  BY <1>2, <1>3, StatementParts
<1>5. Onwards(p, s)
  BY <1>3 DEF Onwards
<1>6. Left(p)' \subseteq Left(p) /\ Left(p) \subseteq {s} \cup Left(p)' /\ s \in Left(p)
  BY <1>2, <1>3, <1>5, LeftOnwards
<1>7. Proven(s.on, s.figure, pl) /\ (s.figure.byHand => s.counted)
  BY <1>3, <1>6 DEF Carried, MoneyCarried, MoneyServed
<1>8. \/ work' = work /\ ~ s.counted /\ OwnFigure(p, s.on) = s.figure
      \/ Lock(p, Entity(s.on), s.figure)
  <2>1. Needs(p) = IF ~ s.counted /\ OwnFigure(p, s.on) = s.figure THEN {} ELSE {Entity(s.on)}
    BY <1>1, <1>2, <1>3 DEF Needs, Running
  <2>2. IF Needs(p) = {} THEN UNCHANGED work ELSE Lock(p, Entity(s.on), s.figure)
    BY <1>2 DEF Writes
  <2> QED
    BY <2>1, <2>2
<1>9. MoneyCarried(p, pl)'
  <2>1. CASE work' = work /\ ~ s.counted /\ OwnFigure(p, s.on) = s.figure
    <3>1. ASSUME NEW o \in Objectives \cap pl.touched, status[o] = "live"
          PROVE  \/ Entity(o) \in DOMAIN work[p]
                 \/ \E t \in Left(p)' : t.do \in {"adjust", "write"} /\ t.on = o
                 \/ completed[o] = (balance[o] >= target[o])
      <4>1. CASE s.on = o /\ Entity(o) \notin DOMAIN work[p]
        <5>1. s.figure = Committed(o)
          BY <2>1, <4>1 DEF OwnFigure
        <5>2. s.figure.balance = balance[o] /\ s.figure.completed = (o \in Objectives /\ completed[o])
          BY <5>1 DEF Committed, Figure
        <5>3. (o \in Objectives /\ completed[o]) = (o \in Objectives /\ balance[o] >= target[o])
          BY <1>7, <4>1, <5>2 DEF Proven, Reached
        <5>4. completed[o] \in BOOLEAN
          BY <1>1, <3>1 DEF RaceTypes, TypeOK
        <5> QED
          BY <3>1, <5>3, <5>4
      <4>2. CASE \E t \in Left(p) : t.do \in {"adjust", "write"} /\ t.on = o
        BY <1>6, <4>1, <4>2
      <4> QED
        BY <3>1, <4>2 DEF Carried, MoneyCarried
    <3>2. ASSUME NEW e \in DOMAIN pl.hand
          PROVE  \/ Entity(e) \in DOMAIN work[p] /\ work[p][Entity(e)].byHand
                 \/ \E t \in Left(p)' : t.do = "write" /\ t.on = e /\ t.figure.byHand
      BY <1>6, <1>7, <2>1, <3>2 DEF Carried, MoneyCarried
    <3> QED
      BY <1>1, <1>6, <2>1, <3>1, <3>2, MoneyMoved DEF Carried
  <2>2. CASE Lock(p, Entity(s.on), s.figure)
    <3>1. PICK now : now = work'[p]
      OBVIOUS
    <3>2. /\ DOMAIN now = DOMAIN work[p] \cup {Entity(s.on)} /\ now[Entity(s.on)] = s.figure
          /\ \A k \in DOMAIN work[p] : k # Entity(s.on) => now[k] = work[p][k]
      BY <1>1, <2>2, <3>1, LockFacts
    <3>3. ASSUME NEW e \in Entities, Entity(e) \in DOMAIN now
          PROVE  \/ Entity(e) \in DOMAIN work[p] /\ now[Entity(e)] = work[p][Entity(e)]
                 \/ Proven(e, now[Entity(e)], pl)
      <4>1. CASE e = s.on
        BY <1>7, <3>2, <4>1
      <4>2. CASE e # s.on
        BY <3>2, <3>3, <4>2, Keys
      <4> QED
        BY <4>1, <4>2
    <3>4. ASSUME NEW o \in Objectives \cap pl.touched, status[o] = "live"
          PROVE  \/ Entity(o) \in DOMAIN now
                 \/ \E t \in Left(p)' : t.do \in {"adjust", "write"} /\ t.on = o
                 \/ completed[o] = (balance[o] >= target[o])
      BY <1>6, <3>2, <3>4 DEF Carried, MoneyCarried
    <3>5. ASSUME NEW e \in DOMAIN pl.hand
          PROVE  \/ Entity(e) \in DOMAIN now /\ now[Entity(e)].byHand
                 \/ \E t \in Left(p)' : t.do = "write" /\ t.on = e /\ t.figure.byHand
      <4>1. CASE \E t \in Left(p) : t.do = "write" /\ t.on = e /\ t.figure.byHand
        BY <1>6, <3>2, <4>1
      <4>2. CASE Entity(e) \in DOMAIN work[p] /\ work[p][Entity(e)].byHand
        <5>1. CASE e = s.on
          <6>1. OwnFigure(p, s.on) = work[p][Entity(e)]
            BY <4>2, <5>1 DEF OwnFigure
          <6>2. OwnFigure(p, s.on).byHand = FALSE
            BY <1>1, <1>2, <1>3, <1>4, NoHand
          <6> QED
            BY <4>2, <6>1, <6>2
        <5>2. CASE e # s.on
          BY <3>2, <4>2, <5>2, Keys
        <5> QED
          BY <5>1, <5>2
      <4> QED
        BY <3>5, <4>1, <4>2 DEF Carried, MoneyCarried
    <3> QED
      BY <1>1, <1>6, <3>1, <3>3, <3>4, <3>5, MoneyMoved DEF Carried
  <2> QED
    BY <1>8, <2>1, <2>2
<1>10. RowsCarried(p, pl)' /\ PayCarried(p, pl)'
  <2>1. /\ \A i \in Ids : Entity(s.on) # Row(i)
        /\ \A k \in Payments : Entity(s.on) # Abono(k)
    BY Keys
  <2>2. \A i \in Ids : /\ Row(i) \in DOMAIN work'[p] <=> Row(i) \in DOMAIN work[p]
                       /\ Row(i) \in DOMAIN work[p] => work'[p][Row(i)] = work[p][Row(i)]
    BY <1>1, <1>8, <2>1, RowsAside
  <2>3. \A k \in Payments : Abono(k) \in DOMAIN work'[p] <=> Abono(k) \in DOMAIN work[p]
    BY <1>1, <1>8, <2>1, OthersAside
  <2> QED
    BY <1>2, <1>3, <1>5, <2>2, <2>3, RowsLetBe, PayLetBe DEF Carried
<1>11. NewCarried(p, pl)'
  <2>1. todo'[p] = Tail(todo[p]) /\ Head(todo[p]).do # "insert" /\ new'[p] = new[p]
    BY <1>2, <1>3
  <2> QED
    BY <1>1, <2>1, NewLetBe
<1> QED
  BY <1>9, <1>10, <1>11 DEF Carried

\* Any statement.
LEMMA CarriedExecuting ==
  ASSUME RaceInv, NEW p \in Requests, Execute(p), NEW pl, Carried(p, pl)
  PROVE  Carried(p, pl)'
<1>1. Executing(p)
  BY ExecuteMoves
<1>2. PICK s : s = Head(todo[p])
  OBVIOUS
<1>3. \/ Inserts(p, s) \/ Compares(p, s) \/ Updates(p, s) \/ Drops(p, s)
      \/ Reads(p, s) \/ Writes(p, s) \/ Pays(p, s) \/ Unpays(p, s)
  BY <1>2 DEF Execute
<1> QED
  BY <1>1, <1>2, <1>3, InsertCarried, CompareCarried, UpdateCarried, DropCarried, ReadCarried,
     WriteCarried, PaymentCarried, UnpaymentCarried

-----------------------------------------------------------------------------
(* A plan stands while the books do.                                       *)

\* A plan made from the books is one still while they are as they were.
LEMMA IntendedStays ==
  ASSUME UNCHANGED vars, NEW pl, Intended(pl)
  PROVE  Intended(pl)'
<1>0. /\ record' = record /\ payment' = payment /\ status' = status /\ next' = next /\ rules' = rules
  BY Unmoved
<1>1. \A e : Exists(e)' <=> Exists(e)
  BY <1>0 DEF Exists
<1>2. \A f : LinksExist(f)' <=> LinksExist(f)
  BY <1>1 DEF LinksExist
<1>3. \A i : Live(i)' <=> Live(i)
  BY <1>0 DEF Live
<1>4. \A i : IsTransfer(i)' <=> IsTransfer(i)
  BY <1>0, <1>3 DEF IsTransfer
<1>5. \A i : Legs(i)' = Legs(i)
  BY <1>0, <1>3 DEF Legs
<1>6. \A ids : Blanked(ids)' = Blanked(ids)
  BY <1>0 DEF Blanked
<1>7. Creating(pl) => Creating(pl)'
  BY <1>2 DEF Creating
<1>8. Importing(pl) => Importing(pl)'
  BY <1>2 DEF Importing
<1>9. Copying(pl) => Copying(pl)'
  <2>1. \A i, amount : Copy(i, amount)' = Copy(i, amount)
    BY <1>0 DEF Copy, Cloned
  <2> QED
    BY <1>3, <2>1 DEF Copying
<1>10. Updating(pl) => Updating(pl)'
  <2>1. \A i, f : Merged(i, f)' = Merged(i, f)
    BY <1>0 DEF Merged, UpdatedCategory
  <2>2. \A r, i : Changed(r, i)' = Changed(r, i)
    BY <1>0 DEF Changed
  <2> QED
    BY <1>0, <1>2, <1>3, <2>1, <2>2 DEF Updating
<1>11. Undoing(pl) => Undoing(pl)'
  BY <1>0, <1>4, <1>5, <1>6 DEF Undoing
<1>12. Removing(pl) => Removing(pl)'
  <2>1. \A i : LostOne(i)' = LostOne(i)
    BY <1>0 DEF LostOne
  <2> QED
    BY <1>0, <1>3, <1>6, <2>1 DEF Removing
<1>13. RemovingMany(pl) => RemovingMany(pl)'
  <2>1. \A ids : Doomed(ids)' = Doomed(ids)
    BY <1>0, <1>3 DEF Doomed
  <2>2. \A ids : Lost(ids)' = Lost(ids)
    BY <1>0 DEF Lost
  <2> QED
    BY <1>3, <1>6, <2>1, <2>2 DEF RemovingMany
<1>14. Transferring(pl) => Transferring(pl)'
  BY <1>0, <1>1, ZenonT(60) DEF Transferring, Origin, Arrival, Leg
<1>15. Amending(pl) => Amending(pl)'
  <2>1. \A j, amount, relink, goal :
          Amended(j, amount, None, relink, goal)' = Amended(j, amount, None, relink, goal)
    BY <1>0 DEF Amended
  <2>2. \A i, amount, relink, goal : Amend(i, amount, relink, goal)' = Amend(i, amount, relink, goal)
    BY <1>5, <2>1 DEF Amend
  <2> SUFFICES ASSUME Amending(pl) PROVE Amending(pl)'
    OBVIOUS
  <2>3. PICK i \in Ids, amount \in AmountOrNone, relink \in BOOLEAN, goal \in ObjectiveOrNone :
          /\ IsTransfer(i) /\ Exists(goal)
          /\ pl = Leaving(Amend(i, amount, relink, goal),
                          {record[j].objective : j \in Legs(i)}
                            \cup {Amended(j, amount, None, relink, goal).objective : j \in Legs(i)})
    BY DEF Amending
  <2>4. {record'[j].objective : j \in Legs(i)'} = {record[j].objective : j \in Legs(i)}
    BY <1>0, <1>5
  <2>5. {Amended(j, amount, None, relink, goal)'.objective : j \in Legs(i)'}
          = {Amended(j, amount, None, relink, goal).objective : j \in Legs(i)}
    BY <1>5, <2>1
  <2>6. IsTransfer(i)' /\ Exists(goal)'
    BY <1>1, <1>4, <2>3
  <2>7. pl = Leaving(Amend(i, amount, relink, goal)',
                     {record'[j].objective : j \in Legs(i)'}
                       \cup {Amended(j, amount, None, relink, goal)'.objective : j \in Legs(i)'})
    BY <2>2, <2>3, <2>4, <2>5
  <2> QED
    BY <2>3, <2>6, <2>7 DEF Amending, Leaving, Plan
<1>16. Paying(pl) => Paying(pl)'
  BY <1>0 DEF Paying
<1>17. Unpaying(pl) => Unpaying(pl)'
  BY <1>0 DEF Unpaying
<1>18. Editing(pl) => Editing(pl)'
  BY <1>0 DEF Editing
<1> QED
  BY <1>7, <1>8, <1>9, <1>10, <1>11, <1>12, <1>13, <1>14, <1>15, <1>16, <1>17, <1>18 DEF Intended

-----------------------------------------------------------------------------
(* What a request begins with.                                             *)

Items(list) == {list[k] : k \in 1..Len(list)}

\* The items of a list are what it has.
LEMMA ItemsHas ==
  ASSUME NEW list, NEW x
  PROVE  x \in Items(list) <=> Has(list, x)
BY DEF Items, Has

\* The items of two lists, one after the other.
LEMMA ItemsJoined ==
  ASSUME NEW A, NEW B, NEW a \in Seq(A), NEW b \in Seq(B)
  PROVE  Items(a \o b) = Items(a) \cup Items(b)
<1>1. PICK n \in Nat, m \in Nat : n = Len(a) /\ m = Len(b)
  OBVIOUS
<1>2. PICK c : c = a \o b
  OBVIOUS
<1>3. /\ Len(c) = n + m /\ \A k \in 1..n : c[k] = a[k]
      /\ \A k \in 1..m : c[n + k] = b[k]
  BY <1>1, <1>2
<1>4. Items(a) \subseteq Items(c)
  <2>1. \A k \in 1..n : k \in 1..Len(c)
    BY <1>3
  <2> QED
    BY <1>1, <1>3, <2>1 DEF Items
<1>5. Items(b) \subseteq Items(c)
  <2>1. \A k \in 1..m : n + k \in 1..Len(c)
    BY <1>3
  <2> QED
    BY <1>1, <1>3, <2>1 DEF Items
<1>6. ASSUME NEW k \in 1..Len(c) PROVE c[k] \in Items(a) \cup Items(b)
  <2>1. CASE k \in 1..n
    BY <1>1, <1>3, <2>1 DEF Items
  <2>2. CASE k \notin 1..n
    <3>1. k - n \in 1..m /\ n + (k - n) = k
      BY <1>3, <1>6, <2>2
    <3>2. c[k] = b[k - n]
      BY <1>3, <3>1
    <3> QED
      BY <1>1, <3>1, <3>2 DEF Items
  <2> QED
    BY <2>1, <2>2
<1>7. Items(c) \subseteq Items(a) \cup Items(b)
  BY <1>6 DEF Items
<1> QED
  BY <1>2, <1>4, <1>5, <1>7

\* The items of a list are of its kind.
LEMMA ItemsIn ==
  ASSUME NEW S, NEW list \in Seq(S)
  PROVE  Items(list) \subseteq S
BY DEF Items

\* The item of a list of one.
LEMMA ItemsOne ==
  ASSUME NEW x
  PROVE  <<x>> \in Seq({x}) /\ Items(<<x>>) = {x}
<1>1. PICK list : list = <<x>>
  OBVIOUS
<1>2. list \in Seq({x}) /\ Len(list) = 1 /\ list[1] = x
  BY <1>1
<1>3. Items(list) = {x}
  BY <1>2 DEF Items
<1> QED
  BY <1>1, <1>2, <1>3

\* The items of a list and of one more.
LEMMA ItemsThen ==
  ASSUME NEW S, NEW list \in Seq(S), NEW x
  PROVE  Items(list \o <<x>>) = Items(list) \cup {x}
<1>1. <<x>> \in Seq({x}) /\ Items(<<x>>) = {x}
  BY ItemsOne
<1>2. PICK T : T = {x}
  OBVIOUS
<1>3. PICK last \in Seq(T) : last = <<x>>
  BY <1>1, <1>2
<1>4. last \in Seq(T)
  BY <1>3
<1>5. Items(list \o last) = Items(list) \cup Items(last)
  BY <1>4, ItemsJoined
<1> QED
  BY <1>1, <1>3, <1>5

\* The items of the lists of the ids, one after the other.
LEMMA ItemsForEach ==
  ASSUME NEW S, NEW ids, NEW part, \A i \in ids \cap Ids : part[i] \in Seq(S)
  PROVE  /\ ForEach(ids, part) \in Seq(S)
         /\ Items(ForEach(ids, part)) = UNION {Items(part[i]) : i \in ids \cap Ids}
<1>1. PICK T : T = UNION {Items(part[i]) : i \in ids \cap Ids}
  OBVIOUS
<1>2. ASSUME NEW i \in ids \cap Ids PROVE part[i] \in Seq(T)
  <2>1. PICK q \in Seq(S) : q = part[i]
    OBVIOUS
  <2>2. PICK n \in Nat : n = Len(q)
    BY <2>1
  <2>3. \A k \in 1..n : q[k] \in T
    BY <1>1, <2>1, <2>2 DEF Items
  <2>4. q \in [1..n -> T]
    BY <2>1, <2>2, <2>3
  <2> QED
    BY <2>1, <2>4, SeqDef
<1>3. ForEach(ids, part) \in Seq(T) /\ ForEach(ids, part) \in Seq(S)
  BY <1>2, ForEachType
<1>4. Items(ForEach(ids, part)) \subseteq T
  BY <1>3, ItemsIn
<1>5. ASSUME NEW x \in T PROVE x \in Items(ForEach(ids, part))
  <2>1. PICK i \in ids \cap Ids : x \in Items(part[i])
    BY <1>1, <1>5
  <2>2. PICK k \in 1..Len(part[i]) : x = part[i][k]
    BY <2>1 DEF Items
  <2>3. Has(ForEach(ids, part), part[i][k])
    BY <2>1, <2>2, ForEachHas
  <2> QED
    BY <2>2, <2>3, ItemsHas
<1> QED
  BY <1>1, <1>3, <1>4, <1>5

\* A list of links that names every entity with a net change.
Names(links, delta) ==
  \A e \in Entities : delta[e] # 0 => \E k \in 1..Len(links) : links[k] = e

NetItems(delta) == {Adjust(e, delta[e]) : e \in {x \in Entities : delta[x] # 0}}

\* The adjustments that the net changes ask for: one for each entity that has one.
LEMMA ItemsNet ==
  ASSUME NEW links, links \in Seq(Entities \cup {None}),
         NEW delta, delta \in [Entities -> Int], Names(links, delta)
  PROVE  /\ NetAdjustments(links, delta) \in Seq(NetItems(delta))
         /\ Items(NetAdjustments(links, delta)) = NetItems(delta)
         /\ NetAdjustments(links, delta) \in Seq(Adjustments)
<1>1. PICK n \in Nat : n = Len(links)
  OBVIOUS
<1>2. PICK S : S = NetItems(delta)
  OBVIOUS
<1>3. PICK part : part = [k \in 1..n |->
            IF /\ links[k] # None /\ delta[links[k]] # 0
               /\ \A j \in 1..(k-1) : links[j] # links[k]
            THEN <<Adjust(links[k], delta[links[k]])>>
            ELSE << >>]
  OBVIOUS
<1>4. NetAdjustments(links, delta) = Joined(n, part)
  BY <1>1, <1>3 DEF NetAdjustments
<1>5. ASSUME NEW k \in 1..n PROVE part[k] \in Seq(S)
  <2>1. CASE links[k] # None /\ delta[links[k]] # 0 /\ \A j \in 1..(k-1) : links[j] # links[k]
    <3>1. links[k] \in Entities
      BY <1>1, <2>1
    <3>2. PICK x \in S : x = Adjust(links[k], delta[links[k]])
      <4>1. Adjust(links[k], delta[links[k]]) \in S
        BY <1>2, <2>1, <3>1 DEF NetItems
      <4> QED
        BY <4>1
    <3>3. part[k] = <<x>>
      BY <1>3, <2>1, <3>2
    <3> QED
      BY <3>2, <3>3
  <2>2. CASE ~ (links[k] # None /\ delta[links[k]] # 0 /\ \A j \in 1..(k-1) : links[j] # links[k])
    <3>1. part[k] = << >>
      BY <1>3, <2>2
    <3> QED
      BY <3>1
  <2> QED
    BY <2>1, <2>2
<1>6. part \in [1..n -> Seq(S)]
  BY <1>3, <1>5
<1>7. Joined(n, part) \in Seq(S)
  BY <1>6, JoinedType
<1>8. Items(Joined(n, part)) \subseteq S
  BY <1>7, ItemsIn
<1>9. ASSUME NEW x \in S PROVE x \in Items(Joined(n, part))
  <2>1. PICK e \in Entities : delta[e] # 0 /\ x = Adjust(e, delta[e])
    BY <1>2, <1>9 DEF NetItems
  <2>2. PICK T : T = {k \in 1..n : links[k] = e}
    OBVIOUS
  <2>3. T \in SUBSET Nat /\ T # {}
    BY <1>1, <2>1, <2>2 DEF Names
  <2>4. PICK k \in T : \A j \in T : k <= j
    BY <2>3, LeastElement
  <2>5. k \in 1..n /\ links[k] = e
    BY <2>2, <2>4
  <2>6. \A j \in 1..(k-1) : links[j] # e
    <3> SUFFICES ASSUME NEW j \in 1..(k-1), links[j] = e PROVE FALSE
      OBVIOUS
    <3>1. j \in 1..n /\ ~ (k <= j)
      BY <2>5
    <3>2. j \in T
      BY <2>2, <3>1
    <3> QED
      BY <2>4, <3>1, <3>2
  <2>7. e # None
    BY LedgerAssumption
  <2>8. part[k] = <<x>>
    BY <1>3, <2>1, <2>5, <2>6, <2>7
  <2>9. PICK one : one = <<x>>
    OBVIOUS
  <2>10. 1 \in 1..Len(one) /\ one[1] = x
    BY <2>9
  <2>11. part[k] = one
    BY <2>8, <2>9
  <2>12. Has(Joined(n, part), part[k][1])
    <3>1. 1 \in 1..Len(part[k])
      BY <2>10, <2>11
    <3>2. PICK u \in 1..n : u = k
      BY <2>5
    <3>3. PICK v \in 1..Len(part[u]) : v = 1
      BY <3>1, <3>2
    <3>4. Has(Joined(n, part), part[u][v])
      BY <1>6, <3>2, <3>3, JoinedHas
    <3> QED
      BY <3>2, <3>3, <3>4
  <2>13. Has(Joined(n, part), x)
    BY <2>10, <2>11, <2>12
  <2> QED
    BY <2>13, ItemsHas
<1>10. NetAdjustments(links, delta) \in Seq(Adjustments)
  BY NetType
<1> QED
  BY <1>2, <1>4, <1>7, <1>8, <1>9, <1>10

\* What a set of statements must be to carry out a plan.
SetOut(items, pl) ==
  /\ \A s \in items : s.do \notin {"update", "commit"} /\ RowServed(s, pl) /\ MoneyServed(s, pl)
  /\ \A i \in DOMAIN pl.rows : i \in Ids /\ i < next
  /\ \A i \in DOMAIN pl.rows : pl.rows[i] = record[i] \/ \E s \in items : Row(i) \in Pending(s)
  /\ \A k \in Payments : k \in pl.gone <=> \E s \in items : s.do = "unpay" /\ s.id = k
  /\ \A o \in Objectives \cap pl.touched : status[o] = "live" =>
       \E s \in items : s.do \in {"adjust", "write"} /\ s.on = o
  /\ \A e \in DOMAIN pl.hand : e \in Entities /\
       \E s \in items : s.do = "write" /\ s.on = e /\ s.figure.byHand

\* And what the list must be.
Inserting(list, pl) ==
  /\ Len(pl.fresh) \in Nat /\ Len(pl.fresh) <= Len(list)
  /\ \A k \in 1..Len(list) : /\ list[k].do = "insert" <=> k <= Len(pl.fresh)
                             /\ list[k].do = "insert" => list[k].row = pl.fresh[k]

PayingFirst(list, pl) ==
  \/ pl.paid = << >> /\ \A s \in Items(list) : s.do # "pay"
  \/ 1 <= Len(list) /\ list[1].do = "pay" /\ pl.paid = <<list[1].row>>

\* A request whose statements are those of a plan carries it out from its first one.
LEMMA AskCarries ==
  ASSUME RaceInv, NEW p \in Requests, NEW op, NEW S, NEW list \in Seq(S), Ask(p, op, list),
         NEW pl, SetOut(Items(list), pl), Inserting(list, pl), PayingFirst(list, pl)
  PROVE  Carried(p, pl)'
<1>1. /\ record' = record /\ UNCHANGED vars /\ work'[p] = << >> /\ new'[p] = << >>
      /\ newPay'[p] = << >> /\ todo'[p] = list \o <<Commit>>
  BY AskFacts DEF Idle, NoWork
<1>2. next' = next /\ status' = status /\ balance' = balance /\ completed' = completed
      /\ target' = target
  BY <1>1, Unmoved
<1>3. PICK done : done = list \o <<Commit>>
  OBVIOUS
<1>4. PICK n \in Nat : n = Len(list)
  OBVIOUS
<1>5. /\ Len(done) = n + 1 /\ done[n+1] = Commit /\ \A k \in 1..n : done[k] = list[k]
  BY <1>3, <1>4
<1>6. Commit.do = "commit"
  BY DEF Commit
<1>7. Left(p)' = Items(list) \cup {Commit}
  <2>1. Left(p)' = Items(done)
    BY <1>1, <1>3 DEF Left, Items
  <2>2. Items(list \o <<Commit>>) = Items(list) \cup {Commit}
    BY ItemsThen
  <2> QED
    BY <1>3, <2>1, <2>2
<1>8. DOMAIN work'[p] = {}
  BY <1>1
<1>9. RowServed(Commit, pl) /\ MoneyServed(Commit, pl)
  BY <1>6 DEF RowServed, MoneyServed
<1>10. RowsCarried(p, pl)'
  <2>1. \A s : RowServed(s, pl)' <=> RowServed(s, pl)
    BY <1>1 DEF RowServed
  <2>2. \A s \in Left(p)' : RowServed(s, pl)'
    BY <1>7, <1>9, <2>1 DEF SetOut
  <2>3. \A i \in DOMAIN pl.rows :
          pl.rows[i] = record'[i] \/ \E s \in Left(p)' : Row(i) \in Pending(s)
    BY <1>1, <1>7 DEF SetOut
  <2>4. \A i \in DOMAIN pl.rows : i \in Ids /\ i < next'
    BY <1>2 DEF SetOut
  <2> QED
    BY <1>8, <2>2, <2>3, <2>4 DEF RowsCarried
<1>11. NewCarried(p, pl)'
  <2>1. Len(new'[p]) = 0
    BY <1>1
  <2>2. ASSUME NEW k \in 1..Len(done)
        PROVE  /\ done[k].do = "insert" <=> k <= Len(pl.fresh)
               /\ done[k].do = "insert" => done[k].row = pl.fresh[k]
    <3>1. CASE k = n + 1
      <4>1. done[k].do = "commit"
        BY <1>5, <1>6, <3>1
      <4>2. ~ (k <= Len(pl.fresh))
        BY <1>4, <3>1 DEF Inserting
      <4> QED
        BY <4>1, <4>2
    <3>2. CASE k # n + 1
      <4>1. k \in 1..n
        BY <1>5, <2>2, <3>2
      <4> QED
        BY <1>4, <1>5, <4>1 DEF Inserting
    <3> QED
      BY <3>1, <3>2
  <2>3. ASSUME NEW k \in 1..Len(done)
        PROVE  /\ done[k].do = "insert" <=> Len(new'[p]) + k <= Len(pl.fresh)
               /\ done[k].do = "insert" => done[k].row = pl.fresh[Len(new'[p]) + k]
    <3>1. Len(new'[p]) + k = k
      BY <1>5, <2>1, <2>3
    <3> QED
      BY <2>2, <2>3, <3>1
  <2>4. Len(pl.fresh) \in Nat /\ Len(new'[p]) <= Len(pl.fresh)
    BY <2>1 DEF Inserting
  <2>5. \A k \in 1..Len(new'[p]) : new'[p][k] = pl.fresh[k]
    BY <2>1
  <2>6. todo'[p] = done
    BY <1>1, <1>3
  <2> QED
    BY <2>3, <2>4, <2>5, <2>6 DEF NewCarried
<1>12. PayCarried(p, pl)'
  <2>1. \A k \in Payments : k \in pl.gone <=> \E s \in Left(p)' : s.do = "unpay" /\ s.id = k
    BY <1>6, <1>7 DEF SetOut
  <2>2. CASE pl.paid = << >> /\ \A s \in Items(list) : s.do # "pay"
    <3>1. newPay'[p] = pl.paid /\ \A s \in Left(p)' : s.do # "pay"
      BY <1>1, <1>6, <1>7, <2>2
    <3> QED
      BY <1>8, <2>1, <3>1 DEF PayCarried
  <2>3. CASE 1 <= Len(list) /\ list[1].do = "pay" /\ pl.paid = <<list[1].row>>
    <3>1. todo'[p] = done /\ done[1] = list[1] /\ done # << >>
      <4>1. 1 \in 1..n /\ Len(done) # 0
        BY <1>4, <1>5, <2>3
      <4> QED
        BY <1>1, <1>3, <1>5, <4>1
    <3> QED
      BY <1>1, <1>8, <2>1, <2>3, <3>1 DEF PayCarried
  <2> QED
    BY <2>2, <2>3 DEF PayingFirst
<1>13. MoneyCarried(p, pl)'
  <2>1. \A e, f : Proven(e, f, pl)' <=> Proven(e, f, pl)
    BY <1>2 DEF Proven, Reached
  <2>2. \A s : MoneyServed(s, pl)' <=> MoneyServed(s, pl)
    BY <2>1 DEF MoneyServed
  <2>3. \A s \in Left(p)' : MoneyServed(s, pl)'
    BY <1>7, <1>9, <2>2 DEF SetOut
  <2>4. \A o \in Objectives \cap pl.touched : status[o] = "live" =>
          \E s \in Left(p)' : s.do \in {"adjust", "write"} /\ s.on = o
    BY <1>7 DEF SetOut
  <2>5. \A e \in DOMAIN pl.hand : e \in Entities /\
          \E s \in Left(p)' : s.do = "write" /\ s.on = e /\ s.figure.byHand
    BY <1>7 DEF SetOut
  <2> QED
    BY <1>2, <1>8, <2>3, <2>4, <2>5 DEF MoneyCarried
<1> QED
  BY <1>10, <1>11, <1>12, <1>13 DEF Carried

\* The parts of a plan.
LEMMA PlanParts ==
  ASSUME NEW rows, NEW fresh, NEW gone, NEW paid, NEW touched, NEW hand,
         NEW pl, pl = Plan(rows, fresh, gone, paid, touched, hand)
  PROVE  /\ pl.rows = rows /\ pl.fresh = fresh /\ pl.gone = gone
         /\ pl.paid = paid /\ pl.touched = touched /\ pl.hand = hand
BY DEF Plan

\* A statement of net adjustments.
LEMMA NetItem ==
  ASSUME NEW delta, NEW s \in NetItems(delta)
  PROVE  s.do = "adjust" /\ s.on \in Entities /\ delta[s.on] # 0
BY DEF NetItems, Adjust

\* A request that writes rows and then adjusts what the rows are linked to.
LEMMA AskPosts ==
  ASSUME RaceInv, NEW p \in Requests, NEW op, NEW S, NEW first \in Seq(S),
         NEW links, links \in Seq(Entities \cup {None}),
         NEW delta, delta \in [Entities -> Int], Names(links, delta),
         Ask(p, op, first \o NetAdjustments(links, delta)),
         NEW rows, NEW fresh, NEW pl,
         pl = Plan(rows, fresh, {}, << >>, Goals(delta), << >>),
         \A s \in Items(first) : s.do \in {"insert", "save", "drop"} /\ RowServed(s, pl),
         \A i \in DOMAIN rows : /\ i \in Ids /\ i < next
                                /\ \E s \in Items(first) : Row(i) \in Pending(s),
         Len(fresh) \in Nat, Len(fresh) <= Len(first),
         \A k \in 1..Len(first) : /\ first[k].do = "insert" <=> k <= Len(fresh)
                                  /\ first[k].do = "insert" => first[k].row = fresh[k]
  PROVE  Carried(p, pl)'
<1>1. /\ pl.rows = rows /\ pl.fresh = fresh /\ pl.gone = {} /\ pl.paid = << >>
      /\ pl.touched = Goals(delta) /\ pl.hand = << >>
  BY PlanParts
<1>2. PICK T : T = NetItems(delta)
  OBVIOUS
<1>3. PICK net : net = NetAdjustments(links, delta)
  OBVIOUS
<1>4. net \in Seq(T) /\ Items(net) = T
  BY <1>2, <1>3, ItemsNet
<1>5. net \in Seq(T)
  BY <1>4
<1>6. PICK list : list = first \o net
  OBVIOUS
<1>7. Items(first \o net) = Items(first) \cup Items(net)
  BY <1>5, ItemsJoined
<1>8. Items(list) = Items(first) \cup T
  BY <1>4, <1>6, <1>7
<1>9. first \o net \in Seq(S \cup T)
  BY <1>5, Followed
<1>10. \A s \in T : s.do = "adjust" /\ s.on \in Entities /\ delta[s.on] # 0
  BY <1>2, NetItem
<1>11. SetOut(Items(list), pl)
  <2>1. ASSUME NEW s \in Items(list)
        PROVE  s.do \notin {"update", "commit"} /\ RowServed(s, pl) /\ MoneyServed(s, pl)
    <3>1. CASE s \in Items(first)
      BY <3>1 DEF MoneyServed
    <3>2. CASE s \in T
      BY <1>1, <1>10, <3>2 DEF RowServed, MoneyServed, Goals
    <3> QED
      BY <1>8, <2>1, <3>1, <3>2
  <2>2. \A i \in DOMAIN pl.rows : i \in Ids /\ i < next
    BY <1>1
  <2>3. \A i \in DOMAIN pl.rows : \E s \in Items(list) : Row(i) \in Pending(s)
    BY <1>1, <1>8
  <2>4. \A k \in Payments : k \in pl.gone <=> \E s \in Items(list) : s.do = "unpay" /\ s.id = k
    BY <1>1, <1>8, <1>10
  <2>5. ASSUME NEW o \in Objectives \cap pl.touched
        PROVE  \E s \in Items(list) : s.do \in {"adjust", "write"} /\ s.on = o
    <3>1. o \in Entities /\ delta[o] # 0
      BY <1>1, <2>5 DEF Goals, Entities
    <3>2. Adjust(o, delta[o]) \in T
      BY <1>2, <3>1 DEF NetItems
    <3>3. Adjust(o, delta[o]).do = "adjust" /\ Adjust(o, delta[o]).on = o
      BY DEF Adjust
    <3> QED
      BY <1>8, <3>2, <3>3
  <2>6. DOMAIN pl.hand = {}
    BY <1>1
  <2> QED
    BY <2>1, <2>2, <2>3, <2>4, <2>5, <2>6 DEF SetOut
<1>12. Inserting(list, pl)
  <2>1. PICK n \in Nat, m \in Nat : n = Len(first) /\ m = Len(net)
    BY <1>5
  <2>2. /\ Len(list) = n + m /\ \A k \in 1..n : list[k] = first[k]
        /\ \A k \in 1..m : list[n + k] = net[k]
    BY <1>5, <1>6, <2>1
  <2>3. PICK f \in Nat : f = Len(fresh)
    OBVIOUS
  <2>4. ASSUME NEW k \in 1..Len(list)
        PROVE  /\ list[k].do = "insert" <=> k <= f
               /\ list[k].do = "insert" => list[k].row = fresh[k]
    <3>1. CASE k <= n
      <4>1. k \in 1..n
        BY <3>1, <2>2, <2>4
      <4> QED
        BY <2>1, <2>2, <2>3, <4>1
    <3>2. CASE ~ (k <= n)
      <4>1. k - n \in 1..m /\ n + (k - n) = k
        BY <2>2, <2>4, <3>2
      <4>2. list[k] = net[k - n]
        BY <2>2, <4>1
      <4>3. net[k - n] \in T
        BY <1>5, <2>1, <4>1
      <4>4. list[k].do = "adjust"
        BY <1>10, <4>2, <4>3
      <4>5. ~ (k <= f)
        BY <2>1, <2>3, <3>2
      <4> QED
        BY <4>4, <4>5
    <3> QED
      BY <3>1, <3>2
  <2>5. f <= Len(list)
    BY <2>1, <2>2, <2>3
  <2> QED
    BY <1>1, <2>3, <2>4, <2>5 DEF Inserting
<1>13. PayingFirst(list, pl)
  BY <1>1, <1>8, <1>10 DEF PayingFirst
<1>14. PICK U : U = S \cup T
  OBVIOUS
<1>15. list \in Seq(U) /\ Ask(p, op, list)
  BY <1>3, <1>6, <1>9, <1>14
<1> QED
  BY <1>11, <1>12, <1>13, <1>15, AskCarries

\* A single row inserted.
LEMMA AskAdds ==
  ASSUME RaceInv, NEW p \in Requests, NEW op, NEW row \in Draft,
         Ask(p, op, <<Insert(row)>> \o NetAdjustments(LinksOf(row), [e \in Entities |-> Collected(row, e)]))
  PROVE  Carried(p, Adding(<<row>>, Gained(row)))'
<1>1. PICK links \in Seq(Entities \cup {None}) : links = LinksOf(row)
  BY LinksHave
<1>2. PICK delta \in [Entities -> Int] : delta = [e \in Entities |-> Collected(row, e)]
  <2>1. \A e \in Entities : Collected(row, e) \in Int
    BY DraftCollected
  <2> QED
    BY <2>1
<1>3. Names(links, delta)
  BY <1>1, <1>2, LinksHave DEF Names
<1>4. PICK x : x = Insert(row)
  OBVIOUS
<1>5. x.do = "insert" /\ x.row = row
  BY <1>4 DEF Insert
<1>6. PICK first : first = <<x>>
  OBVIOUS
<1>7. PICK S : S = {x}
  OBVIOUS
<1>8. first \in Seq(S) /\ Items(first) = {x}
  BY <1>6, <1>7, ItemsOne
<1>9. Len(first) = 1 /\ first[1] = x
  BY <1>6
<1>10. PICK fresh : fresh = <<row>>
  OBVIOUS
<1>11. Len(fresh) = 1 /\ fresh[1] = row
  BY <1>10
<1>12. PICK pl : pl = Plan(<< >>, fresh, {}, << >>, Goals(delta), << >>)
  OBVIOUS
<1>13. \A s \in Items(first) : s.do \in {"insert", "save", "drop"} /\ RowServed(s, pl)
  BY <1>5, <1>8 DEF RowServed
<1>14. \A k \in 1..Len(first) : /\ first[k].do = "insert" <=> k <= Len(fresh)
                                /\ first[k].do = "insert" => first[k].row = fresh[k]
  BY <1>5, <1>9, <1>11
<1>15. Ask(p, op, first \o NetAdjustments(links, delta))
  BY <1>1, <1>2, <1>4, <1>6
<1>16. DOMAIN << >> = {} /\ Len(fresh) \in Nat /\ Len(fresh) <= Len(first)
  BY <1>9, <1>11
<1>17. first \in Seq(S) /\ links \in Seq(Entities \cup {None}) /\ delta \in [Entities -> Int]
  BY <1>1, <1>2, <1>8
<1>18. Carried(p, pl)'
  BY <1>3, <1>12, <1>13, <1>14, <1>15, <1>16, <1>17, AskPosts
<1>19. pl = Adding(<<row>>, Gained(row))
  BY <1>2, <1>10, <1>12 DEF Adding, Gained
<1> QED
  BY <1>18, <1>19

\* POST /transactions plans its record and what it adds to its links.
LEMMA CreatePlanned ==
  ASSUME NEW p \in Requests, RaceInv, NEW f \in Fields, AskCreate(p, f)
  PROVE  \E pl : Intended(pl) /\ Carried(p, pl)'
<1>1. PICK row \in Draft : row = Plain(f, None)
  BY PlainType, RecordDraft DEF CategoryOrNone
<1>2. Ask(p, "create",
          <<Insert(row)>> \o NetAdjustments(LinksOf(row), [e \in Entities |-> Collected(row, e)]))
  BY <1>1 DEF AskCreate
<1>3. row \in Draft
  BY <1>1
<1>4. Carried(p, Adding(<<row>>, Gained(row)))'
  BY <1>2, <1>3, AskAdds
<1>5. Creating(Adding(<<row>>, Gained(row)))
  BY <1>1 DEF Creating, AskCreate
<1> QED
  BY <1>4, <1>5 DEF Intended

\* POST /transactions/:id/clone plans the copy and what it adds.
LEMMA ClonePlanned ==
  ASSUME NEW p \in Requests, RaceInv, NEW i \in Ids, NEW amount \in AmountOrNone,
         AskClone(p, i, amount)
  PROVE  \E pl : Intended(pl) /\ Carried(p, pl)'
<1>1. TypeOK /\ Live(i)
  BY DEF RaceInv, RaceTypes, AskClone
<1>2. PICK row : row = Copy(i, amount)
  OBVIOUS
<1>3. row \in Draft
  BY <1>1, <1>2, ClonedType, RecordDraft DEF Copy, DescriptionOrNone, CategoryOrNone, CompanyOrNone
<1>4. Ask(p, "clone",
          <<Insert(row)>> \o NetAdjustments(LinksOf(row), [e \in Entities |-> Collected(row, e)]))
  BY <1>2 DEF AskClone, Copy
<1>5. Carried(p, Adding(<<row>>, Gained(row)))'
  BY <1>3, <1>4, AskAdds
<1>6. Copying(Adding(<<row>>, Gained(row)))
  BY <1>1, <1>2 DEF Copying
<1> QED
  BY <1>5, <1>6 DEF Intended

\* A list of links that begins or ends with one that has e has it.
LEMMA UpdatePlanned ==
  ASSUME LegEdits # "any", NEW p \in Requests, RaceInv, NEW i \in Ids, NEW f \in Fields,
         AskUpdate(p, i, f)
  PROVE  \E pl : Intended(pl) /\ Carried(p, pl)'
<1>0. TypeOK /\ Live(i) /\ LinksExist(f) /\ Allowed(record[i].group, f)
  BY DEF RaceInv, RaceTypes, AskUpdate
<1>1. PICK old \in Draft : old = record[i]
  BY <1>0, LiveRow
<1>2. PICK row : row = Merged(i, f)
  OBVIOUS
<1>3. row \in Draft /\ i < next
  BY <1>0, <1>2, MergedType, LiveRow, RecordDraft
<1>4. PICK stated \in SUBSET {"amount"} :
        Ask(p, "update",
            <<Save(i, row, stated)>>
              \o NetAdjustments(LinksOf(old) \o LinksOf(row),
                                [e \in Entities |-> Collected(row, e) - Collected(old, e)]))
  BY <1>1, <1>2 DEF AskUpdate
<1>5. PICK x : x = Save(i, row, stated)
  OBVIOUS
<1>6. x.do = "save" /\ x.id = i /\ x.row = row
  BY <1>5 DEF Save
<1>7. PICK delta : delta = [e \in Entities |-> Collected(row, e) - Collected(old, e)]
  OBVIOUS
<1>8. delta \in [Entities -> Int]
  <2>1. \A e \in Entities : Collected(row, e) - Collected(old, e) \in Int
    BY <1>1, <1>3, DraftCollected
  <2> QED
    BY <1>7, <2>1
<1>9. PICK a \in Seq(Entities \cup {None}) : a = LinksOf(old)
  BY <1>1, LinksHave
<1>10. PICK b \in Seq(Entities \cup {None}) : b = LinksOf(row)
  BY <1>3, LinksHave
<1>11. PICK links : links = a \o b
  OBVIOUS
<1>12. links \in Seq(Entities \cup {None})
  BY <1>9, <1>10, <1>11
<1>13. ASSUME NEW e \in Entities, delta[e] # 0
       PROVE  \E k \in 1..Len(links) : links[k] = e
  <2>1. Collected(old, e) \in Int /\ Collected(row, e) \in Int
    BY <1>1, <1>3, DraftCollected
  <2>2. Collected(old, e) # 0 \/ Collected(row, e) # 0
    BY <1>7, <1>13, <2>1
  <2>3. CASE Collected(old, e) # 0
    <3>1. PICK k \in 1..Len(a) : a[k] = e
      BY <1>1, <1>9, <2>3, LinksHave
    <3>2. k \in 1..Len(links) /\ links[k] = e
      BY <1>9, <1>10, <1>11, <3>1
    <3> QED
      BY <3>2
  <2>4. CASE Collected(row, e) # 0
    <3>1. PICK k \in 1..Len(b) : b[k] = e
      BY <1>3, <1>10, <2>4, LinksHave
    <3>2. Len(a) + k \in 1..Len(links) /\ links[Len(a) + k] = e
      BY <1>9, <1>10, <1>11, <3>1
    <3> QED
      BY <3>2
  <2> QED
    BY <2>2, <2>3, <2>4
<1>14. Names(links, delta)
  BY <1>13 DEF Names
<1>15. PICK first : first = <<x>>
  OBVIOUS
<1>16. PICK S : S = {x}
  OBVIOUS
<1>17. first \in Seq(S) /\ Items(first) = {x}
  BY <1>15, <1>16, ItemsOne
<1>18. Len(first) = 1 /\ first[1] = x
  BY <1>15
<1>19. PICK rows : rows = [j \in {i} |-> row]
  OBVIOUS
<1>20. DOMAIN rows = {i} /\ rows[i] = row
  BY <1>19
<1>21. PICK fresh : fresh = << >>
  OBVIOUS
<1>22. Len(fresh) = 0
  BY <1>21
<1>23. PICK pl : pl = Plan(rows, fresh, {}, << >>, Goals(delta), << >>)
  OBVIOUS
<1>24. pl.rows = rows
  BY <1>23, PlanParts
<1>25. \A s \in Items(first) : s.do \in {"insert", "save", "drop"} /\ RowServed(s, pl)
  BY <1>6, <1>17, <1>20, <1>24 DEF RowServed
<1>26. \A j \in DOMAIN rows : j \in Ids /\ j < next /\ \E s \in Items(first) : Row(j) \in Pending(s)
  BY <1>3, <1>6, <1>17, <1>20 DEF Pending
<1>27. \A k \in 1..Len(first) : /\ first[k].do = "insert" <=> k <= Len(fresh)
                                /\ first[k].do = "insert" => first[k].row = fresh[k]
  BY <1>6, <1>18, <1>22
<1>28. Ask(p, "update", first \o NetAdjustments(links, delta))
  BY <1>4, <1>5, <1>7, <1>9, <1>10, <1>11, <1>15
<1>29. Len(fresh) \in Nat /\ Len(fresh) <= Len(first)
  BY <1>18, <1>22
<1>30. first \in Seq(S)
  BY <1>17
<1>31. Carried(p, pl)'
  BY <1>8, <1>12, <1>14, <1>23, <1>25, <1>26, <1>27, <1>28, <1>29, <1>30, AskPosts
<1>32. pl = Leaving([j \in {i} |-> Merged(i, f)], Goals(Changed(Merged(i, f), i)))
  BY <1>1, <1>2, <1>7, <1>19, <1>21, <1>23 DEF Leaving, Changed
<1>33. Updating(pl)
  BY <1>0, <1>32 DEF Updating
<1> QED
  BY <1>31, <1>33 DEF Intended

\* A row deleted is blank, but for its group.
LEMMA BlankServed ==
  ASSUME NEW ids, NEW i \in ids, NEW s, s = Drop(i), NEW pl, pl.rows = Blanked(ids)
  PROVE  s.do = "drop" /\ Row(i) \in Pending(s) /\ RowServed(s, pl) /\ MoneyServed(s, pl)
<1>1. s.do = "drop" /\ s.id = i
  BY DEF Drop
<1>2. i \in DOMAIN Blanked(ids) /\ Blanked(ids)[i] = Unread("deleted", record[i].group)
  BY DEF Blanked
<1> QED
  BY <1>1, <1>2 DEF Pending, RowServed, MoneyServed

\* DELETE /transactions/:id of a record outside transfers plans its removal.
LEMMA RemoveOnePlanned ==
  ASSUME NEW p \in Requests, RaceInv, NEW i \in Ids, Live(i), record[i].group = 0,
         Ask(p, "remove",
             <<Drop(i)>> \o NetAdjustments(LinksOf(record[i]),
                                           [e \in Entities |-> - Collected(record[i], e)]))
  PROVE  \E pl : Intended(pl) /\ Carried(p, pl)'
<1>1. PICK old \in Draft : old = record[i]
  BY LiveRow
<1>2. i < next
  BY LiveRow
<1>3. PICK x : x = Drop(i)
  OBVIOUS
<1>4. PICK links \in Seq(Entities \cup {None}) : links = LinksOf(old)
  BY <1>1, LinksHave
<1>5. PICK delta : delta = [e \in Entities |-> - Collected(old, e)]
  OBVIOUS
<1>6. \A e \in Entities : Collected(old, e) \in Int
  BY <1>1, DraftCollected
<1>7. delta \in [Entities -> Int]
  BY <1>5, <1>6
<1>8. ASSUME NEW e \in Entities, delta[e] # 0
      PROVE  \E k \in 1..Len(links) : links[k] = e
  <2>1. Collected(old, e) # 0
    BY <1>5, <1>6, <1>8
  <2> QED
    BY <1>1, <1>4, <2>1, LinksHave
<1>9. Names(links, delta)
  BY <1>8 DEF Names
<1>10. PICK first : first = <<x>>
  OBVIOUS
<1>11. PICK S : S = {x}
  OBVIOUS
<1>12. first \in Seq(S) /\ Items(first) = {x}
  BY <1>10, <1>11, ItemsOne
<1>13. Len(first) = 1 /\ first[1] = x
  BY <1>10
<1>14. PICK rows : rows = Blanked({i})
  OBVIOUS
<1>15. DOMAIN rows = {i}
  BY <1>14 DEF Blanked
<1>16. PICK fresh : fresh = << >>
  OBVIOUS
<1>17. Len(fresh) = 0
  BY <1>16
<1>18. PICK pl : pl = Plan(rows, fresh, {}, << >>, Goals(delta), << >>)
  OBVIOUS
<1>19. pl.rows = Blanked({i})
  BY <1>14, <1>18, PlanParts
<1>20. x.do = "drop" /\ Row(i) \in Pending(x) /\ RowServed(x, pl)
  BY <1>3, <1>19, BlankServed
<1>21. \A s \in Items(first) : s.do \in {"insert", "save", "drop"} /\ RowServed(s, pl)
  BY <1>12, <1>20
<1>22. \A j \in DOMAIN rows : j \in Ids /\ j < next /\ \E s \in Items(first) : Row(j) \in Pending(s)
  BY <1>2, <1>12, <1>15, <1>20
<1>23. \A k \in 1..Len(first) : /\ first[k].do = "insert" <=> k <= Len(fresh)
                                /\ first[k].do = "insert" => first[k].row = fresh[k]
  BY <1>13, <1>17, <1>20
<1>24. Ask(p, "remove", first \o NetAdjustments(links, delta))
  BY <1>1, <1>3, <1>4, <1>5, <1>10
<1>25. Len(fresh) \in Nat /\ Len(fresh) <= Len(first)
  BY <1>13, <1>17
<1>26. first \in Seq(S) /\ links \in Seq(Entities \cup {None})
  BY <1>4, <1>12
<1>27. Carried(p, pl)'
  BY <1>7, <1>9, <1>18, <1>21, <1>22, <1>23, <1>24, <1>25, <1>26, AskPosts
<1>28. pl = Leaving(Blanked({i}), Goals(LostOne(i)))
  BY <1>1, <1>5, <1>14, <1>16, <1>18 DEF Leaving, LostOne
<1>29. Removing(pl)
  BY <1>28 DEF Removing
<1> QED
  BY <1>27, <1>29 DEF Intended

\* DELETE /transactions plans the removal of the records and of the other legs.
LEMMA RemoveManyPlanned ==
  ASSUME NEW p \in Requests, RaceInv, NEW ids \in SUBSET Ids, AskRemoveMany(p, ids)
  PROVE  \E pl : Intended(pl) /\ Carried(p, pl)'
<1>0. RaceTypes
  BY DEF RaceInv
<1>1. PICK doomed : doomed = Doomed(ids)
  OBVIOUS
<1>2. PICK drops : drops = [i \in Ids |-> <<Drop(i)>>]
  OBVIOUS
<1>3. PICK linked : linked = [i \in Ids |-> LinksOf(record[i])]
  OBVIOUS
<1>4. PICK loss : loss = [e \in Entities |->
                            SumOver(doomed, [i \in Ids |-> - Collected(record[i], e)])]
  OBVIOUS
<1>5. Ask(p, "removeMany",
          ForEach(doomed, drops) \o NetAdjustments(ForEach(doomed, linked), loss))
  BY <1>1, <1>2, <1>3, <1>4 DEF AskRemoveMany
<1>6. \A i \in doomed : i \in Ids /\ Live(i) /\ i < next
  <2>1. \A i \in doomed : i \in Ids /\ Live(i)
    BY <1>1 DEF Doomed
  <2> QED
    BY <2>1, LiveRow
<1>7. \A i \in Ids : record[i] \in Draft
  BY <1>0, RaceTypeParts
<1>8. PICK S : S = {Drop(i) : i \in Ids}
  OBVIOUS
<1>9. ASSUME NEW i \in Ids PROVE drops[i] \in Seq(S) /\ Items(drops[i]) = {Drop(i)}
  <2>1. PICK x \in S : x = Drop(i)
    <3>1. Drop(i) \in S
      BY <1>8
    <3> QED
      BY <3>1
  <2>2. PICK q : q = <<x>>
    OBVIOUS
  <2>3. Items(q) = {x}
    BY <2>2, ItemsOne
  <2>4. q \in Seq(S)
    BY <2>1, <2>2
  <2> QED
    BY <1>2, <2>1, <2>2, <2>3, <2>4
<1>10. PICK first : first = ForEach(doomed, drops)
  OBVIOUS
<1>11. /\ first \in Seq(S)
       /\ Items(first) = UNION {Items(drops[i]) : i \in doomed \cap Ids}
  <2>1. \A i \in doomed \cap Ids : drops[i] \in Seq(S)
    BY <1>9
  <2> QED
    BY <1>10, <2>1, ItemsForEach
<1>12. /\ \A s \in Items(first) : \E i \in doomed : s = Drop(i)
       /\ \A i \in doomed : Drop(i) \in Items(first)
  <2>1. ASSUME NEW s \in Items(first) PROVE \E i \in doomed : s = Drop(i)
    <3>1. PICK i \in doomed \cap Ids : s \in Items(drops[i])
      BY <1>11, <2>1
    <3> QED
      BY <1>9, <3>1
  <2>2. ASSUME NEW i \in doomed PROVE Drop(i) \in Items(first)
    <3>1. i \in doomed \cap Ids
      BY <1>6, <2>2
    <3>2. Drop(i) \in Items(drops[i])
      BY <1>9, <3>1
    <3> QED
      BY <1>11, <3>1, <3>2
  <2> QED
    BY <2>1, <2>2
<1>13. PICK links \in Seq(Entities \cup {None}) : links = ForEach(doomed, linked)
  <2>1. \A i \in doomed \cap Ids : linked[i] \in Seq(Entities \cup {None})
    BY <1>3, <1>7, LinksHave
  <2> QED
    BY <2>1, ForEachType
<1>14. ASSUME NEW e \in Entities, NEW d, d = [i \in Ids |-> - Collected(record[i], e)]
       PROVE  /\ d \in [Ids -> Int] /\ SumOver(doomed, d) \in Int
              /\ loss[e] = SumOver(doomed, d)
  <2>1. \A i \in Ids : - Collected(record[i], e) \in Int
    <3> SUFFICES ASSUME NEW i \in Ids PROVE - Collected(record[i], e) \in Int
      OBVIOUS
    <3>1. PICK x \in Int : x = Collected(record[i], e)
      BY <1>7, DraftCollected
    <3> QED
      BY <3>1
  <2>2. d \in [Ids -> Int]
    BY <1>14, <2>1
  <2>3. SumOver(doomed, d) \in Int
    <3>1. doomed \in SUBSET Ids
      BY <1>6
    <3> QED
      BY <2>2, <3>1, SumOverInt
  <2> QED
    BY <1>4, <1>14, <2>2, <2>3
<1>15. loss \in [Entities -> Int]
  <2>1. \A e \in Entities : loss[e] \in Int
    BY <1>14
  <2> QED
    BY <1>4, <2>1
<1>16. ASSUME NEW e \in Entities, loss[e] # 0
       PROVE  \E k \in 1..Len(links) : links[k] = e
  <2>1. PICK d : d = [i \in Ids |-> - Collected(record[i], e)]
    OBVIOUS
  <2>2. d \in [Ids -> Int] /\ loss[e] = SumOver(doomed, d)
    BY <1>14, <2>1
  <2>3. PICK i \in doomed \cap Ids : d[i] # 0
    BY <1>16, <2>2, SumOverZero
  <2>4. Collected(record[i], e) # 0
    <3>1. PICK x \in Int : x = Collected(record[i], e)
      BY <1>7, <2>3, DraftCollected
    <3>2. d[i] = 0 - x
      BY <2>1, <2>3, <3>1
    <3> QED
      BY <2>3, <3>1, <3>2
  <2>5. PICK k \in 1..Len(LinksOf(record[i])) : LinksOf(record[i])[k] = e
    BY <1>7, <2>3, <2>4, LinksHave
  <2>6. k \in 1..Len(linked[i]) /\ linked[i][k] = e
    BY <1>3, <2>3, <2>5
  <2>7. \A j \in doomed \cap Ids : linked[j] \in Seq(Entities \cup {None})
    BY <1>3, <1>7, LinksHave
  <2>8. Has(ForEach(doomed, linked), linked[i][k])
    BY <2>3, <2>6, <2>7, ForEachHas
  <2> QED
    BY <1>13, <2>6, <2>8 DEF Has
<1>17. Names(links, loss)
  BY <1>16 DEF Names
<1>18. PICK rows : rows = Blanked(doomed)
  OBVIOUS
<1>19. DOMAIN rows = doomed
  BY <1>18 DEF Blanked
<1>20. PICK fresh : fresh = << >>
  OBVIOUS
<1>21. Len(fresh) = 0
  BY <1>20
<1>22. PICK pl : pl = Plan(rows, fresh, {}, << >>, Goals(loss), << >>)
  OBVIOUS
<1>23. pl.rows = Blanked(doomed)
  BY <1>18, <1>22, PlanParts
<1>24. ASSUME NEW s \in Items(first) PROVE s.do = "drop" /\ RowServed(s, pl)
  <2>1. PICK i \in doomed : s = Drop(i)
    BY <1>12, <1>24
  <2> QED
    BY <1>23, <2>1, BlankServed
<1>25. ASSUME NEW i \in DOMAIN rows
       PROVE  i \in Ids /\ i < next /\ \E s \in Items(first) : Row(i) \in Pending(s)
  <2>1. i \in doomed
    BY <1>19, <1>25
  <2>2. PICK s : s = Drop(i)
    OBVIOUS
  <2>3. s \in Items(first) /\ Row(i) \in Pending(s)
    BY <1>12, <1>23, <2>1, <2>2, BlankServed
  <2> QED
    BY <1>6, <2>1, <2>3
<1>26. ASSUME NEW k \in 1..Len(first)
       PROVE  /\ first[k].do = "insert" <=> k <= Len(fresh)
              /\ first[k].do = "insert" => first[k].row = fresh[k]
  <2>1. first[k] \in Items(first)
    BY <1>26 DEF Items
  <2>2. first[k].do = "drop"
    BY <1>24, <2>1
  <2>3. ~ (k <= Len(fresh))
    BY <1>11, <1>21, <1>26
  <2> QED
    BY <2>2, <2>3
<1>27. Len(fresh) \in Nat /\ Len(fresh) <= Len(first)
  BY <1>11, <1>21
<1>28. Ask(p, "removeMany", first \o NetAdjustments(links, loss))
  BY <1>5, <1>10, <1>13
<1>29. first \in Seq(S) /\ links \in Seq(Entities \cup {None})
  BY <1>11, <1>13
<1>30. \A s \in Items(first) : s.do \in {"insert", "save", "drop"} /\ RowServed(s, pl)
  BY <1>24
<1>31. Carried(p, pl)'
  BY <1>15, <1>17, <1>22, <1>25, <1>26, <1>27, <1>28, <1>29, <1>30, AskPosts
<1>32. pl = Leaving(Blanked(Doomed(ids)), Goals(Lost(Doomed(ids))))
  BY <1>1, <1>4, <1>18, <1>20, <1>22 DEF Leaving, Lost
<1>33. RemovingMany(pl)
  BY <1>32 DEF RemovingMany, AskRemoveMany
<1> QED
  BY <1>31, <1>33 DEF Intended

\* POST /transactions/import plans every row, and their sum on each link.
LEMMA ImportPlanned ==
  ASSUME NEW p \in Requests, RaceInv, NEW batch \in Batches, AskImport(p, batch)
  PROVE  \E pl : Intended(pl) /\ Carried(p, pl)'
<1>1. PICK n \in Nat : n = Len(batch)
  BY BatchType
<1>2. PICK rows : rows = [k \in 1..n |-> Plain(batch[k], None)]
  OBVIOUS
<1>3. \A k \in 1..n : rows[k] \in Draft
  <2> SUFFICES ASSUME NEW k \in 1..n PROVE rows[k] \in Draft
    OBVIOUS
  <2>1. batch[k] \in Fields
    BY <1>1, BatchType
  <2> QED
    BY <1>2, <2>1, PlainType, RecordDraft DEF CategoryOrNone
<1>4. Len(rows) = n
  <2>1. rows \in [1..n -> Draft]
    BY <1>2, <1>3
  <2> QED
    BY <2>1, LenProperties, SeqDef
<1>5. PICK first : first = [k \in 1..n |-> Insert(rows[k])]
  OBVIOUS
<1>6. PICK linked : linked = [k \in 1..n |-> LinksOf(rows[k])]
  OBVIOUS
<1>7. PICK gain : gain = [e \in Entities |-> Total(n, [k \in 1..n |-> Collected(rows[k], e)])]
  OBVIOUS
<1>8. Ask(p, "import", first \o NetAdjustments(Joined(n, linked), gain))
  BY <1>1, <1>2, <1>5, <1>6, <1>7 DEF AskImport
<1>9. PICK S : S = {Insert(rows[k]) : k \in 1..n}
  OBVIOUS
<1>10. first \in Seq(S) /\ Len(first) = n
  <2>1. first \in [1..n -> S]
    BY <1>5, <1>9
  <2> QED
    BY <2>1, SeqDef, LenProperties
<1>11. \A k \in 1..n : first[k].do = "insert" /\ first[k].row = rows[k]
  BY <1>5 DEF Insert
<1>12. PICK links \in Seq(Entities \cup {None}) : links = Joined(n, linked)
  <2>1. linked \in [1..n -> Seq(Entities \cup {None})]
    BY <1>3, <1>6, LinksHave
  <2> QED
    BY <2>1, JoinedType
<1>13. ASSUME NEW e \in Entities, NEW c, c = [k \in 1..n |-> Collected(rows[k], e)]
       PROVE  c \in [1..n -> Int] /\ Total(n, c) \in Int /\ gain[e] = Total(n, c)
  <2>1. c \in [1..n -> Int]
    BY <1>3, <1>13, DraftCollected
  <2>2. Total(n, c) \in Int
    BY <2>1, TotalInt
  <2> QED
    BY <1>7, <1>13, <2>1, <2>2
<1>14. gain \in [Entities -> Int]
  <2>1. \A e \in Entities : gain[e] \in Int
    BY <1>13
  <2> QED
    BY <1>7, <2>1
<1>15. ASSUME NEW e \in Entities, gain[e] # 0
       PROVE  \E k \in 1..Len(links) : links[k] = e
  <2>1. PICK c : c = [k \in 1..n |-> Collected(rows[k], e)]
    OBVIOUS
  <2>2. c \in [1..n -> Int] /\ gain[e] = Total(n, c)
    BY <1>13, <2>1
  <2>3. PICK k \in 1..n : c[k] # 0
    BY <1>1, <1>15, <2>2, TotalZero
  <2>4. Collected(rows[k], e) # 0
    BY <2>1, <2>3
  <2>5. PICK j \in 1..Len(LinksOf(rows[k])) : LinksOf(rows[k])[j] = e
    BY <1>3, <2>3, <2>4, LinksHave
  <2>6. PICK l \in 1..Len(linked[k]) : linked[k][l] = e
    BY <1>6, <2>3, <2>5
  <2>7. linked \in [1..n -> Seq(Entities \cup {None})]
    BY <1>3, <1>6, LinksHave
  <2>8. Has(Joined(n, linked), linked[k][l])
    BY <1>1, <2>3, <2>6, <2>7, JoinedHas
  <2> QED
    BY <1>12, <2>6, <2>8 DEF Has
<1>16. Names(links, gain)
  BY <1>15 DEF Names
<1>17. PICK pl : pl = Plan(<< >>, rows, {}, << >>, Goals(gain), << >>)
  OBVIOUS
<1>18. \A s \in Items(first) : s.do \in {"insert", "save", "drop"} /\ RowServed(s, pl)
  <2> SUFFICES ASSUME NEW s \in Items(first) PROVE s.do = "insert"
    BY DEF RowServed
  <2>1. PICK k \in 1..n : s = first[k]
    BY <1>10 DEF Items
  <2> QED
    BY <1>11, <2>1
<1>19. \A k \in 1..Len(first) : /\ first[k].do = "insert" <=> k <= Len(rows)
                                /\ first[k].do = "insert" => first[k].row = rows[k]
  BY <1>4, <1>10, <1>11
<1>20. /\ Len(rows) \in Nat /\ Len(rows) <= Len(first)
       /\ \A i \in DOMAIN << >> : /\ i \in Ids /\ i < next
                                  /\ \E s \in Items(first) : Row(i) \in Pending(s)
  BY <1>4, <1>10
<1>21. Ask(p, "import", first \o NetAdjustments(links, gain))
  BY <1>8, <1>12
<1>22. first \in Seq(S) /\ links \in Seq(Entities \cup {None})
  BY <1>10, <1>12
<1>23. Carried(p, pl)'
  BY <1>14, <1>16, <1>17, <1>18, <1>19, <1>20, <1>21, <1>22, AskPosts
<1>24. rows = Rows(batch)
  BY <1>1, <1>2 DEF Rows
<1>25. gain = Imports(Rows(batch))
  BY <1>4, <1>7, <1>24 DEF Imports
<1>26. pl = Adding(Rows(batch), Imports(Rows(batch)))
  BY <1>17, <1>24, <1>25 DEF Adding
<1>27. \A k \in 1..Len(batch) : LinksExist(batch[k])
  <2>1. PICK m \in 1..MaxBatch : batch \in [1..m -> Fields]
    BY DEF Batches
  <2>2. m \in Nat
    BY <2>1, Bounds
  <2>3. DOMAIN batch = 1..Len(batch)
    BY <2>1, <2>2, SeqDef, LenProperties
  <2> QED
    BY <2>3 DEF AskImport
<1>28. Importing(pl)
  BY <1>26, <1>27 DEF Importing
<1> QED
  BY <1>23, <1>28 DEF Intended

\* What applyTransferAdjustment posts to one entity.
LEMMA PostItems ==
  ASSUME NEW x \in Entities \cup {None}, NEW d \in Int
  PROVE  /\ Post(x, d) \in Seq(Adjustments)
         /\ \A s \in Items(Post(x, d)) : s.do = "adjust" /\ s.on = x
         /\ x # None => \E s \in Items(Post(x, d)) : s.do = "adjust" /\ s.on = x
<1>1. CASE x = None
  <2>1. PICK list : list = Post(x, d)
    OBVIOUS
  <2>2. list = << >>
    BY <1>1, <2>1 DEF Post
  <2>3. list \in Seq(Adjustments) /\ Items(list) = {}
    BY <2>2 DEF Items
  <2> QED
    BY <1>1, <2>1, <2>3
<1>2. CASE x \in Entities
  <2>1. PICK s \in Adjustments : s = Adjust(x, d)
    BY <1>2, SeedKinds
  <2>2. PICK list : list = <<s>>
    OBVIOUS
  <2>3. Post(x, d) = list
    BY <1>2, <2>1, <2>2, Kinds DEF Post
  <2>4. Items(list) = {s}
    BY <2>2, ItemsOne
  <2>5. list \in Seq(Adjustments)
    BY <2>1, <2>2
  <2>6. s.do = "adjust" /\ s.on = x
    BY <2>1 DEF Adjust
  <2> QED
    BY <2>3, <2>4, <2>5, <2>6
<1> QED
  BY <1>1, <1>2

\* What it posts for a record: to its goal, among the goals.
LEMMA LegItems ==
  ASSUME NEW r \in Draft, NEW sign \in {1, -1}
  PROVE  /\ LegAdjustments(r, sign) \in Seq(Adjustments)
         /\ \A s \in Items(LegAdjustments(r, sign)) :
              s.do = "adjust" /\ (s.on \in Objectives => s.on = r.objective)
         /\ r.objective \in Objectives =>
              \E s \in Items(LegAdjustments(r, sign)) : s.do = "adjust" /\ s.on = r.objective
<1>1. /\ r.origin \in Entities \cup {None} /\ r.destination \in Entities \cup {None}
      /\ r.objective \in Entities \cup {None} /\ r.amount \in Int
  <2>1. r.amount \in Int
    BY Values DEF Draft
  <2>2. /\ r.origin \in Entities \cup {None} /\ r.destination \in Entities \cup {None}
        /\ r.objective \in Entities \cup {None}
    BY DEF Draft, AccountOrNone, ObjectiveOrNone, Entities, Patrimony
  <2> QED
    BY <2>1, <2>2
<1>2. r.origin \notin Objectives /\ r.destination \notin Objectives /\ None \notin Objectives
  BY Kinds DEF Draft, AccountOrNone, Entities
<1>3. PICK gain \in Int, loss \in Int : gain = sign * r.amount /\ loss = - (sign * r.amount)
  <2>1. sign * r.amount \in Int /\ - (sign * r.amount) \in Int
    BY <1>1
  <2> QED
    BY <2>1
<1>4. PICK a, b, c : /\ a = Post(r.origin, loss) /\ b = Post(r.destination, gain)
                     /\ c = Post(r.objective, gain)
  OBVIOUS
<1>5. gain \in Int /\ loss \in Int
  BY <1>3
<1>6. /\ a \in Seq(Adjustments) /\ \A s \in Items(a) : s.do = "adjust" /\ s.on = r.origin
      /\ b \in Seq(Adjustments) /\ \A s \in Items(b) : s.do = "adjust" /\ s.on = r.destination
      /\ c \in Seq(Adjustments) /\ \A s \in Items(c) : s.do = "adjust" /\ s.on = r.objective
      /\ r.objective # None => \E s \in Items(c) : s.do = "adjust" /\ s.on = r.objective
  BY <1>1, <1>4, <1>5, PostItems
<1>7. PICK S : S = Adjustments
  OBVIOUS
<1>8. a \in Seq(S) /\ b \in Seq(S) /\ c \in Seq(S)
  BY <1>6, <1>7
<1>9. PICK d : d = a \o b
  OBVIOUS
<1>10. d \in Seq(S)
  BY <1>8, <1>9
<1>11. Items(a \o b) = Items(a) \cup Items(b)
  BY <1>8, ItemsJoined
<1>12. Items(d \o c) = Items(d) \cup Items(c)
  BY <1>8, <1>10, ItemsJoined
<1>13. PICK list : list = d \o c
  OBVIOUS
<1>14. list \in Seq(S) /\ Items(list) = Items(a) \cup Items(b) \cup Items(c)
  BY <1>8, <1>9, <1>10, <1>11, <1>12, <1>13
<1>15. LegAdjustments(r, sign) = list
  BY <1>3, <1>4, <1>9, <1>13 DEF LegAdjustments
<1>16. \A s \in Items(list) : s.do = "adjust" /\ (s.on \in Objectives => s.on = r.objective)
  BY <1>2, <1>6, <1>14
<1>17. r.objective \in Objectives => \E s \in Items(list) : s.do = "adjust" /\ s.on = r.objective
  BY <1>2, <1>6, <1>14
<1> QED
  BY <1>7, <1>14, <1>15, <1>16, <1>17

\* A request that adds no row and no payment, and states no balance.
LEMMA AskLeaves ==
  ASSUME RaceInv, NEW p \in Requests, NEW op, NEW S, NEW list \in Seq(S), Ask(p, op, list),
         NEW rows, NEW touched, NEW pl, pl = Leaving(rows, touched),
         \A s \in Items(list) :
           s.do \in {"adjust", "drop", "save"} /\ RowServed(s, pl) /\ MoneyServed(s, pl),
         \A i \in DOMAIN rows : /\ i \in Ids /\ i < next
                                /\ \E s \in Items(list) : Row(i) \in Pending(s),
         \A o \in Objectives \cap touched : \E s \in Items(list) : s.do = "adjust" /\ s.on = o
  PROVE  Carried(p, pl)'
<1>1. /\ pl.rows = rows /\ pl.fresh = << >> /\ pl.gone = {} /\ pl.paid = << >>
      /\ pl.touched = touched /\ pl.hand = << >>
  BY PlanParts DEF Leaving
<1>2. SetOut(Items(list), pl)
  <2>1. \A k \in Payments : k \in pl.gone <=> \E s \in Items(list) : s.do = "unpay" /\ s.id = k
    BY <1>1
  <2>2. DOMAIN pl.hand = {}
    BY <1>1
  <2> QED
    BY <1>1, <2>1, <2>2 DEF SetOut
<1>3. Inserting(list, pl)
  <2>1. Len(pl.fresh) = 0
    BY <1>1
  <2>2. ASSUME NEW k \in 1..Len(list) PROVE list[k].do # "insert" /\ ~ (k <= Len(pl.fresh))
    <3>1. list[k] \in Items(list)
      BY <2>2 DEF Items
    <3>2. ~ (k <= Len(pl.fresh))
      BY <2>1, <2>2
    <3> QED
      BY <3>1, <3>2
  <2>3. Len(pl.fresh) <= Len(list)
    BY <2>1
  <2> QED
    BY <2>1, <2>2, <2>3 DEF Inserting
<1>4. PayingFirst(list, pl)
  BY <1>1 DEF PayingFirst
<1> QED
  BY <1>2, <1>3, <1>4, AskCarries

\* softDeleteTransfer.
LEMMA UndonePlanned ==
  ASSUME NEW p \in Requests, RaceInv, NEW op, NEW i \in Ids, IsTransfer(i), Ask(p, op, Undone(i))
  PROVE  \E pl : Intended(pl) /\ Carried(p, pl)'
<1>1. PICK part : part = [j \in Ids |-> LegAdjustments(record[j], -1) \o <<Drop(j)>>]
  OBVIOUS
<1>2. PICK ids : ids = Legs(i)
  OBVIOUS
<1>3. PICK list : list = ForEach(ids, part)
  OBVIOUS
<1>4. Ask(p, op, list)
  BY <1>1, <1>2, <1>3 DEF Undone
<1>5. \A j \in ids : j \in Ids /\ j < next /\ record[j] \in Draft
  <2> SUFFICES ASSUME NEW j \in ids PROVE j \in Ids /\ j < next /\ record[j] \in Draft
    OBVIOUS
  <2>1. j \in Ids /\ Live(j)
    BY <1>2, LegRows
  <2> QED
    BY <2>1, LiveRow
<1>6. PICK S : S = Adjustments \cup {Drop(j) : j \in Ids}
  OBVIOUS
<1>7. ASSUME NEW j \in ids
      PROVE  /\ part[j] \in Seq(S)
             /\ Items(part[j]) = Items(LegAdjustments(record[j], -1)) \cup {Drop(j)}
  <2>1. PICK a : a = LegAdjustments(record[j], -1)
    OBVIOUS
  <2>2. a \in Seq(Adjustments)
    BY <1>5, <2>1, LegItems
  <2>3. a \in Seq(S)
    BY <1>6, <2>2
  <2>4. PICK x \in S : x = Drop(j)
    <3>1. Drop(j) \in S
      BY <1>5, <1>6
    <3> QED
      BY <3>1
  <2>5. Items(a \o <<x>>) = Items(a) \cup {x}
    BY <2>3, ItemsThen
  <2>6. x \in S
    BY <2>4
  <2>7. a \o <<x>> \in Seq(S)
    BY <2>3, <2>6
  <2>8. part[j] = a \o <<x>>
    BY <1>1, <1>5, <2>1, <2>4
  <2> QED
    BY <2>1, <2>4, <2>5, <2>7, <2>8
<1>8. list \in Seq(S) /\ Items(list) = UNION {Items(part[j]) : j \in ids \cap Ids}
  BY <1>3, <1>7, ItemsForEach
<1>9. PICK touched : touched = {record[j].objective : j \in ids}
  OBVIOUS
<1>10. PICK pl : pl = Leaving(Blanked(ids), touched)
  OBVIOUS
<1>11. pl.rows = Blanked(ids) /\ pl.touched = touched
  BY <1>10, PlanParts DEF Leaving
<1>12. ASSUME NEW s \in Items(list)
       PROVE  s.do \in {"adjust", "drop", "save"} /\ RowServed(s, pl) /\ MoneyServed(s, pl)
  <2>1. PICK j \in ids : s \in Items(part[j])
    BY <1>8, <1>12
  <2>2. CASE s = Drop(j)
    BY <1>11, <2>1, <2>2, BlankServed
  <2>3. CASE s \in Items(LegAdjustments(record[j], -1))
    <3>1. s.do = "adjust" /\ (s.on \in Objectives => s.on = record[j].objective)
      BY <1>5, <2>1, <2>3, LegItems
    <3>2. s.on \in Objectives => s.on \in touched
      BY <1>9, <2>1, <3>1
    <3> QED
      BY <1>11, <3>1, <3>2 DEF RowServed, MoneyServed
  <2> QED
    BY <1>7, <2>1, <2>2, <2>3
<1>13. ASSUME NEW j \in DOMAIN Blanked(ids)
       PROVE  j \in Ids /\ j < next /\ \E s \in Items(list) : Row(j) \in Pending(s)
  <2>1. j \in ids
    BY <1>13 DEF Blanked
  <2>2. PICK s : s = Drop(j)
    OBVIOUS
  <2>3. Row(j) \in Pending(s)
    BY <1>11, <2>1, <2>2, BlankServed
  <2>4. s \in Items(list)
    BY <1>5, <1>7, <1>8, <2>1, <2>2
  <2> QED
    BY <1>5, <2>1, <2>3, <2>4
<1>14. ASSUME NEW o \in Objectives \cap touched
       PROVE  \E s \in Items(list) : s.do = "adjust" /\ s.on = o
  <2>1. PICK j \in ids : o = record[j].objective
    BY <1>9, <1>14
  <2>2. PICK s \in Items(LegAdjustments(record[j], -1)) : s.do = "adjust" /\ s.on = o
    BY <1>5, <1>14, <2>1, LegItems
  <2>3. s \in Items(list)
    BY <1>5, <1>7, <1>8, <2>1, <2>2
  <2> QED
    BY <2>2, <2>3
<1>15. list \in Seq(S)
  BY <1>8
<1>16. Carried(p, pl)'
  BY <1>4, <1>10, <1>12, <1>13, <1>14, <1>15, AskLeaves
<1>17. Undoing(pl)
  BY <1>2, <1>9, <1>10 DEF Undoing
<1> QED
  BY <1>16, <1>17 DEF Intended

\* DELETE /transactions/:id plans a removal, of both legs for one of a transfer.
LEMMA RemovePlanned ==
  ASSUME NEW p \in Requests, RaceInv, NEW i \in Ids, AskRemove(p, i)
  PROVE  \E pl : Intended(pl) /\ Carried(p, pl)'
BY UndonePlanned, RemoveOnePlanned DEF AskRemove

\* DELETE /transfers/:id plans the removal of both legs.
LEMMA RemoveTransferPlanned ==
  ASSUME NEW p \in Requests, RaceInv, NEW i \in Ids, AskRemoveTransfer(p, i)
  PROVE  \E pl : Intended(pl) /\ Carried(p, pl)'
BY UndonePlanned DEF AskRemoveTransfer

\* Rows are inserted before anything else.
LEMMA InsertingThen ==
  ASSUME NEW S, NEW a \in Seq(S), NEW T, NEW b \in Seq(T),
         \A s \in Items(b) : s.do # "insert", NEW pl, Inserting(a, pl)
  PROVE  Inserting(a \o b, pl)
<1>1. PICK n \in Nat, m \in Nat : n = Len(a) /\ m = Len(b)
  OBVIOUS
<1>2. PICK list : list = a \o b
  OBVIOUS
<1>3. /\ Len(list) = n + m /\ \A k \in 1..n : list[k] = a[k]
      /\ \A k \in 1..m : list[n + k] = b[k]
  BY <1>1, <1>2
<1>4. PICK f \in Nat : f = Len(pl.fresh)
  BY DEF Inserting
<1>5. f <= n
  BY <1>1, <1>4 DEF Inserting
<1>6. ASSUME NEW k \in 1..Len(list)
      PROVE  /\ list[k].do = "insert" <=> k <= f
             /\ list[k].do = "insert" => list[k].row = pl.fresh[k]
  <2>1. CASE k <= n
    <3>1. k \in 1..n
      BY <1>1, <1>3, <1>6, <2>1
    <3> QED
      BY <1>1, <1>3, <1>4, <3>1 DEF Inserting
  <2>2. CASE ~ (k <= n)
    <3>1. k - n \in 1..m /\ n + (k - n) = k
      BY <1>1, <1>3, <1>6, <2>2
    <3>2. list[k] = b[k - n]
      BY <1>3, <3>1
    <3>3. b[k - n] \in Items(b)
      BY <1>1, <3>1 DEF Items
    <3>4. ~ (k <= f)
      BY <1>1, <1>4, <1>5, <1>6, <2>2
    <3> QED
      BY <3>2, <3>3, <3>4
  <2> QED
    BY <2>1, <2>2
<1>7. f <= Len(list)
  BY <1>1, <1>3, <1>4, <1>5
<1> QED
  BY <1>2, <1>4, <1>6, <1>7 DEF Inserting

\* A list of two.
LEMMA ItemsTwo ==
  ASSUME NEW x, NEW y
  PROVE  <<x, y>> \in Seq({x, y}) /\ Items(<<x, y>>) = {x, y}
<1>1. PICK list : list = <<x, y>>
  OBVIOUS
<1>2. list \in Seq({x, y}) /\ Len(list) = 2 /\ list[1] = x /\ list[2] = y
  BY <1>1
<1>3. Items(list) = {x, y}
  BY <1>2 DEF Items
<1> QED
  BY <1>1, <1>2, <1>3

\* POST /transfers plans two legs and the goal of the second.
LEMMA TransferPlanned ==
  ASSUME NEW p \in Requests, RaceInv, NEW source \in Accounts, NEW dest \in Accounts,
         NEW amount \in Amounts, NEW goal \in ObjectiveOrNone,
         AskTransfer(p, source, dest, amount, goal)
  PROVE  \E pl : Intended(pl) /\ Carried(p, pl)'
<1>1. RaceTypes /\ SomeText \in Descriptions
  BY LedgerAssumption DEF RaceInv, SomeText
<1>2. next \in Nat /\ "transfer" \in Types
  BY <1>1, RaceTypeParts, Values
<1>3. PICK out : out = Origin(amount, source)
  OBVIOUS
<1>4. PICK in : in = Arrival(amount, goal, dest)
  OBVIOUS
<1>5. out \in Draft /\ in \in Draft /\ out.objective = None /\ in.objective = goal
  BY <1>1, <1>2, <1>3, <1>4
     DEF Origin, Arrival, Leg, Draft, States, ObjectiveOrNone, PatrimonyOrNone, AccountOrNone,
         CategoryOrNone, CompanyOrNone
<1>6. PICK x, y : x = Insert(out) /\ y = Insert(in)
  OBVIOUS
<1>7. x.do = "insert" /\ x.row = out /\ y.do = "insert" /\ y.row = in
  BY <1>6 DEF Insert
<1>8. PICK a, S : a = <<x, y>> /\ S = {x, y}
  OBVIOUS
<1>9. a \in Seq(S) /\ Items(a) = S /\ Len(a) = 2 /\ a[1] = x /\ a[2] = y
  <2>1. Len(a) = 2 /\ a[1] = x /\ a[2] = y
    BY <1>8
  <2>2. a \in Seq(S) /\ Items(a) = S
    BY <1>8, ItemsTwo
  <2> QED
    BY <2>1, <2>2
<1>10. PICK b : b = LegAdjustments(out, 1)
  OBVIOUS
<1>11. PICK c : c = LegAdjustments(in, 1)
  OBVIOUS
<1>12. PICK T : T = Adjustments
  OBVIOUS
<1>13. /\ b \in Seq(T) /\ c \in Seq(T)
       /\ \A s \in Items(b) : s.do = "adjust" /\ s.on \notin Objectives
       /\ \A s \in Items(c) : s.do = "adjust" /\ (s.on \in Objectives => s.on = goal)
       /\ goal \in Objectives => \E s \in Items(c) : s.do = "adjust" /\ s.on = goal
  <2>1. None \notin Objectives
    BY Kinds DEF Entities
  <2> QED
    BY <1>5, <1>10, <1>11, <1>12, <2>1, LegItems
<1>14. a \in Seq(S) /\ b \in Seq(T) /\ c \in Seq(T)
  BY <1>9, <1>13
<1>15. PICK d : d = a \o b
  OBVIOUS
<1>16. PICK U : U = S \cup T
  OBVIOUS
<1>17. a \o b \in Seq(S \cup T)
  BY <1>14, Followed
<1>18. d \in Seq(U)
  BY <1>15, <1>16, <1>17
<1>19. PICK list : list = d \o c
  OBVIOUS
<1>20. d \o c \in Seq(U \cup T)
  BY <1>14, <1>18, Followed
<1>21. Items(a \o b) = Items(a) \cup Items(b)
  BY <1>14, ItemsJoined
<1>22. Items(d \o c) = Items(d) \cup Items(c)
  BY <1>14, <1>18, ItemsJoined
<1>23. Items(list) = {x, y} \cup Items(b) \cup Items(c)
  BY <1>8, <1>9, <1>15, <1>19, <1>21, <1>22
<1>24. PICK fresh : fresh = <<out, in>>
  OBVIOUS
<1>25. Len(fresh) = 2 /\ fresh[1] = out /\ fresh[2] = in
  BY <1>24
<1>26. PICK pl : pl = Plan(<< >>, fresh, {}, << >>, {goal}, << >>)
  OBVIOUS
<1>27. /\ pl.rows = << >> /\ pl.fresh = fresh /\ pl.gone = {} /\ pl.paid = << >>
       /\ pl.touched = {goal} /\ pl.hand = << >>
  BY <1>26, PlanParts
<1>28. SetOut(Items(list), pl)
  <2>1. \A s \in Items(list) : s.do \in {"insert", "adjust"}
    BY <1>7, <1>13, <1>23
  <2>2. \A s \in Items(list) : s.do = "adjust" /\ s.on \in Objectives => s.on = goal
    BY <1>7, <1>13, <1>23
  <2>3. \A s \in Items(list) : s.do \notin {"update", "commit"} /\ RowServed(s, pl) /\ MoneyServed(s, pl)
    BY <1>27, <2>1, <2>2 DEF RowServed, MoneyServed
  <2>4. \A k \in Payments : k \in pl.gone <=> \E s \in Items(list) : s.do = "unpay" /\ s.id = k
    BY <1>27, <2>1
  <2>5. \A o \in Objectives \cap pl.touched : \E s \in Items(list) : s.do = "adjust" /\ s.on = o
    BY <1>13, <1>23, <1>27
  <2>6. DOMAIN pl.hand = {} /\ DOMAIN pl.rows = {}
    BY <1>27
  <2> QED
    BY <2>3, <2>4, <2>5, <2>6 DEF SetOut
<1>29. Inserting(a, pl)
  <2>1. \A k \in 1..2 : a[k].do = "insert" /\ a[k].row = fresh[k]
    BY <1>7, <1>9, <1>25
  <2>2. Len(pl.fresh) = 2 /\ Len(a) = 2 /\ \A k \in 1..2 : pl.fresh[k] = fresh[k]
    BY <1>9, <1>25, <1>27
  <2>3. \A k \in 1..2 : k <= 2
    OBVIOUS
  <2> QED
    BY <2>1, <2>2, <2>3 DEF Inserting
<1>30. Inserting(a \o b, pl)
  BY <1>13, <1>14, <1>29, InsertingThen
<1>31. Inserting(d \o c, pl)
  BY <1>13, <1>14, <1>15, <1>18, <1>30, InsertingThen
<1>32. PayingFirst(list, pl)
  BY <1>7, <1>13, <1>23, <1>27 DEF PayingFirst
<1>33. PICK V : V = U \cup T
  OBVIOUS
<1>34. list \in Seq(V)
  BY <1>19, <1>20, <1>33
<1>35. Ask(p, "transfer", list)
  BY <1>3, <1>4, <1>6, <1>8, <1>10, <1>11, <1>15, <1>19 DEF AskTransfer, Origin, Arrival, SomeText
<1>36. Carried(p, pl)'
  BY <1>19, <1>28, <1>31, <1>32, <1>34, <1>35, AskCarries
<1>37. Transferring(pl)
  BY <1>3, <1>4, <1>24, <1>26 DEF Transferring, AskTransfer
<1> QED
  BY <1>36, <1>37 DEF Intended

\* PATCH /transfers/:id plans both legs amended and the goals they leave and join.
LEMMA AmendPlanned ==
  ASSUME NEW p \in Requests, RaceInv, NEW i \in Ids, NEW amount \in AmountOrNone,
         NEW relink \in BOOLEAN, NEW goal \in ObjectiveOrNone,
         AskAmend(p, i, amount, relink, goal)
  PROVE  \E pl : Intended(pl) /\ Carried(p, pl)'
<1>0. RaceTypes /\ TypeOK /\ IsTransfer(i) /\ Exists(goal)
  BY DEF RaceInv, RaceTypes, AskAmend
<1>1. PICK row : row = [j \in Ids |-> Amended(j, amount, None, relink, goal)]
  OBVIOUS
<1>2. PICK stated : stated = IF amount = None THEN {} ELSE {"amount"}
  OBVIOUS
<1>3. PICK ids : ids = Legs(i)
  OBVIOUS
<1>4. PICK undo : undo = [j \in Ids |-> LegAdjustments(record[j], -1)]
  OBVIOUS
<1>5. PICK redo : redo = [j \in Ids |-> <<Save(j, row[j], stated)>> \o LegAdjustments(row[j], 1)]
  OBVIOUS
<1>6. \A j \in ids : j \in Ids /\ j < next /\ record[j] \in Draft /\ row[j] \in Draft
  <2> SUFFICES ASSUME NEW j \in ids
               PROVE  j \in Ids /\ j < next /\ record[j] \in Draft /\ row[j] \in Draft
    OBVIOUS
  <2>1. j \in Ids /\ Live(j)
    BY <1>0, <1>3, LegRows
  <2>2. j < next /\ record[j] \in Draft
    BY <2>1, LiveRow
  <2>3. row[j] \in Draft
    BY <1>0, <1>1, <2>1, AmendedType, RecordDraft DEF DescriptionOrNone
  <2> QED
    BY <2>1, <2>2, <2>3
<1>7. PICK S : S = Adjustments \cup {Save(j, row[j], stated) : j \in Ids}
  OBVIOUS
<1>8. ASSUME NEW j \in ids
      PROVE  undo[j] \in Seq(S) /\ Items(undo[j]) = Items(LegAdjustments(record[j], -1))
  <2>1. LegAdjustments(record[j], -1) \in Seq(Adjustments)
    BY <1>6, LegItems
  <2>2. undo[j] = LegAdjustments(record[j], -1)
    BY <1>4, <1>6
  <2> QED
    BY <1>7, <2>1, <2>2
<1>9. ASSUME NEW j \in ids
      PROVE  /\ redo[j] \in Seq(S)
             /\ Items(redo[j]) = {Save(j, row[j], stated)} \cup Items(LegAdjustments(row[j], 1))
  <2>1. PICK b : b = LegAdjustments(row[j], 1)
    OBVIOUS
  <2>2. b \in Seq(Adjustments)
    BY <1>6, <2>1, LegItems
  <2>3. b \in Seq(S)
    BY <1>7, <2>2
  <2>4. PICK x : x = Save(j, row[j], stated)
    OBVIOUS
  <2>5. x \in S
    BY <1>6, <1>7, <2>4
  <2>6. PICK a : a = <<x>>
    OBVIOUS
  <2>7. a \in Seq(S)
    BY <2>5, <2>6
  <2>8. Items(a) = {x}
    BY <2>6, ItemsOne
  <2>9. Items(a \o b) = Items(a) \cup Items(b)
    BY <2>3, <2>7, ItemsJoined
  <2>10. a \o b \in Seq(S)
    BY <2>3, <2>7
  <2>11. redo[j] = a \o b
    BY <1>5, <1>6, <2>1, <2>4, <2>6
  <2> QED
    BY <2>1, <2>4, <2>8, <2>9, <2>10, <2>11
<1>10. PICK a : a = ForEach(ids, undo)
  OBVIOUS
<1>11. PICK b : b = ForEach(ids, redo)
  OBVIOUS
<1>12. a \in Seq(S) /\ Items(a) = UNION {Items(undo[j]) : j \in ids \cap Ids}
  <2>1. \A j \in ids \cap Ids : undo[j] \in Seq(S)
    BY <1>8
  <2> QED
    BY <1>10, <2>1, ItemsForEach
<1>13. b \in Seq(S) /\ Items(b) = UNION {Items(redo[j]) : j \in ids \cap Ids}
  <2>1. \A j \in ids \cap Ids : redo[j] \in Seq(S)
    BY <1>9
  <2> QED
    BY <1>11, <2>1, ItemsForEach
<1>14. a \in Seq(S) /\ b \in Seq(S)
  BY <1>12, <1>13
<1>15. Items(a \o b) = Items(a) \cup Items(b)
  BY <1>14, ItemsJoined
<1>16. PICK list : list = a \o b
  OBVIOUS
<1>17. list \in Seq(S)
  BY <1>14, <1>16
<1>18. PICK touched : touched = {record[j].objective : j \in ids}
                         \cup {Amended(j, amount, None, relink, goal).objective : j \in ids}
  OBVIOUS
<1>19. PICK rows : rows = Amend(i, amount, relink, goal)
  OBVIOUS
<1>20. DOMAIN rows = ids /\ \A j \in ids : rows[j] = row[j]
  BY <1>1, <1>3, <1>6, <1>19 DEF Amend
<1>21. \A j \in ids : record[j].objective \in touched /\ row[j].objective \in touched
  BY <1>1, <1>6, <1>18
<1>22. \A o \in touched : \E j \in ids : o = record[j].objective \/ o = row[j].objective
  BY <1>1, <1>6, <1>18
<1>23. PICK pl : pl = Leaving(rows, touched)
  OBVIOUS
<1>24. pl.rows = rows /\ pl.touched = touched
  BY <1>23, PlanParts DEF Leaving
<1>25. ASSUME NEW j \in ids, NEW s, s = Save(j, row[j], stated)
       PROVE  /\ s.do = "save" /\ RowServed(s, pl) /\ MoneyServed(s, pl)
              /\ Row(j) \in Pending(s) /\ s \in Items(list)
  <2>1. s.do = "save" /\ s.id = j /\ s.row = row[j]
    BY <1>25 DEF Save
  <2>2. RowServed(s, pl) /\ MoneyServed(s, pl) /\ Row(j) \in Pending(s)
    BY <1>20, <1>24, <2>1 DEF RowServed, MoneyServed, Pending
  <2>3. s \in Items(redo[j])
    BY <1>9, <1>25
  <2> QED
    BY <1>6, <1>13, <1>15, <1>16, <2>1, <2>2, <2>3
<1>26. ASSUME NEW r \in Draft, NEW sign \in {1, -1}, r.objective \in touched,
              NEW s \in Items(LegAdjustments(r, sign))
       PROVE  s.do = "adjust" /\ RowServed(s, pl) /\ MoneyServed(s, pl)
  <2>1. s.do = "adjust" /\ (s.on \in Objectives => s.on = r.objective)
    BY <1>26, LegItems
  <2> QED
    BY <1>24, <1>26, <2>1 DEF RowServed, MoneyServed
<1>27. ASSUME NEW s \in Items(list)
       PROVE  s.do \in {"adjust", "drop", "save"} /\ RowServed(s, pl) /\ MoneyServed(s, pl)
  <2>1. CASE s \in Items(a)
    <3>1. PICK j \in ids : s \in Items(undo[j])
      BY <1>12, <2>1
    <3>2. s \in Items(LegAdjustments(record[j], -1))
      BY <1>8, <3>1
    <3> QED
      BY <1>6, <1>21, <1>26, <3>1, <3>2
  <2>2. CASE s \in Items(b)
    <3>1. PICK j \in ids : s \in Items(redo[j])
      BY <1>13, <2>2
    <3>2. CASE s = Save(j, row[j], stated)
      BY <1>25, <3>1, <3>2
    <3>3. CASE s \in Items(LegAdjustments(row[j], 1))
      BY <1>6, <1>21, <1>26, <3>1, <3>3
    <3> QED
      BY <1>9, <3>1, <3>2, <3>3
  <2> QED
    BY <1>15, <1>16, <1>27, <2>1, <2>2
<1>28. ASSUME NEW j \in DOMAIN rows
       PROVE  j \in Ids /\ j < next /\ \E s \in Items(list) : Row(j) \in Pending(s)
  BY <1>6, <1>20, <1>25, <1>28
<1>29. ASSUME NEW o \in Objectives \cap touched
       PROVE  \E s \in Items(list) : s.do = "adjust" /\ s.on = o
  <2>1. PICK j \in ids : o = record[j].objective \/ o = row[j].objective
    BY <1>22, <1>29
  <2>2. CASE o = record[j].objective
    <3>1. PICK s \in Items(LegAdjustments(record[j], -1)) : s.do = "adjust" /\ s.on = o
      BY <1>6, <1>29, <2>1, <2>2, LegItems
    <3>2. s \in Items(a)
      BY <1>6, <1>8, <1>12, <2>1, <3>1
    <3> QED
      BY <1>15, <1>16, <3>1, <3>2
  <2>3. CASE o = row[j].objective
    <3>1. PICK s \in Items(LegAdjustments(row[j], 1)) : s.do = "adjust" /\ s.on = o
      BY <1>6, <1>29, <2>1, <2>3, LegItems
    <3>2. s \in Items(b)
      BY <1>6, <1>9, <1>13, <2>1, <3>1
    <3> QED
      BY <1>15, <1>16, <3>1, <3>2
  <2> QED
    BY <2>1, <2>2, <2>3
<1>30. Ask(p, "amend", list)
  BY <1>1, <1>2, <1>3, <1>4, <1>5, <1>10, <1>11, <1>16 DEF AskAmend
<1>31. Carried(p, pl)'
  BY <1>17, <1>23, <1>27, <1>28, <1>29, <1>30, AskLeaves
<1>32. pl = Leaving(Amend(i, amount, relink, goal),
                    {record[j].objective : j \in Legs(i)}
                      \cup {Amended(j, amount, None, relink, goal).objective : j \in Legs(i)})
  BY <1>3, <1>18, <1>19, <1>23
<1>33. Amending(pl)
  BY <1>0, <1>32 DEF Amending
<1> QED
  BY <1>31, <1>33 DEF Intended

\* A payment of a goal is planned as one.
LEMMA PayPlanned ==
  ASSUME NEW p \in Requests, RaceInv, NEW o \in Objectives, NEW amount \in Amounts,
         AskPay(p, o, amount)
  PROVE  \E pl : Intended(pl) /\ Carried(p, pl)'
<1>1. status[o] = "live" /\ o \in Entities
  BY DEF AskPay, Entities
<1>2. PICK total : total = balance[o] + amount
  OBVIOUS
<1>3. PICK figure : figure = Figure(total, Reached(o, total), FALSE)
  OBVIOUS
<1>4. figure.balance = total /\ figure.completed = Reached(o, total) /\ figure.byHand = FALSE
  BY <1>3 DEF Figure
<1>5. PICK x, y : x = InsertPay(Instalment(o, amount)) /\ y = Write(o, figure, TRUE)
  OBVIOUS
<1>6. /\ x.do = "pay" /\ x.row = Instalment(o, amount)
      /\ y.do = "write" /\ y.on = o /\ y.figure = figure
  BY <1>5 DEF InsertPay, Write
<1>7. PICK S : S = {x, y}
  OBVIOUS
<1>8. PICK list : list = <<x, y>>
  OBVIOUS
<1>9. list \in Seq(S) /\ Items(list) = S
  BY <1>7, <1>8, ItemsTwo
<1>10. Len(list) = 2 /\ list[1] = x /\ list[2] = y
  BY <1>8
<1>11. PICK pl : pl = Plan(<< >>, << >>, {}, <<Instalment(o, amount)>>, {o}, << >>)
  OBVIOUS
<1>12. /\ pl.rows = << >> /\ pl.fresh = << >> /\ pl.gone = {}
       /\ pl.paid = <<Instalment(o, amount)>> /\ pl.touched = {o} /\ pl.hand = << >>
  BY <1>11, PlanParts
<1>13. SetOut(Items(list), pl)
  <2>1. MoneyServed(x, pl) /\ RowServed(x, pl) /\ RowServed(y, pl)
    BY <1>6 DEF RowServed, MoneyServed
  <2>2. MoneyServed(y, pl)
    BY <1>1, <1>4, <1>6, <1>12 DEF MoneyServed, Proven
  <2>3. \A s \in Items(list) : s.do \notin {"update", "commit"} /\ RowServed(s, pl) /\ MoneyServed(s, pl)
    BY <1>6, <1>7, <1>9, <2>1, <2>2
  <2>4. \A k \in Payments : k \in pl.gone <=> \E s \in Items(list) : s.do = "unpay" /\ s.id = k
    BY <1>6, <1>7, <1>9, <1>12
  <2>5. \A g \in Objectives \cap pl.touched : \E s \in Items(list) : s.do \in {"adjust", "write"} /\ s.on = g
    BY <1>6, <1>7, <1>9, <1>12
  <2>6. DOMAIN pl.hand = {} /\ DOMAIN pl.rows = {}
    BY <1>12
  <2> QED
    BY <2>3, <2>4, <2>5, <2>6 DEF SetOut
<1>14. Inserting(list, pl)
  <2>1. Len(pl.fresh) = 0
    BY <1>12
  <2>2. \A k \in 1..2 : list[k].do # "insert" /\ ~ (k <= 0)
    BY <1>6, <1>10
  <2> QED
    BY <1>10, <2>1, <2>2 DEF Inserting
<1>15. PayingFirst(list, pl)
  BY <1>6, <1>10, <1>12 DEF PayingFirst
<1>16. Ask(p, "pay", list)
  BY <1>2, <1>3, <1>5, <1>8 DEF AskPay, Instalment
<1>17. list \in Seq(S)
  BY <1>9
<1>18. Carried(p, pl)'
  BY <1>13, <1>14, <1>15, <1>16, <1>17, AskCarries
<1>19. Paying(pl)
  BY <1>1, <1>11 DEF Paying
<1> QED
  BY <1>18, <1>19 DEF Intended

\* The removal of a payment is planned as one.
LEMMA UnpayPlanned ==
  ASSUME NEW p \in Requests, RaceInv, NEW k \in Payments, AskUnpay(p, k)
  PROVE  \E pl : Intended(pl) /\ Carried(p, pl)'
<1>1. PICK o : o = payment[k].objective
  OBVIOUS
<1>2. PICK x, y : x = DropPay(k) /\ y = Adjust(o, - payment[k].amount)
  OBVIOUS
<1>3. x.do = "unpay" /\ x.id = k /\ y.do = "adjust" /\ y.on = o
  BY <1>2 DEF DropPay, Adjust
<1>4. PICK S : S = {x, y}
  OBVIOUS
<1>5. PICK list : list = <<x, y>>
  OBVIOUS
<1>6. list \in Seq(S) /\ Items(list) = S
  BY <1>4, <1>5, ItemsTwo
<1>7. Len(list) = 2 /\ list[1] = x /\ list[2] = y
  BY <1>5
<1>8. PICK pl : pl = Plan(<< >>, << >>, {k}, << >>, {o}, << >>)
  OBVIOUS
<1>9. /\ pl.rows = << >> /\ pl.fresh = << >> /\ pl.gone = {k}
      /\ pl.paid = << >> /\ pl.touched = {o} /\ pl.hand = << >>
  BY <1>8, PlanParts
<1>10. SetOut(Items(list), pl)
  <2>1. MoneyServed(x, pl) /\ RowServed(x, pl) /\ RowServed(y, pl) /\ MoneyServed(y, pl)
    BY <1>3, <1>9 DEF RowServed, MoneyServed
  <2>2. \A s \in Items(list) : s.do \notin {"update", "commit"} /\ RowServed(s, pl) /\ MoneyServed(s, pl)
    BY <1>3, <1>4, <1>6, <2>1
  <2>3. \A j \in Payments : j \in pl.gone <=> \E s \in Items(list) : s.do = "unpay" /\ s.id = j
    BY <1>3, <1>4, <1>6, <1>9
  <2>4. \A g \in Objectives \cap pl.touched : \E s \in Items(list) : s.do \in {"adjust", "write"} /\ s.on = g
    BY <1>3, <1>4, <1>6, <1>9
  <2>5. DOMAIN pl.hand = {} /\ DOMAIN pl.rows = {}
    BY <1>9
  <2> QED
    BY <2>2, <2>3, <2>4, <2>5 DEF SetOut
<1>11. Inserting(list, pl)
  <2>1. Len(pl.fresh) = 0
    BY <1>9
  <2>2. \A j \in 1..2 : list[j].do # "insert" /\ ~ (j <= 0)
    BY <1>3, <1>7
  <2> QED
    BY <1>7, <2>1, <2>2 DEF Inserting
<1>12. PayingFirst(list, pl)
  BY <1>3, <1>4, <1>6, <1>9 DEF PayingFirst
<1>13. payment[k].state = "live" /\ Ask(p, "unpay", list)
  BY <1>1, <1>2, <1>5 DEF AskUnpay
<1>14. list \in Seq(S)
  BY <1>6
<1>15. Carried(p, pl)'
  BY <1>10, <1>11, <1>12, <1>13, <1>14, AskCarries
<1>16. Unpaying(pl)
  BY <1>1, <1>8, <1>13 DEF Unpaying
<1> QED
  BY <1>15, <1>16 DEF Intended

\* PATCH of an entity plans the balance it states, or a completion decided anew.
LEMMA EditPlanned ==
  ASSUME NEW p \in Requests, RaceInv, NEW e \in Entities, NEW amount \in Overrides \cup {None},
         AskEdit(p, e, amount)
  PROVE  \E pl : Intended(pl) /\ Carried(p, pl)'
<1>1. status[e] = "live"
  BY DEF AskEdit
<1>2. PICK total : total = Given(amount, balance[e])
  OBVIOUS
<1>3. PICK figure : figure = Figure(total, Reached(e, total), amount # None)
  OBVIOUS
<1>4. figure.balance = total /\ figure.completed = Reached(e, total) /\ figure.byHand = (amount # None)
  BY <1>3 DEF Figure
<1>5. PICK x : x = Write(e, figure, amount # None)
  OBVIOUS
<1>6. x.do = "write" /\ x.on = e /\ x.figure = figure /\ x.counted = (amount # None)
  BY <1>5 DEF Write
<1>7. PICK S : S = {x}
  OBVIOUS
<1>8. PICK list : list = <<x>>
  OBVIOUS
<1>9. list \in Seq(S) /\ Items(list) = S
  BY <1>7, <1>8, ItemsOne
<1>10. Len(list) = 1 /\ list[1] = x
  BY <1>8
<1>11. PICK hand : hand = Stated(e, amount)
  OBVIOUS
<1>12. /\ amount = None => DOMAIN hand = {}
       /\ amount # None => DOMAIN hand = {e} /\ hand[e] = total
  BY <1>2, <1>11 DEF Stated, Given
<1>13. PICK pl : pl = Plan(<< >>, << >>, {}, << >>, {e}, hand)
  OBVIOUS
<1>14. /\ pl.rows = << >> /\ pl.fresh = << >> /\ pl.gone = {}
       /\ pl.paid = << >> /\ pl.touched = {e} /\ pl.hand = hand
  BY <1>13, PlanParts
<1>15. SetOut(Items(list), pl)
  <2>1. RowServed(x, pl)
    BY <1>6 DEF RowServed
  <2>2. Proven(e, figure, pl)
    BY <1>1, <1>4, <1>12, <1>14 DEF Proven
  <2>3. MoneyServed(x, pl)
    BY <1>4, <1>6, <2>2 DEF MoneyServed
  <2>4. \A s \in Items(list) : s.do \notin {"update", "commit"} /\ RowServed(s, pl) /\ MoneyServed(s, pl)
    BY <1>6, <1>7, <1>9, <2>1, <2>3
  <2>5. \A j \in Payments : j \in pl.gone <=> \E s \in Items(list) : s.do = "unpay" /\ s.id = j
    BY <1>6, <1>7, <1>9, <1>14
  <2>6. \A g \in Objectives \cap pl.touched : \E s \in Items(list) : s.do \in {"adjust", "write"} /\ s.on = g
    BY <1>6, <1>7, <1>9, <1>14
  <2>7. DOMAIN pl.rows = {}
    BY <1>14
  <2>8. ASSUME NEW g \in DOMAIN pl.hand
        PROVE  g \in Entities /\ \E s \in Items(list) : s.do = "write" /\ s.on = g /\ s.figure.byHand
    <3>1. amount # None /\ g = e
      BY <1>12, <1>14, <2>8
    <3>2. x.figure.byHand
      BY <1>4, <1>6, <3>1
    <3> QED
      BY <1>6, <1>7, <1>9, <3>1, <3>2
  <2> QED
    BY <2>4, <2>5, <2>6, <2>7, <2>8 DEF SetOut
<1>16. Inserting(list, pl)
  <2>1. Len(pl.fresh) = 0
    BY <1>14
  <2>2. \A j \in 1..1 : list[j].do # "insert" /\ ~ (j <= 0)
    BY <1>6, <1>10
  <2> QED
    BY <1>10, <2>1, <2>2 DEF Inserting
<1>17. PayingFirst(list, pl)
  BY <1>6, <1>7, <1>9, <1>14 DEF PayingFirst
<1>18. Ask(p, "edit", list)
  BY <1>2, <1>3, <1>5, <1>8 DEF AskEdit
<1>19. list \in Seq(S)
  BY <1>9
<1>20. Carried(p, pl)'
  BY <1>15, <1>16, <1>17, <1>18, <1>19, AskCarries
<1>21. Editing(pl)
  BY <1>1, <1>11, <1>13 DEF Editing
<1> QED
  BY <1>20, <1>21 DEF Intended

\* Every request begins with a plan.
LEMMA RequestPlanned ==
  ASSUME LegEdits # "any", NEW p \in Requests, RaceInv, AskRecord(p) \/ AskMoney(p)
  PROVE  \E pl : Intended(pl) /\ Carried(p, pl)'
<1>1. AskRecord(p) => \E pl : Intended(pl) /\ Carried(p, pl)'
  BY CreatePlanned, ImportPlanned, ClonePlanned, UpdatePlanned, RemovePlanned, RemoveManyPlanned
     DEF AskRecord
<1>2. AskMoney(p) => \E pl : Intended(pl) /\ Carried(p, pl)'
  BY TransferPlanned, AmendPlanned, RemoveTransferPlanned, PayPlanned, UnpayPlanned, EditPlanned
     DEF AskMoney
<1> QED
  BY <1>1, <1>2

-----------------------------------------------------------------------------
(* A commit carries a plan out in one step.                                *)

\* What the books are when the plan is done.
Lands(pl) ==
  /\ Len(pl.fresh) \in Nat /\ next + Len(pl.fresh) <= MaxRecords + 1
  /\ record' = [i \in Ids |->
       IF i \in DOMAIN pl.rows THEN pl.rows[i]
       ELSE IF i \in next .. (next + Len(pl.fresh) - 1)
       THEN [pl.fresh[i - next + 1] EXCEPT !.group = IF @ = 0 THEN 0 ELSE next]
       ELSE record[i]]
  /\ next' = next + Len(pl.fresh)
  /\ pl.paid # << >> => FreePayments # {}
  /\ payment' = [k \in Payments |->
       IF k \in pl.gone THEN NoPayment("deleted")
       ELSE IF pl.paid # << >> /\ k = NextPayment THEN pl.paid[1] ELSE payment[k]]
  /\ \A e \in Entities :
       balance'[e] = IF e \in DOMAIN pl.hand THEN pl.hand[e]
                     ELSE IF status[e] = "live" THEN balance[e] + (Explained(e)' - Explained(e))
                     ELSE balance[e]
  /\ DOMAIN balance' = Entities /\ balance' = [e \in Entities |-> balance'[e]]
  /\ base' = [e \in Entities |->
       IF e \in DOMAIN pl.hand THEN pl.hand[e] - Explained(e) ELSE base[e]]
  /\ completed' = [o \in Objectives |->
       IF status[o] = "live" /\ o \in pl.touched THEN balance'[o] >= target[o]
       ELSE completed[o]]
  /\ UNCHANGED <<status, target, rules>>

\* Of a request that commits, nothing else is left.
LEMMA OnlyCommit ==
  ASSUME RaceInv, NEW p \in Requests, todo[p] # << >>, Head(todo[p]).do = "commit"
  PROVE  /\ \A s \in Left(p) : s.do = "commit"
         /\ Len(todo[p]) = 1 /\ todo[p][1].do = "commit"
<1>1. todo[p] \in Seq(Statements) /\ Ordered(p)
  BY Starting
<1>2. Len(todo[p]) \in Nat /\ Len(todo[p]) >= 1
  BY <1>1
<1>3. todo[p][1].do = "commit" /\ 1 \in 1..Len(todo[p])
  BY <1>1, <1>2
<1>4. \A k \in 1..Len(todo[p]) : todo[p][k].do = "commit" <=> k = Len(todo[p])
  BY <1>1 DEF Ordered
<1>5. Len(todo[p]) = 1
  BY <1>3, <1>4
<1> QED
  BY <1>3, <1>5 DEF Left

\* The rows.
LEMMA RowsLand ==
  ASSUME RaceInv, NEW p \in Requests, todo[p] # << >>, Head(todo[p]).do = "commit",
         Keep(p), NEW pl, RowsCarried(p, pl), NewCarried(p, pl)
  PROVE  /\ Len(pl.fresh) \in Nat /\ next + Len(pl.fresh) <= MaxRecords + 1
         /\ next' = next + Len(pl.fresh)
         /\ record' = [i \in Ids |->
              IF i \in DOMAIN pl.rows THEN pl.rows[i]
              ELSE IF i \in next .. (next + Len(pl.fresh) - 1)
              THEN [pl.fresh[i - next + 1] EXCEPT !.group = IF @ = 0 THEN 0 ELSE next]
              ELSE record[i]]
<1>1. /\ \A s \in Left(p) : s.do = "commit"
      /\ Len(todo[p]) = 1 /\ todo[p][1].do = "commit"
  BY OnlyCommit
<1>2. new[p] \in Seq(Draft)
  BY Starting
<1>3. /\ Len(pl.fresh) \in Nat /\ Len(new[p]) \in Nat
      /\ Len(new[p]) <= Len(pl.fresh)
      /\ \A k \in 1..Len(new[p]) : new[p][k] = pl.fresh[k]
  BY <1>2 DEF NewCarried
<1>4. ~ (Len(new[p]) + 1 <= Len(pl.fresh))
  <2>1. 1 \in 1..Len(todo[p])
    BY <1>1
  <2>2. todo[p][1].do = "insert" <=> Len(new[p]) + 1 <= Len(pl.fresh)
    BY <2>1 DEF NewCarried
  <2> QED
    BY <1>1, <2>2
<1>5. Len(new[p]) = Len(pl.fresh)
  BY <1>3, <1>4
<1>6. PICK n \in Nat : n = Len(pl.fresh)
  BY <1>3
<1>7. /\ next + n <= MaxRecords + 1 /\ next' = next + n
      /\ record' = [i \in Ids |-> IF Row(i) \in DOMAIN work[p] THEN work[p][Row(i)]
                                  ELSE IF i \in next .. (next + n - 1)
                                  THEN [new[p][i - next + 1] EXCEPT !.group = IF @ = 0 THEN 0 ELSE next]
                                  ELSE record[i]]
  BY <1>5, <1>6 DEF Keep
<1>8. next \in Nat /\ next >= 1 /\ Ids \subseteq Nat
  BY RaceTypeParts, Bounds DEF RaceInv, Ids
<1>9. ASSUME NEW i \in Ids
      PROVE  record'[i] = IF i \in DOMAIN pl.rows THEN pl.rows[i]
                          ELSE IF i \in next .. (next + n - 1)
                          THEN [pl.fresh[i - next + 1] EXCEPT !.group = IF @ = 0 THEN 0 ELSE next]
                          ELSE record[i]
  <2>1. CASE Row(i) \in DOMAIN work[p]
    <3>1. i \in DOMAIN pl.rows /\ work[p][Row(i)] = pl.rows[i]
      BY <2>1 DEF RowsCarried
    <3> QED
      BY <1>7, <2>1, <3>1
  <2>2. CASE Row(i) \notin DOMAIN work[p] /\ i \in DOMAIN pl.rows
    <3>1. \A s \in Left(p) : Pending(s) = {}
      BY <1>1 DEF Pending
    <3>2. pl.rows[i] = record[i] /\ i < next
      BY <2>2, <3>1 DEF RowsCarried
    <3>3. i \notin next .. (next + n - 1)
      BY <1>8, <3>2
    <3> QED
      BY <1>7, <2>2, <3>2, <3>3
  <2>3. CASE Row(i) \notin DOMAIN work[p] /\ i \notin DOMAIN pl.rows
    <3>1. CASE i \in next .. (next + n - 1)
      <4>1. i - next + 1 \in 1..Len(new[p])
        BY <1>5, <1>6, <1>8, <3>1
      <4>2. new[p][i - next + 1] = pl.fresh[i - next + 1]
        BY <1>3, <4>1
      <4> QED
        BY <1>7, <2>3, <3>1, <4>2
    <3>2. CASE i \notin next .. (next + n - 1)
      BY <1>7, <2>3, <3>2
    <3> QED
      BY <3>1, <3>2
  <2> QED
    BY <2>1, <2>2, <2>3
<1>10. record' = [i \in Ids |-> record'[i]]
  BY <1>7
<1>11. record' = [i \in Ids |->
              IF i \in DOMAIN pl.rows THEN pl.rows[i]
              ELSE IF i \in next .. (next + n - 1)
              THEN [pl.fresh[i - next + 1] EXCEPT !.group = IF @ = 0 THEN 0 ELSE next]
              ELSE record[i]]
  BY ZenonT(60), <1>9, <1>10
<1> QED
  BY <1>3, <1>6, <1>7, <1>11

\* The payments.
LEMMA PaymentsLand ==
  ASSUME RaceInv, NEW p \in Requests, todo[p] # << >>, Head(todo[p]).do = "commit",
         Keep(p), NEW pl, PayCarried(p, pl)
  PROVE  /\ pl.paid # << >> => FreePayments # {}
         /\ payment' = [k \in Payments |->
              IF k \in pl.gone THEN NoPayment("deleted")
              ELSE IF pl.paid # << >> /\ k = NextPayment THEN pl.paid[1] ELSE payment[k]]
<1>1. /\ \A s \in Left(p) : s.do = "commit"
      /\ todo[p][1].do = "commit"
  BY OnlyCommit
<1>2. newPay[p] = pl.paid
  BY <1>1 DEF PayCarried
<1>3. \A k \in Payments : k \in pl.gone <=> Abono(k) \in DOMAIN work[p]
  BY <1>1 DEF PayCarried
<1>4. /\ newPay[p] # << >> => FreePayments # {}
      /\ payment' = [k \in Payments |->
           IF Abono(k) \in DOMAIN work[p] THEN work[p][Abono(k)]
           ELSE IF newPay[p] # << >> /\ k = NextPayment THEN newPay[p][1] ELSE payment[k]]
  BY DEF Keep
<1>5. RaceTypes /\ Imaged(p) /\ Traced(p)
  BY Starting
<1>6. \A k \in Payments : Abono(k) \in DOMAIN work[p] => payment'[k] = NoPayment("deleted")
  BY <1>5, KeepPayments
<1>7. \A k \in Payments :
        payment'[k] = IF k \in pl.gone THEN NoPayment("deleted")
                      ELSE IF pl.paid # << >> /\ k = NextPayment THEN pl.paid[1] ELSE payment[k]
  BY <1>2, <1>3, <1>4, <1>6
<1>8. payment' = [k \in Payments |-> payment'[k]]
  BY <1>4
<1> QED
  BY <1>2, <1>4, <1>7, <1>8

\* What a request has written of e by hand is what the plan states.
LEMMA ByHand ==
  ASSUME RaceInv, NEW p \in Requests, todo[p] # << >>, Head(todo[p]).do = "commit",
         NEW pl, MoneyCarried(p, pl), NEW e \in Entities
  PROVE  /\ OwnFigure(p, e).byHand <=> e \in DOMAIN pl.hand
         /\ e \in DOMAIN pl.hand => OwnFigure(p, e).balance = pl.hand[e]
         /\ Entity(e) \in DOMAIN work[p] => Proven(e, OwnFigure(p, e), pl)
<1>1. \A s \in Left(p) : s.do = "commit"
  BY OnlyCommit
<1>2. Entity(e) \in DOMAIN work[p] => Proven(e, work[p][Entity(e)], pl)
  BY DEF MoneyCarried
<1>3. e \in DOMAIN pl.hand => Entity(e) \in DOMAIN work[p] /\ work[p][Entity(e)].byHand
  BY <1>1 DEF MoneyCarried
<1>4. CASE Entity(e) \in DOMAIN work[p]
  <2>1. OwnFigure(p, e) = work[p][Entity(e)]
    BY <1>4 DEF OwnFigure
  <2>2. Proven(e, OwnFigure(p, e), pl)
    BY <1>2, <1>4, <2>1
  <2> QED
    BY <1>3, <2>1, <2>2 DEF Proven
<1>5. CASE Entity(e) \notin DOMAIN work[p]
  <2>1. OwnFigure(p, e) = Committed(e)
    BY <1>5 DEF OwnFigure
  <2>2. OwnFigure(p, e).byHand = FALSE
    BY <2>1 DEF Committed, Figure
  <2> QED
    BY <1>3, <1>5, <2>2
<1> QED
  BY <1>4, <1>5

\* The balances, of which nothing was raced.
LEMMA BalancesLand ==
  ASSUME RaceInv, NEW p \in Requests, Drawn(p), todo[p] # << >>, Head(todo[p]).do = "commit",
         Keep(p), raced = {}, raced' = raced, NEW pl, MoneyCarried(p, pl)
  PROVE  /\ \A e \in Entities :
              balance'[e] = IF e \in DOMAIN pl.hand THEN pl.hand[e]
                            ELSE IF status[e] = "live"
                            THEN balance[e] + (Explained(e)' - Explained(e))
                            ELSE balance[e]
         /\ DOMAIN balance' = Entities /\ balance' = [e \in Entities |-> balance'[e]]
         /\ base' = [e \in Entities |->
              IF e \in DOMAIN pl.hand THEN pl.hand[e] - Explained(e) ELSE base[e]]
<1>1. RaceTypes /\ Imaged(p)
  BY Starting
<1>2. /\ balance' \in [Entities -> Int] /\ base' \in [Entities -> Int]
      /\ status' = status
      /\ \A e \in Entities :
           /\ balance'[e] = OwnFigure(p, e).balance
           /\ OwnFigure(p, e).byHand => base'[e] = balance'[e] - Explained(e)
           /\ ~ OwnFigure(p, e).byHand => base'[e] = base[e] /\ balance'[e] = Own(p, e)
           /\ Entity(e) \notin DOMAIN work[p] => balance'[e] = balance[e]
  BY <1>1, KeepBalances
<1>3. \A e \in Entities :
        /\ OwnFigure(p, e).byHand <=> e \in DOMAIN pl.hand
        /\ e \in DOMAIN pl.hand => OwnFigure(p, e).balance = pl.hand[e]
        /\ Entity(e) \in DOMAIN work[p] => Proven(e, OwnFigure(p, e), pl)
  BY ByHand
<1>4. DamageIsConfined'
  BY CommitBalances
<1>5. ASSUME NEW e \in Entities, e \notin DOMAIN pl.hand, status[e] = "live"
      PROVE  balance'[e] = balance[e] + (Explained(e)' - Explained(e))
  <2>1. balance'[e] = base'[e] + Explained(e)'
    BY <1>2, <1>4, <1>5 DEF DamageIsConfined
  <2>2. balance[e] = base[e] + Explained(e)
    BY <1>5 DEF RaceInv, DamageIsConfined
  <2>3. base'[e] = base[e]
    BY <1>2, <1>3, <1>5
  <2>4. Explained(e) \in Int /\ Explained(e)' \in Int
    BY KeepExplains
  <2>5. base[e] \in Int
    BY <1>1, RaceTypeParts DEF RaceTypes, TypeOK
  <2>6. PICK x \in Int : x = Explained(e)'
    BY <2>4
  <2>7. balance'[e] = balance[e] + (x - Explained(e))
    BY <2>1, <2>2, <2>3, <2>4, <2>5, <2>6
  <2> QED
    BY <2>6, <2>7
<1>6. ASSUME NEW e \in Entities, e \notin DOMAIN pl.hand, status[e] # "live"
      PROVE  balance'[e] = balance[e]
  <2>1. Entity(e) \notin DOMAIN work[p]
    BY <1>3, <1>6 DEF Proven
  <2> QED
    BY <1>2, <2>1
<1>7. \A e \in Entities : e \in DOMAIN pl.hand => balance'[e] = pl.hand[e]
  BY <1>2, <1>3
<1>8. \A e \in Entities :
        base'[e] = IF e \in DOMAIN pl.hand THEN pl.hand[e] - Explained(e) ELSE base[e]
  BY <1>2, <1>3, <1>7
<1>9. base' = [e \in Entities |-> IF e \in DOMAIN pl.hand THEN pl.hand[e] - Explained(e) ELSE base[e]]
  BY <1>2, <1>8
<1>10. DOMAIN balance' = Entities /\ balance' = [e \in Entities |-> balance'[e]]
  BY <1>2
<1> QED
  BY <1>5, <1>6, <1>7, <1>9, <1>10

\* The completion of the goals.
LEMMA GoalsLand ==
  ASSUME RaceInv, NEW p \in Requests, todo[p] # << >>, Head(todo[p]).do = "commit",
         Keep(p), NEW pl, MoneyCarried(p, pl)
  PROVE  completed' = [o \in Objectives |->
           IF status[o] = "live" /\ o \in pl.touched THEN balance'[o] >= target[o]
           ELSE completed[o]]
<1>1. RaceTypes /\ Imaged(p)
  BY Starting
<1>2. \A e \in Entities :
        /\ balance'[e] = OwnFigure(p, e).balance
        /\ Entity(e) \notin DOMAIN work[p] => balance'[e] = balance[e]
  BY <1>1, KeepBalances
<1>3. completed' = [o \in Objectives |-> OwnFigure(p, o).completed]
  BY DEF Keep, OwnFigure
<1>4. ASSUME NEW o \in Objectives
      PROVE  OwnFigure(p, o).completed =
               IF status[o] = "live" /\ o \in pl.touched THEN balance'[o] >= target[o]
               ELSE completed[o]
  <2>1. o \in Entities
    BY DEF Entities
  <2>2. CASE Entity(o) \in DOMAIN work[p]
    <3>1. Proven(o, OwnFigure(p, o), pl)
      BY <2>1, <2>2, ByHand
    <3>2. status[o] = "live" /\ o \in pl.touched
          /\ OwnFigure(p, o).completed = Reached(o, OwnFigure(p, o).balance)
      BY <3>1 DEF Proven
    <3>3. Reached(o, OwnFigure(p, o).balance) = (balance'[o] >= target[o])
      BY <1>2, <2>1 DEF Reached
    <3> QED
      BY <3>2, <3>3
  <2>3. CASE Entity(o) \notin DOMAIN work[p]
    <3>1. completed[o] \in BOOLEAN
      BY <1>1 DEF RaceTypes, TypeOK
    <3>2. OwnFigure(p, o).completed = (o \in Objectives /\ completed[o])
      BY <2>3 DEF OwnFigure, Committed, Figure
    <3>3. OwnFigure(p, o).completed = completed[o]
      BY <3>1, <3>2
    <3>4. \A s \in Left(p) : s.do = "commit"
      BY OnlyCommit
    <3>5. status[o] = "live" /\ o \in pl.touched => completed[o] = (balance[o] >= target[o])
      BY <2>3, <3>4 DEF MoneyCarried
    <3>6. balance'[o] = balance[o]
      BY <1>2, <2>1, <2>3
    <3> QED
      BY <3>3, <3>5, <3>6
  <2> QED
    BY <2>2, <2>3
<1> QED
  BY <1>3, <1>4

\* A request that commits alone does what it planned.
LEMMA CommitLands ==
  ASSUME RaceInv, NEW p \in Requests, Drawn(p), Commits(p), raced = {},
         NEW pl, Carried(p, pl)
  PROVE  Lands(pl)
<1>1. todo[p] # << >> /\ Head(todo[p]).do = "commit" /\ Keep(p) /\ raced' = raced
  BY DEF Commits, Running, Forget
<1>2. /\ RowsCarried(p, pl) /\ NewCarried(p, pl) /\ PayCarried(p, pl)
      /\ MoneyCarried(p, pl)
  BY DEF Carried
<1>3. UNCHANGED <<status, target, rules>>
  BY <1>1 DEF Keep
<1>4. completed' = [o \in Objectives |->
           IF status[o] = "live" /\ o \in pl.touched THEN balance'[o] >= target[o]
           ELSE completed[o]]
  BY <1>1, <1>2, GoalsLand
<1> QED
  BY <1>1, <1>2, <1>3, <1>4, RowsLand, PaymentsLand, BalancesLand DEF Lands

-----------------------------------------------------------------------------
(* What a plan does is an operation of Ledger.                             *)

\* There are no categories here, and so no rules to learn.
LEMMA NoCategories ==
  /\ CategoryOrNone = {None}
  /\ \A r, d : Learn(r, d, None) = r
<1>1. Categories = {}
  BY RacesAssumption
<1> QED
  BY <1>1 DEF CategoryOrNone, Learn

\* A plan that states no balance posts what the movements gain.
LEMMA Settled ==
  ASSUME TypeOK, NEW pl, Lands(pl), DOMAIN pl.hand = {},
         NEW delta \in [Entities -> Int],
         \A e \in Entities : Explained(e)' = Explained(e) + delta[e]
  PROVE  Settle(delta, pl.touched) /\ base' = base
<1>1. \A e \in Entities : Explained(e) \in Int
  BY ExplainedType
<1>2. balance \in [Entities -> Int] /\ base \in [Entities -> Int]
  BY DEF TypeOK
<1>3. ASSUME NEW e \in Entities
      PROVE  balance'[e] = IF status[e] = "live" THEN balance[e] + delta[e] ELSE balance[e]
  <2>1. balance'[e] = IF status[e] = "live" THEN balance[e] + (Explained(e)' - Explained(e))
                      ELSE balance[e]
    BY DEF Lands
  <2>2. PICK x : x = Explained(e)'
    OBVIOUS
  <2>3. x = Explained(e) + delta[e] /\ Explained(e) \in Int /\ delta[e] \in Int
    BY <1>1, <2>2
  <2>4. x - Explained(e) = delta[e]
    BY <2>3
  <2> QED
    BY <2>1, <2>2, <2>4
<1>4. balance' = [e \in Entities |-> balance'[e]]
  BY DEF Lands
<1>5. balance' = [e \in Entities |-> IF status[e] = "live" THEN balance[e] + delta[e] ELSE balance[e]]
  BY <1>3, <1>4, ZenonT(60)
<1>6. completed' = [o \in Objectives |->
       IF status[o] = "live" /\ o \in pl.touched THEN balance'[o] >= target[o]
       ELSE completed[o]]
  BY DEF Lands
<1>7. \A o \in Objectives :
        completed'[o] = IF status[o] = "live" /\ o \in pl.touched
                        THEN balance[o] + delta[o] >= target[o] ELSE completed[o]
  BY <1>3, <1>6 DEF Entities
<1>8. completed' = [o \in Objectives |->
        IF status[o] = "live" /\ o \in pl.touched
        THEN balance[o] + delta[o] >= target[o] ELSE completed[o]]
  <2>1. completed' = [o \in Objectives |-> completed'[o]]
    BY <1>6
  <2> QED
    BY <1>7, <2>1, ZenonT(60)
<1>9. base' = base
  <2>1. \A e \in Entities : base'[e] = base[e]
    BY DEF Lands
  <2>2. base' = [e \in Entities |-> base'[e]]
    BY DEF Lands
  <2> QED
    BY <1>2, <2>1, <2>2
<1> QED
  BY <1>5, <1>8, <1>9 DEF Settle

\* A plan that only changes rows.
LEMMA LeavingLands ==
  ASSUME TypeOK, TypeOK', NEW S \in SUBSET Ids, NEW rows, DOMAIN rows = S, NEW touched,
         NEW pl, pl = Leaving(rows, touched), Lands(pl),
         NEW delta \in [Entities -> Int],
         \A e \in Entities :
           delta[e] = SumOver(S, [i \in Ids |-> Collected(record'[i], e) - Collected(record[i], e)])
  PROVE  Settle(delta, touched)
<1>1. /\ pl.rows = rows /\ pl.fresh = << >> /\ pl.gone = {} /\ pl.paid = << >>
      /\ pl.touched = touched /\ pl.hand = << >>
  BY PlanParts DEF Leaving
<1>2. DOMAIN pl.hand = {} /\ Len(pl.fresh) = 0
  BY <1>1
<1>3. next \in Nat /\ record \in [Ids -> Record] /\ payment \in [Payments -> Payment]
  BY Bounds DEF TypeOK
<1>4. payment' = payment
  <2>1. payment' = [k \in Payments |-> payment[k]]
    BY <1>1 DEF Lands
  <2> QED
    BY <1>3, <2>1
<1>5. \A i \in Ids \ S : record'[i] = record[i]
  <2>1. next .. (next + 0 - 1) = {}
    BY <1>3
  <2> QED
    BY <1>1, <1>2, <2>1 DEF Lands
<1>6. ASSUME NEW e \in Entities PROVE Explained(e)' = Explained(e) + delta[e]
  BY <1>4, <1>5, RecordsExplain
<1> QED
  BY <1>1, <1>2, <1>6, Settled

\* What else it does.
LEMMA LeavingRows ==
  ASSUME TypeOK, NEW S \in SUBSET Ids, NEW rows, DOMAIN rows = S, NEW touched,
         NEW pl, pl = Leaving(rows, touched), Lands(pl)
  PROVE  /\ record' = [i \in Ids |-> IF i \in S THEN rows[i] ELSE record[i]]
         /\ UNCHANGED <<status, target, next, payment, rules, base>>
<1>1. /\ pl.rows = rows /\ pl.fresh = << >> /\ pl.gone = {} /\ pl.paid = << >>
      /\ pl.touched = touched /\ pl.hand = << >>
  BY PlanParts DEF Leaving
<1>2. DOMAIN pl.hand = {} /\ Len(pl.fresh) = 0
  BY <1>1
<1>3. /\ next \in Nat /\ record \in [Ids -> Record] /\ payment \in [Payments -> Payment]
      /\ base \in [Entities -> Int]
  BY Bounds DEF TypeOK
<1>4. payment' = payment
  <2>1. payment' = [k \in Payments |-> payment[k]]
    BY <1>1 DEF Lands
  <2> QED
    BY <1>3, <2>1
<1>5. record' = [i \in Ids |-> IF i \in S THEN rows[i] ELSE record[i]]
  <2>1. next .. (next + 0 - 1) = {}
    BY <1>3
  <2>2. \A i \in Ids : record'[i] = IF i \in S THEN rows[i] ELSE record[i]
    BY <1>1, <1>2, <2>1 DEF Lands
  <2>3. record' = [i \in Ids |-> record'[i]]
    BY DEF Lands
  <2> QED
    BY <2>2, <2>3
<1>6. base' = base
  <2>1. base' = [e \in Entities |-> base[e]]
    BY <1>2 DEF Lands
  <2> QED
    BY <1>3, <2>1
<1>7. next' = next /\ UNCHANGED <<status, target, rules>>
  BY <1>2, <1>3 DEF Lands
<1> QED
  BY <1>4, <1>5, <1>6, <1>7

\* What the commit of PATCH /transactions/:id leaves is the step of Ledger.
LEMMA UpdateLands ==
  ASSUME IInv, TypeOK', NEW pl, Updating(pl), Lands(pl)
  PROVE  Next
<1>1. PICK i \in Ids, f \in Fields :
        /\ Live(i) /\ LinksExist(f) /\ Allowed(record[i].group, f)
        /\ pl = Leaving([j \in {i} |-> Merged(i, f)], Goals(Changed(Merged(i, f), i)))
  BY DEF Updating
<1>2. TypeOK /\ record \in [Ids -> Record]
  BY DEF IInv, TypeOK
<1>3. PICK rows : rows = [j \in {i} |-> Merged(i, f)]
  OBVIOUS
<1>4. PICK delta : delta = Changed(Merged(i, f), i)
  OBVIOUS
<1>5. pl = Leaving(rows, Goals(delta)) /\ DOMAIN rows = {i} /\ rows[i] = Merged(i, f)
  BY <1>1, <1>3, <1>4
<1>6. delta \in [Entities -> Int]
  BY <1>1, <1>2, <1>4, CollectedType, MergedType DEF Changed
<1>7. /\ record' = [j \in Ids |-> IF j \in {i} THEN rows[j] ELSE record[j]]
      /\ UNCHANGED <<status, target, next, payment, rules, base>>
  BY <1>1, <1>2, <1>5, LeavingRows
<1>8. ASSUME NEW e \in Entities
      PROVE  delta[e] = SumOver({i}, [j \in Ids |-> Collected(record'[j], e) - Collected(record[j], e)])
  <2>1. PICK diff : diff = [j \in Ids |-> Collected(record'[j], e) - Collected(record[j], e)]
    OBVIOUS
  <2>2. diff \in [Ids -> Int]
    BY <1>2, <2>1, CollectedType DEF TypeOK
  <2>3. diff[i] = delta[e]
    BY <1>1, <1>4, <1>5, <1>7, <2>1 DEF Changed
  <2>4. SumOver({i}, diff) = diff[i]
    BY <1>1, <2>2, SumOverSingle
  <2> QED
    BY <2>1, <2>3, <2>4
<1>9. Settle(delta, Goals(delta))
  BY <1>1, <1>2, <1>5, <1>6, <1>8, LeavingLands
<1>10. Update(i, f, FALSE)
  <2>1. record' = [j \in Ids |->
           IF j = i THEN Merged(i, f)
           ELSE IF FALSE /\ j \in Similar(i, f)
           THEN [record[j] EXCEPT !.category = UpdatedCategory(i, f), !.status = "categorized"]
           ELSE record[j]]
    BY <1>5, <1>7
  <2>2. UpdatedCategory(i, f) = None
    BY <1>1, <1>2, MergedType, NoCategories
  <2>3. rules' = Learn(rules, f.description, UpdatedCategory(i, f))
    BY <1>7, <2>2, NoCategories
  <2>4. SettleNet([e \in Entities |-> Collected(Merged(i, f), e) - Collected(record[i], e)])
    BY <1>4, <1>9 DEF SettleNet, Goals, Changed
  <2> QED
    BY <1>1, <1>7, <2>1, <2>3, <2>4 DEF Update
<1> QED
  BY <1>1, <1>10 DEF Next, SingleStep, PatchTransaction

\* The rows of a plan that deletes.
LEMMA BlankedLands ==
  ASSUME IInv, TypeOK', NEW S \in SUBSET Ids, NEW touched, NEW pl,
         pl = Leaving(Blanked(S), touched), Lands(pl),
         NEW delta \in [Entities -> Int],
         \A e \in Entities : delta[e] = SumOver(S, [i \in Ids |-> - Collected(record[i], e)])
  PROVE  /\ record' = [i \in Ids |-> IF i \in S THEN Unread("deleted", record[i].group)
                                     ELSE record[i]]
         /\ Settle(delta, touched)
         /\ UNCHANGED <<status, target, next, payment, rules, base>>
<1>1. TypeOK /\ record \in [Ids -> Record]
  BY DEF IInv, TypeOK
<1>2. PICK rows : rows = Blanked(S)
  OBVIOUS
<1>3. DOMAIN rows = S /\ \A i \in S : rows[i] = Unread("deleted", record[i].group)
  BY <1>2 DEF Blanked
<1>4. /\ record' = [j \in Ids |-> IF j \in S THEN rows[j] ELSE record[j]]
      /\ UNCHANGED <<status, target, next, payment, rules, base>>
  BY <1>1, <1>2, <1>3, LeavingRows
<1>5. \A i \in Ids : record'[i] = IF i \in S THEN Unread("deleted", record[i].group)
                                  ELSE record[i]
  BY <1>3, <1>4
<1>6. record' = [i \in Ids |-> IF i \in S THEN Unread("deleted", record[i].group) ELSE record[i]]
  <2>1. record' = [i \in Ids |-> record'[i]]
    BY <1>4
  <2> QED
    BY <1>5, <2>1
<1>7. ASSUME NEW e \in Entities
      PROVE  delta[e] = SumOver(S, [j \in Ids |-> Collected(record'[j], e) - Collected(record[j], e)])
  <2>1. PICK diff : diff = [j \in Ids |-> Collected(record'[j], e) - Collected(record[j], e)]
    OBVIOUS
  <2>2. PICK lost : lost = [j \in Ids |-> - Collected(record[j], e)]
    OBVIOUS
  <2>3. diff \in [Ids -> Int] /\ lost \in [Ids -> Int]
    BY <1>1, <2>1, <2>2, CollectedType DEF TypeOK
  <2>4. ASSUME NEW j \in S PROVE lost[j] = diff[j]
    <3>1. j \in Ids /\ j \in S
      BY <2>4
    <3>2. record'[j].state = "deleted"
      <4>1. record'[j] = Unread("deleted", record[j].group)
        BY <1>5, <3>1
      <4> QED
        BY <4>1 DEF Unread
    <3>3. Collected(record'[j], e) = 0 /\ Collected(record[j], e) \in Int
      BY <1>1, <3>1, <3>2, CollectedType DEF Collected
    <3> QED
      BY <2>1, <2>2, <3>1, <3>3
  <2>5. SumOver(S, lost) = SumOver(S, diff)
    BY <2>3, <2>4, SumOverSame
  <2> QED
    BY <2>1, <2>2, <2>5
<1>8. Settle(delta, touched)
  BY <1>1, <1>2, <1>3, <1>7, LeavingLands
<1> QED
  BY <1>4, <1>6, <1>8

\* What the commit of a transfer's removal leaves is the step of Ledger.
LEMMA UndoLands ==
  ASSUME LegEdits # "any", IInv, TypeOK', NEW pl, Undoing(pl), Lands(pl)
  PROVE  Next
<1>1. PICK i \in Ids :
        IsTransfer(i) /\ pl = Leaving(Blanked(Legs(i)), {record[j].objective : j \in Legs(i)})
  BY DEF Undoing
<1>2. TypeOK /\ record \in [Ids -> Record] /\ Legs(i) \in SUBSET Ids
  BY <1>1 DEF IInv, TypeOK, Legs
<1>3. PICK delta : delta = [e \in Entities |-> SumOver(Legs(i), [j \in Ids |-> -Adjusted(record[j], e)])]
  OBVIOUS
<1>4. \A e \in Entities : [j \in Ids |-> -Adjusted(record[j], e)] \in [Ids -> Int]
  BY <1>2, CollectedType
<1>5. delta \in [Entities -> Int]
  BY <1>2, <1>3, <1>4, SumOverInt
<1>6. ASSUME NEW e \in Entities
      PROVE  delta[e] = SumOver(Legs(i), [j \in Ids |-> -Collected(record[j], e)])
  <2> DEFINE posted == [j \in Ids |-> -Adjusted(record[j], e)]
             lost == [j \in Ids |-> -Collected(record[j], e)]
  <2>1. posted \in [Ids -> Int] /\ lost \in [Ids -> Int] /\ delta[e] = SumOver(Legs(i), posted)
    BY <1>2, <1>3, <1>4, CollectedType
  <2>2. ASSUME NEW j \in Legs(i) PROVE posted[j] = lost[j]
    BY <1>1, <1>2, LegsShape, LegAdjusted DEF IInv
  <2> HIDE DEF posted, lost
  <2> QED
    BY <1>2, <2>1, <2>2, SumOverSame DEF lost
<1>7. PICK S \in SUBSET Ids : S = Legs(i)
  BY <1>2
<1>8. PICK touched : touched = {record[j].objective : j \in Legs(i)}
  OBVIOUS
<1>9. pl = Leaving(Blanked(S), touched)
      /\ \A e \in Entities : delta[e] = SumOver(S, [j \in Ids |-> -Collected(record[j], e)])
  BY <1>1, <1>6, <1>7, <1>8
<1>10. S \in SUBSET Ids
  BY <1>7
<1>11. /\ record' = [j \in Ids |-> IF j \in S THEN Unread("deleted", record[j].group)
                                   ELSE record[j]]
       /\ Settle(delta, touched)
       /\ UNCHANGED <<status, target, next, payment, rules, base>>
  BY <1>5, <1>9, <1>10, BlankedLands
<1>12. RemoveTransfer(i)
  BY <1>1, <1>3, <1>7, <1>8, <1>11 DEF RemoveTransfer
<1> QED
  BY <1>1, <1>12 DEF Next, TransferStep, DeleteTransfer

\* What the commit of DELETE /transactions/:id leaves is the step of Ledger.
LEMMA RemoveLands ==
  ASSUME IInv, TypeOK', NEW pl, Removing(pl), Lands(pl)
  PROVE  Next
<1>1. PICK i \in Ids :
        /\ Live(i) /\ record[i].group = 0
        /\ pl = Leaving(Blanked({i}), Goals(LostOne(i)))
  BY DEF Removing
<1>2. TypeOK /\ record \in [Ids -> Record]
  BY DEF IInv, TypeOK
<1>3. PICK delta : delta = LostOne(i)
  OBVIOUS
<1>4. delta \in [Entities -> Int]
  BY <1>1, <1>2, <1>3, CollectedType DEF LostOne
<1>5. ASSUME NEW e \in Entities
      PROVE  delta[e] = SumOver({i}, [j \in Ids |-> -Collected(record[j], e)])
  <2>1. PICK lost : lost = [j \in Ids |-> -Collected(record[j], e)]
    OBVIOUS
  <2>2. lost \in [Ids -> Int] /\ lost[i] = delta[e]
    BY <1>1, <1>2, <1>3, <2>1, CollectedType DEF LostOne
  <2> QED
    BY <1>1, <2>1, <2>2, SumOverSingle
<1>6. {i} \in SUBSET Ids
  BY <1>1
<1>7. /\ record' = [j \in Ids |-> IF j \in {i} THEN Unread("deleted", record[j].group)
                                  ELSE record[j]]
      /\ Settle(delta, Goals(delta))
      /\ UNCHANGED <<status, target, next, payment, rules, base>>
  BY <1>1, <1>3, <1>4, <1>5, <1>6, BlankedLands
<1>8. record' = [record EXCEPT ![i] = Unread("deleted", 0)]
  BY <1>1, <1>2, <1>7
<1>9. SettleNet([e \in Entities |-> -Collected(record[i], e)])
  BY <1>3, <1>7 DEF SettleNet, Goals, LostOne
<1>10. Remove(i)
  BY <1>1, <1>7, <1>8, <1>9 DEF Remove
<1> QED
  BY <1>1, <1>10 DEF Next, SingleStep, DeleteTransaction

\* What the commit of DELETE /transactions leaves is the step of Ledger.
LEMMA RemoveManyLands ==
  ASSUME IInv, TypeOK', NEW pl, RemovingMany(pl), Lands(pl)
  PROVE  Next
<1>1. PICK ids \in SUBSET Ids :
        /\ \E i \in ids : Live(i)
        /\ pl = Leaving(Blanked(Doomed(ids)), Goals(Lost(Doomed(ids))))
  BY DEF RemovingMany
<1>2. TypeOK /\ record \in [Ids -> Record] /\ Doomed(ids) \in SUBSET Ids
  BY <1>1 DEF IInv, TypeOK, Doomed
<1>3. PICK S \in SUBSET Ids : S = Doomed(ids)
  BY <1>2
<1>4. PICK delta : delta = Lost(S)
  OBVIOUS
<1>5. S \in SUBSET Ids
  BY <1>3
<1>6. \A e \in Entities : [i \in Ids |-> -Collected(record[i], e)] \in [Ids -> Int]
  BY <1>2, CollectedType
<1>7. delta \in [Entities -> Int]
  BY <1>4, <1>5, <1>6, SumOverInt DEF Lost
<1>8. \A e \in Entities : delta[e] = SumOver(S, [i \in Ids |-> - Collected(record[i], e)])
  BY <1>4 DEF Lost
<1>9. pl = Leaving(Blanked(S), Goals(delta))
  BY <1>1, <1>3, <1>4
<1>10. /\ record' = [j \in Ids |-> IF j \in S THEN Unread("deleted", record[j].group)
                                  ELSE record[j]]
      /\ Settle(delta, Goals(delta))
      /\ UNCHANGED <<status, target, next, payment, rules, base>>
  BY <1>5, <1>7, <1>8, <1>9, BlankedLands
<1>11. SettleNet([e \in Entities |->
         SumOver(Doomed(ids), [i \in Ids |-> -Collected(record[i], e)])])
  BY <1>3, <1>4, <1>10 DEF SettleNet, Goals, Lost
<1>12. RemoveMany(ids)
  BY <1>1, <1>3, <1>10, <1>11 DEF RemoveMany
<1> QED
  BY <1>1, <1>12 DEF Next, BulkStep, DeleteTransactions

\* What the commit of PATCH /transfers/:id leaves is the step of Ledger.
LEMMA AmendLands ==
  ASSUME LegEdits # "any", IInv, TypeOK', NEW pl, Amending(pl), Lands(pl)
  PROVE  Next
<1>1. PICK i \in Ids, amount \in AmountOrNone, relink \in BOOLEAN, goal \in ObjectiveOrNone :
        /\ IsTransfer(i) /\ Exists(goal)
        /\ pl = Leaving(Amend(i, amount, relink, goal),
                        {record[j].objective : j \in Legs(i)}
                          \cup {Amended(j, amount, None, relink, goal).objective : j \in Legs(i)})
  BY DEF Amending
<1>2. TypeOK /\ record \in [Ids -> Record] /\ Legs(i) \in SUBSET Ids
  BY <1>1 DEF IInv, TypeOK, Legs
<1>3. PICK fresh : fresh = [j \in Ids |-> Amended(j, amount, None, relink, goal)]
  OBVIOUS
<1>4. fresh \in [Ids -> Record]
      /\ \A j \in Ids : /\ fresh[j].state = record[j].state /\ fresh[j].type = record[j].type
                        /\ fresh[j].patrimony = record[j].patrimony
  <2>1. None \in DescriptionOrNone
    BY DEF DescriptionOrNone
  <2>2. ASSUME NEW j \in Ids
        PROVE  /\ fresh[j] \in Record /\ fresh[j].state = record[j].state
               /\ fresh[j].type = record[j].type /\ fresh[j].patrimony = record[j].patrimony
    <3>1. LET a == Amended(j, amount, None, relink, goal)
          IN  /\ a \in Record /\ a.state = record[j].state /\ a.type = record[j].type
              /\ a.patrimony = record[j].patrimony
      BY <1>1, <1>2, <2>1, AmendedType
    <3> QED
      BY <1>3, <3>1
  <2> QED
    BY <1>3, <2>2
<1>5. PICK S \in SUBSET Ids : S = Legs(i)
  BY <1>2
<1>6. S \in SUBSET Ids
  BY <1>5
<1>7. PICK touched : touched = {record[j].objective : j \in S} \cup {fresh[j].objective : j \in S}
  OBVIOUS
<1>8. PICK rows : rows = Amend(i, amount, relink, goal)
  OBVIOUS
<1>9. DOMAIN rows = S /\ \A j \in S : rows[j] = fresh[j]
  BY <1>3, <1>5, <1>6, <1>8 DEF Amend
<1>10. pl = Leaving(rows, touched)
  <2>1. touched = {record[j].objective : j \in Legs(i)}
                  \cup {Amended(j, amount, None, relink, goal).objective : j \in Legs(i)}
    BY <1>3, <1>5, <1>6, <1>7
  <2> QED
    BY <1>1, <1>8, <2>1
<1>11. /\ record' = [j \in Ids |-> IF j \in S THEN rows[j] ELSE record[j]]
       /\ UNCHANGED <<status, target, next, payment, rules, base>>
  BY <1>2, <1>6, <1>9, <1>10, LeavingRows
<1>12. record' = [j \in Ids |-> IF j \in S THEN fresh[j] ELSE record[j]]
  <2>1. \A j \in Ids : record'[j] = IF j \in S THEN fresh[j] ELSE record[j]
    BY <1>9, <1>11
  <2>2. record' = [j \in Ids |-> record'[j]]
    BY <1>11
  <2> QED
    BY <2>1, <2>2
<1>13. PICK delta : delta = [e \in Entities |-> SumOver(S, [j \in Ids |->
                               Adjusted(fresh[j], e) - Adjusted(record[j], e)])]
  OBVIOUS
<1>14. \A e \in Entities : [j \in Ids |-> Adjusted(fresh[j], e) - Adjusted(record[j], e)] \in [Ids -> Int]
  BY <1>2, <1>4, CollectedType
<1>15. delta \in [Entities -> Int]
  BY <1>6, <1>13, <1>14, SumOverInt
<1>16. ASSUME NEW e \in Entities
       PROVE  delta[e] = SumOver(S, [j \in Ids |-> Collected(record'[j], e) - Collected(record[j], e)])
  <2> DEFINE posted == [j \in Ids |-> Adjusted(fresh[j], e) - Adjusted(record[j], e)]
             diff == [j \in Ids |-> Collected(record'[j], e) - Collected(record[j], e)]
  <2>1. /\ posted \in [Ids -> Int] /\ diff \in [Ids -> Int]
        /\ delta[e] = SumOver(S, posted)
    <3>1. diff \in [Ids -> Int]
      BY <1>2, CollectedType DEF TypeOK
    <3> QED
      BY <1>13, <1>14, <3>1
  <2>2. ASSUME NEW j \in S PROVE posted[j] = diff[j]
    <3>0. j \in Ids /\ j \in Legs(i)
      BY <1>5, <1>6, <2>2
    <3>1. /\ record[j].state = "live" /\ record[j].type = "transfer"
          /\ record[j].patrimony = None
      BY <1>1, <1>2, <3>0, LegsShape DEF IInv
    <3>2. Adjusted(record[j], e) = Collected(record[j], e)
      BY <1>2, <3>0, <3>1, LegAdjusted
    <3>3. Adjusted(fresh[j], e) = Collected(fresh[j], e)
      BY <1>4, <3>0, <3>1, LegAdjusted
    <3> QED
      BY <1>12, <2>2, <3>0, <3>2, <3>3
  <2> HIDE DEF posted, diff
  <2> QED
    BY <1>6, <2>1, <2>2, SumOverSame DEF diff
<1>17. Settle(delta, touched)
  BY <1>2, <1>6, <1>9, <1>10, <1>15, <1>16, LeavingLands
<1>18. UpdateTransfer(i, amount, None, relink, goal)
  BY <1>1, <1>3, <1>5, <1>7, <1>11, <1>12, <1>13, <1>17 DEF UpdateTransfer
<1>19. None \in DescriptionOrNone
  BY DEF DescriptionOrNone
<1> QED
  BY <1>1, <1>18, <1>19 DEF Next, TransferStep, PatchTransfer

-----------------------------------------------------------------------------
(* New rows.                                                               *)

\* The rows and the payments of a plan that only adds rows.
LEMMA AddedRows ==
  ASSUME TypeOK, NEW fresh, NEW touched, NEW pl,
         pl = Plan(<< >>, fresh, {}, << >>, touched, << >>), Lands(pl)
  PROVE  /\ Len(fresh) \in Nat /\ next + Len(fresh) <= MaxRecords + 1
         /\ next' = next + Len(fresh)
         /\ record' = [i \in Ids |->
              IF i \in next .. (next + Len(fresh) - 1)
              THEN [fresh[i - next + 1] EXCEPT !.group = IF @ = 0 THEN 0 ELSE next]
              ELSE record[i]]
         /\ UNCHANGED <<status, target, payment, rules, base>>
<1>1. /\ pl.rows = << >> /\ pl.fresh = fresh /\ pl.gone = {} /\ pl.paid = << >>
      /\ pl.touched = touched /\ pl.hand = << >>
  BY PlanParts
<1>2. DOMAIN pl.hand = {} /\ DOMAIN pl.rows = {}
  BY <1>1
<1>3. payment \in [Payments -> Payment] /\ base \in [Entities -> Int]
  BY DEF TypeOK
<1>4. payment' = payment
  <2>1. payment' = [k \in Payments |-> payment[k]]
    BY <1>1 DEF Lands
  <2> QED
    BY <1>3, <2>1
<1>5. base' = base
  <2>1. base' = [e \in Entities |-> base[e]]
    BY <1>2 DEF Lands
  <2> QED
    BY <1>3, <2>1
<1>6. record' = [i \in Ids |->
              IF i \in next .. (next + Len(fresh) - 1)
              THEN [fresh[i - next + 1] EXCEPT !.group = IF @ = 0 THEN 0 ELSE next]
              ELSE record[i]]
  BY <1>1, <1>2 DEF Lands
<1> QED
  BY <1>1, <1>4, <1>5, <1>6 DEF Lands

\* What they settle.
LEMMA AddedSettles ==
  ASSUME TypeOK, NEW fresh, NEW touched, NEW pl,
         pl = Plan(<< >>, fresh, {}, << >>, touched, << >>), Lands(pl),
         NEW delta \in [Entities -> Int],
         \A e \in Entities : Explained(e)' = Explained(e) + delta[e]
  PROVE  Settle(delta, touched)
<1>1. pl.touched = touched /\ pl.hand = << >>
  BY PlanParts
<1>2. DOMAIN pl.hand = {}
  BY <1>1
<1> QED
  BY <1>1, <1>2, Settled

\* One row.
LEMMA AddingLands ==
  ASSUME IInv, TypeOK', NEW row \in Record, row.group = 0, NEW pl,
         pl = Adding(<<row>>, Gained(row)), Lands(pl)
  PROVE  /\ next <= MaxRecords /\ next' = next + 1
         /\ record' = [record EXCEPT ![next] = row]
         /\ SettleNet([e \in Entities |-> Collected(row, e)])
         /\ UNCHANGED <<status, target, payment, rules, base>>
<1>1. TypeOK /\ Fresh /\ record \in [Ids -> Record] /\ next \in Nat /\ next >= 1
      /\ MaxRecords \in Nat
  BY Bounds DEF IInv, TypeOK
<1>2. PICK fresh : fresh = <<row>>
  OBVIOUS
<1>3. Len(fresh) = 1 /\ fresh[1] = row
  BY <1>2
<1>4. PICK delta : delta = [e \in Entities |-> Collected(row, e)]
  OBVIOUS
<1>5. delta \in [Entities -> Int]
  BY <1>4, CollectedType
<1>6. pl = Plan(<< >>, fresh, {}, << >>, Goals(delta), << >>)
  BY <1>2, <1>4 DEF Adding, Gained
<1>7. /\ next + Len(fresh) <= MaxRecords + 1
      /\ next' = next + Len(fresh)
      /\ record' = [i \in Ids |->
           IF i \in next .. (next + Len(fresh) - 1)
           THEN [fresh[i - next + 1] EXCEPT !.group = IF @ = 0 THEN 0 ELSE next]
           ELSE record[i]]
      /\ UNCHANGED <<status, target, payment, rules, base>>
  BY <1>1, <1>6, AddedRows
<1>8. next <= MaxRecords /\ next' = next + 1 /\ next \in Ids
  BY <1>1, <1>3, <1>7 DEF Ids
<1>9. [row EXCEPT !.group = IF @ = 0 THEN 0 ELSE next] = row
  BY DEF Record
<1>10. ASSUME NEW i \in Ids PROVE record'[i] = IF i = next THEN row ELSE record[i]
  <2>1. i \in next .. (next + Len(fresh) - 1) <=> i = next
    BY <1>1, <1>3, <1>10 DEF Ids
  <2>2. i = next => i - next + 1 = 1
    BY <1>1
  <2>3. CASE i = next
    <3>1. record'[i] = [fresh[1] EXCEPT !.group = IF @ = 0 THEN 0 ELSE next]
      BY <1>7, <2>1, <2>2, <2>3
    <3> QED
      BY <1>3, <1>9, <2>3, <3>1
  <2>4. CASE i # next
    BY <1>7, <2>1, <2>4
  <2> QED
    BY <2>3, <2>4
<1>11. record' = [record EXCEPT ![next] = row]
  <2>1. record' = [i \in Ids |-> record'[i]]
    BY <1>7
  <2> QED
    BY <1>1, <1>10, <2>1
<1>12. ASSUME NEW e \in Entities PROVE Explained(e)' = Explained(e) + delta[e]
  <2>1. record[next].state = "none"
    BY <1>1, <1>8 DEF Fresh
  <2>2. Collected(record[next], e) = 0
    BY <2>1 DEF Collected
  <2>3. \A i \in Ids \ {next} : Collected(record'[i], e) = Collected(record[i], e)
    BY <1>10
  <2>4. Explained(e)' = Explained(e) + (Collected(record'[next], e) - Collected(record[next], e))
    BY <1>1, <1>7, <1>8, <2>3, OneRecordExplains
  <2>5. Collected(record'[next], e) = delta[e]
    BY <1>4, <1>8, <1>10
  <2>6. Explained(e) \in Int /\ delta[e] \in Int
    BY <1>1, <1>5, ExplainedType
  <2> QED
    BY <2>2, <2>4, <2>5, <2>6
<1>13. Settle(delta, Goals(delta))
  BY <1>1, <1>5, <1>6, <1>12, AddedSettles
<1> QED
  BY <1>4, <1>7, <1>8, <1>11, <1>13 DEF SettleNet, Goals

\* What the commit of POST /transactions leaves is the step of Ledger.
LEMMA CreateLands ==
  ASSUME IInv, TypeOK', NEW pl, Creating(pl), Lands(pl)
  PROVE  Next
<1>1. PICK f \in Fields :
        /\ LinksExist(f) /\ Allowed(0, f)
        /\ pl = Adding(<<Plain(f, None)>>, Gained(Plain(f, None)))
  BY DEF Creating
<1>2. TypeOK
  BY DEF IInv
<1>3. PICK row : row = Plain(f, None)
  OBVIOUS
<1>4. row \in Record /\ row.group = 0
  BY <1>1, <1>3, PlainType DEF CategoryOrNone
<1>5. /\ next <= MaxRecords /\ next' = next + 1
      /\ record' = [record EXCEPT ![next] = row]
      /\ SettleNet([e \in Entities |-> Collected(row, e)])
      /\ UNCHANGED <<status, target, payment, rules, base>>
  BY <1>1, <1>3, <1>4, AddingLands
<1>6. f.category = None /\ Categorize(rules, f.category, f.description, f.company) = None
  <2>1. /\ f.category \in CategoryOrNone /\ f.description \in Descriptions
        /\ f.company \in CompanyOrNone /\ rules \in Rules
    BY <1>1, <1>2 DEF Fields, TypeOK
  <2> QED
    BY <2>1, CategorizeType, NoCategories
<1>7. Create(f)
  BY <1>1, <1>3, <1>5, <1>6, NoCategories DEF Create
<1> QED
  BY <1>1, <1>7 DEF Next, SingleStep, PostTransaction

\* What the commit of a clone leaves is the step of Ledger.
LEMMA CopyLands ==
  ASSUME IInv, TypeOK', NEW pl, Copying(pl), Lands(pl)
  PROVE  Next
<1>1. PICK i \in Ids, amount \in AmountOrNone :
        Live(i) /\ pl = Adding(<<Copy(i, amount)>>, Gained(Copy(i, amount)))
  BY DEF Copying
<1>2. PICK row : row = Copy(i, amount)
  OBVIOUS
<1>3. None \in DescriptionOrNone /\ None \in CategoryOrNone /\ None \in CompanyOrNone
  BY DEF DescriptionOrNone, CategoryOrNone, CompanyOrNone
<1>4. row \in Record /\ row.group = 0
  BY <1>1, <1>2, <1>3, ClonedType DEF Copy, IInv
<1>5. /\ next <= MaxRecords /\ next' = next + 1
      /\ record' = [record EXCEPT ![next] = row]
      /\ SettleNet([e \in Entities |-> Collected(row, e)])
      /\ UNCHANGED <<status, target, payment, rules, base>>
  BY <1>1, <1>2, <1>4, AddingLands
<1>6. Clone(i, amount, None, None, None)
  BY <1>1, <1>2, <1>5 DEF Clone, Copy
<1> QED
  BY <1>1, <1>3, <1>6 DEF Next, SingleStep, CloneTransaction

\* What the commit of an import leaves is the step of Ledger.
LEMMA ImportLands ==
  ASSUME IInv, TypeOK', NEW pl, Importing(pl), Lands(pl)
  PROVE  Next
<1>1. PICK batch \in Batches :
        /\ \A k \in 1..Len(batch) : LinksExist(batch[k])
        /\ pl = Adding(Rows(batch), Imports(Rows(batch)))
  BY DEF Importing
<1>2. TypeOK /\ Fresh /\ record \in [Ids -> Record] /\ next \in Nat /\ next >= 1
      /\ MaxRecords \in Nat /\ rules \in Rules
  BY Bounds DEF IInv, TypeOK
<1>3. /\ Len(batch) \in Nat
      /\ \A k \in 1..Len(batch) : batch[k] \in Fields
  BY <1>1, BatchType
<1>4. PICK n \in Nat : n = Len(batch)
  BY <1>3
<1>5. PICK fresh : fresh = Rows(batch)
  OBVIOUS
<1>6. Len(fresh) = n /\ \A k \in 1..n : fresh[k] = Plain(batch[k], None)
  BY <1>4, <1>5 DEF Rows
<1>7. \A k \in 1..n : fresh[k] \in Record /\ fresh[k].group = 0
  BY <1>3, <1>4, <1>6, PlainType DEF CategoryOrNone
<1>8. PICK delta : delta = Imports(fresh)
  OBVIOUS
<1>9. pl = Plan(<< >>, fresh, {}, << >>, Goals(delta), << >>)
  BY <1>1, <1>5, <1>8 DEF Adding
<1>10. /\ next + n <= MaxRecords + 1 /\ next' = next + n
       /\ record' = [i \in Ids |->
            IF i \in next .. (next + n - 1)
            THEN [fresh[i - next + 1] EXCEPT !.group = IF @ = 0 THEN 0 ELSE next]
            ELSE record[i]]
       /\ UNCHANGED <<status, target, payment, rules, base>>
  BY <1>2, <1>6, <1>9, AddedRows
<1>11. PICK rows : rows = next .. (next + n - 1)
  OBVIOUS
<1>12. rows \in SUBSET Ids /\ \A i \in rows : i - next + 1 \in 1..n /\ i >= next
  BY <1>2, <1>10, <1>11 DEF Ids
<1>13. PICK filed : filed = [i \in rows |-> Imported(batch[i - next + 1], FALSE)]
  OBVIOUS
<1>14. ASSUME NEW i \in rows
       PROVE  filed[i] = fresh[i - next + 1] /\ filed[i] \in Record /\ filed[i].group = 0
  <2>1. PICK k \in 1..n : k = i - next + 1
    BY <1>12, <1>14
  <2>2. batch[k] \in Fields
    BY <1>3, <1>4, <2>1
  <2>3. WithCompanyDefault(batch[k].category, batch[k].company) = None
    <3>1. /\ batch[k].category \in CategoryOrNone /\ batch[k].description \in Descriptions
          /\ batch[k].company \in CompanyOrNone
      BY <2>2 DEF Fields
    <3> QED
      BY <1>2, <3>1, CategorizeType, NoCategories
  <2>4. filed[i] = Imported(batch[k], FALSE)
    BY <1>13, <1>14, <2>1
  <2>5. filed[i] = Plain(batch[k], None)
    BY <2>3, <2>4 DEF Imported
  <2>6. k \in 1..n /\ filed[i] = fresh[k]
    BY <1>6, <2>1, <2>5
  <2> QED
    BY <1>7, <2>1, <2>6
<1>15. \A i \in Ids : record'[i] = IF i \in rows THEN filed[i] ELSE record[i]
  <2> SUFFICES ASSUME NEW i \in Ids
               PROVE  record'[i] = IF i \in rows THEN filed[i] ELSE record[i]
    OBVIOUS
  <2>1. CASE i \in rows
    <3>1. PICK r \in Record : r = filed[i]
      BY <1>14, <2>1
    <3>2. r = fresh[i - next + 1] /\ r.group = 0
      BY <1>14, <2>1, <3>1
    <3>3. [r EXCEPT !.group = IF @ = 0 THEN 0 ELSE next] = r
      BY <3>2 DEF Record
    <3>4. record'[i] = [r EXCEPT !.group = IF @ = 0 THEN 0 ELSE next]
      BY <1>10, <1>11, <2>1, <3>2
    <3> QED
      BY <2>1, <3>1, <3>3, <3>4
  <2>2. CASE i \notin rows
    BY <1>10, <1>11, <2>2
  <2> QED
    BY <2>1, <2>2
<1>16. record' = [i \in Ids |-> IF i \in rows THEN filed[i] ELSE record[i]]
  <2>1. record' = [i \in Ids |-> record'[i]]
    BY <1>10
  <2> QED
    BY <1>15, <2>1
<1>17. ASSUME NEW e \in Entities
       PROVE  /\ [i \in Ids |-> IF i \in rows THEN Collected(filed[i], e) ELSE 0] \in [Ids -> Int]
              /\ delta[e] \in Int
              /\ delta[e] = SumOver(rows, [i \in Ids |-> IF i \in rows THEN Collected(filed[i], e) ELSE 0])
  <2>1. PICK gain : gain = [k \in 1..n |-> Collected(fresh[k], e)]
    OBVIOUS
  <2>2. gain \in [1..n -> Int]
    BY <1>7, <2>1, CollectedType
  <2>3. delta[e] = Total(n, gain)
    BY <1>6, <1>8, <2>1 DEF Imports
  <2>4. PICK line : line = [i \in Ids |-> IF i \in rows THEN Collected(filed[i], e) ELSE 0]
    OBVIOUS
  <2>5. line \in [Ids -> Int]
    BY <1>14, <2>4, CollectedType
  <2>6. PICK m \in Nat : m = next - 1
    BY <1>2
  <2>7. line = Shifted(MaxRecords, m, n, gain)
    <3>1. \A i \in Ids : i \in rows <=> i \in (m+1)..(m+n)
      BY <1>2, <1>11, <2>6
    <3>2. \A i \in Ids : i \in rows => Collected(filed[i], e) = gain[i - m]
      <4> SUFFICES ASSUME NEW i \in Ids, i \in rows PROVE Collected(filed[i], e) = gain[i - m]
        OBVIOUS
      <4>1. i - m = i - next + 1 /\ i \in Nat
        BY <1>2, <2>6, Bounds DEF Ids
      <4>2. i - m \in 1..n /\ filed[i] = fresh[i - m]
        BY <1>12, <1>14, <4>1
      <4> QED
        BY <2>1, <4>2
    <3>3. line = [i \in Ids |-> IF i \in (m+1)..(m+n) THEN gain[i - m] ELSE 0]
      BY <2>4, <3>1, <3>2
    <3> QED
      BY <3>3 DEF Ids, Shifted
  <2>8. m + n <= MaxRecords
    BY <1>2, <1>10, <2>6
  <2>9. MaxRecords \in Nat /\ m \in Nat /\ n \in Nat /\ gain \in [1..n -> Int]
    BY <1>2, <2>2
  <2>10. Total(MaxRecords, line) = Total(n, gain)
    BY <2>7, <2>8, <2>9, TotalShift
  <2>11. SumOver(rows, line) = Total(MaxRecords, line)
    <3>1. [i \in Ids |-> IF i \in rows THEN line[i] ELSE 0] = line
      BY <2>4
    <3> QED
      BY <3>1 DEF SumOver
  <2>12. Total(n, gain) \in Int
    BY <2>2, TotalInt
  <2> QED
    BY <2>3, <2>4, <2>5, <2>10, <2>11, <2>12
<1>18. delta = [e \in Entities |-> SumOver(rows, [i \in Ids |-> IF i \in rows THEN Collected(filed[i], e) ELSE 0])]
  <2>1. delta = [e \in Entities |-> delta[e]]
    BY <1>8 DEF Imports
  <2> QED
    BY <1>17, <2>1
<1>19. delta \in [Entities -> Int]
  <2>1. delta = [e \in Entities |-> delta[e]]
    BY <1>8 DEF Imports
  <2> QED
    BY <1>17, <2>1
<1>20. ASSUME NEW e \in Entities PROVE Explained(e)' = Explained(e) + delta[e]
  <2>1. PICK diff : diff = [i \in Ids |-> Collected(record'[i], e) - Collected(record[i], e)]
    OBVIOUS
  <2>2. PICK line : line = [i \in Ids |-> IF i \in rows THEN Collected(filed[i], e) ELSE 0]
    OBVIOUS
  <2>3. diff \in [Ids -> Int] /\ line \in [Ids -> Int]
    BY <1>2, <1>17, <2>1, <2>2, CollectedType DEF TypeOK
  <2>4. ASSUME NEW i \in rows PROVE line[i] = diff[i]
    <3>1. i \in Ids /\ i >= next
      BY <1>12, <2>4
    <3>2. record[i].state = "none"
      BY <1>2, <3>1 DEF Fresh
    <3>3. Collected(record[i], e) = 0
      BY <3>2 DEF Collected
    <3>4. Collected(filed[i], e) \in Int
      BY <1>14, <2>4, CollectedType
    <3>5. record'[i] = filed[i]
      BY <1>15, <2>4, <3>1
    <3> QED
      BY <2>1, <2>2, <2>4, <3>1, <3>3, <3>4, <3>5
  <2>5. \A i \in Ids \ rows : record'[i] = record[i]
    BY <1>15
  <2>6. rows \in SUBSET Ids /\ \A i \in Ids \ rows : Collected(record'[i], e) = Collected(record[i], e)
    BY <1>12, <2>5
  <2>7. Explained(e)' = Explained(e) + SumOver(rows, diff)
    BY <1>2, <1>10, <2>1, <2>6, RecordsExplain
  <2>8. SumOver(rows, line) = SumOver(rows, diff)
    BY <1>12, <2>3, <2>4, SumOverSame
  <2> QED
    BY <1>17, <2>2, <2>7, <2>8
<1>21. Settle(delta, Goals(delta))
  BY <1>2, <1>9, <1>19, <1>20, AddedSettles
<1>22. SettleNet([e \in Entities |-> SumOver(rows, [i \in Ids |-> IF i \in rows THEN Collected(filed[i], e) ELSE 0])])
  BY <1>18, <1>21 DEF SettleNet, Goals
<1>23. next + Len(batch) - 1 <= MaxRecords
  BY <1>2, <1>4, <1>10
<1>24. CreateMany(batch, FALSE)
  BY <1>1, <1>4, <1>10, <1>11, <1>13, <1>16, <1>22, <1>23 DEF CreateMany
<1> QED
  BY <1>1, <1>24 DEF Next, BulkStep, ImportTransactions

\* What the commit of POST /transfers leaves is the step of Ledger.
LEMMA TransferLands ==
  ASSUME IInv, TypeOK', NEW pl, Transferring(pl), Lands(pl)
  PROVE  Next
<1>1. PICK source \in Accounts, dest \in Accounts, amount \in Amounts, goal \in ObjectiveOrNone :
        /\ source # dest /\ status[source] = "live" /\ status[dest] = "live" /\ Exists(goal)
        /\ pl = Plan(<< >>, <<Origin(amount, source), Arrival(amount, goal, dest)>>,
                     {}, << >>, {goal}, << >>)
  BY DEF Transferring
<1>2. TypeOK /\ Fresh /\ record \in [Ids -> Record] /\ next \in Nat /\ next >= 1
      /\ MaxRecords \in Nat
  BY Bounds DEF IInv, TypeOK
<1>3. PICK origin : origin = Origin(amount, source)
  OBVIOUS
<1>4. PICK arrival : arrival = Arrival(amount, goal, dest)
  OBVIOUS
<1>5. PICK fresh : fresh = <<origin, arrival>>
  OBVIOUS
<1>6. Len(fresh) = 2 /\ fresh[1] = origin /\ fresh[2] = arrival
  BY <1>5
<1>7. pl = Plan(<< >>, fresh, {}, << >>, {goal}, << >>)
  BY <1>1, <1>3, <1>4, <1>5
<1>8. /\ next + Len(fresh) <= MaxRecords + 1 /\ next' = next + Len(fresh)
      /\ record' = [i \in Ids |->
            IF i \in next .. (next + Len(fresh) - 1)
            THEN [fresh[i - next + 1] EXCEPT !.group = IF @ = 0 THEN 0 ELSE next]
            ELSE record[i]]
      /\ UNCHANGED <<status, target, payment, rules, base>>
  BY <1>2, <1>7, AddedRows
<1>9. next + 1 <= MaxRecords /\ next' = next + 2 /\ next \in Ids /\ next + 1 \in Ids
      /\ next + 1 # next
  BY <1>2, <1>6, <1>8 DEF Ids
<1>10. SomeText \in Descriptions /\ None \in CompanyOrNone /\ None \in ObjectiveOrNone
       /\ source \in AccountOrNone /\ dest \in AccountOrNone /\ None \in AccountOrNone
  <2>1. SomeText \in Descriptions
    BY LedgerAssumption DEF SomeText
  <2> QED
    BY <1>1, <2>1 DEF CompanyOrNone, ObjectiveOrNone, AccountOrNone
<1>11. origin \in Record /\ arrival \in Record
  BY <1>1, <1>2, <1>3, <1>4, <1>9, <1>10, LegType DEF Origin, Arrival
<1>12. /\ origin.state = "live" /\ origin.group = next /\ origin.type = "transfer"
       /\ origin.patrimony = None
       /\ arrival.state = "live" /\ arrival.group = next /\ arrival.type = "transfer"
       /\ arrival.patrimony = None
  BY <1>3, <1>4 DEF Origin, Arrival, Leg
<1>13. /\ [origin EXCEPT !.group = IF @ = 0 THEN 0 ELSE next] = origin
       /\ [arrival EXCEPT !.group = IF @ = 0 THEN 0 ELSE next] = arrival
  BY <1>2, <1>11, <1>12 DEF Record
<1>14. ASSUME NEW i \in Ids
       PROVE  record'[i] = IF i = next THEN origin ELSE IF i = next + 1 THEN arrival ELSE record[i]
  <2>1. i \in next .. (next + Len(fresh) - 1) <=> i = next \/ i = next + 1
    BY <1>2, <1>6, <1>14 DEF Ids
  <2>2. CASE i = next
    <3>1. i - next + 1 = 1
      BY <1>2, <2>2
    <3>2. record'[i] = [fresh[1] EXCEPT !.group = IF @ = 0 THEN 0 ELSE next]
      BY <1>8, <2>1, <2>2, <3>1
    <3> QED
      BY <1>6, <1>13, <2>2, <3>2
  <2>3. CASE i = next + 1
    <3>1. i - next + 1 = 2
      BY <1>2, <2>3
    <3>2. record'[i] = [fresh[2] EXCEPT !.group = IF @ = 0 THEN 0 ELSE next]
      BY <1>8, <2>1, <2>3, <3>1
    <3>3. record'[i] = arrival
      BY <1>6, <1>13, <3>2
    <3> QED
      BY <1>9, <2>3, <3>3
  <2>4. CASE i # next /\ i # next + 1
    BY <1>8, <2>1, <2>4
  <2> QED
    BY <2>2, <2>3, <2>4
<1>15. record' = [record EXCEPT ![next] = origin, ![next + 1] = arrival]
  <2>1. record' = [i \in Ids |-> record'[i]]
    BY <1>8
  <2>2. PICK other : other = [record EXCEPT ![next] = origin, ![next + 1] = arrival]
    OBVIOUS
  <2>3. DOMAIN other = Ids /\ \A i \in Ids :
          other[i] = IF i = next THEN origin ELSE IF i = next + 1 THEN arrival ELSE record[i]
    BY <1>2, <1>9, <2>2
  <2>4. other = [i \in Ids |-> other[i]]
    BY <1>2, <2>2
  <2>5. \A i \in Ids : record'[i] = other[i]
    BY <1>14, <2>3
  <2> QED
    BY <2>1, <2>2, <2>4, <2>5
<1>16. PICK delta : delta = [e \in Entities |-> Adjusted(origin, e) + Adjusted(arrival, e)]
  OBVIOUS
<1>17. delta \in [Entities -> Int]
  BY <1>11, <1>16, CollectedType
<1>18. ASSUME NEW e \in Entities PROVE Explained(e)' = Explained(e) + delta[e]
  <2>1. PICK diff : diff = [i \in Ids |-> Collected(record'[i], e) - Collected(record[i], e)]
    OBVIOUS
  <2>2. diff \in [Ids -> Int]
    BY <1>2, <2>1, CollectedType DEF TypeOK
  <2>3. Collected(record[next], e) = 0 /\ Collected(record[next + 1], e) = 0
    <3>1. record[next].state = "none" /\ record[next + 1].state = "none"
      BY <1>2, <1>9 DEF Fresh
    <3> QED
      BY <3>1 DEF Collected
  <2>4. record'[next] = origin /\ record'[next + 1] = arrival
    BY <1>9, <1>14
  <2>5. Adjusted(origin, e) = Collected(origin, e) /\ Adjusted(arrival, e) = Collected(arrival, e)
    BY <1>11, <1>12, LegAdjusted
  <2>6. Adjusted(origin, e) \in Int /\ Adjusted(arrival, e) \in Int
    BY <1>11, CollectedType
  <2>7. diff[next] = Adjusted(origin, e) /\ diff[next + 1] = Adjusted(arrival, e)
    BY <1>9, <2>1, <2>3, <2>4, <2>5, <2>6
  <2>8. /\ {next, next + 1} \in SUBSET Ids
        /\ \A i \in Ids \ {next, next + 1} : Collected(record'[i], e) = Collected(record[i], e)
    BY <1>9, <1>14
  <2>9. Explained(e)' = Explained(e) + SumOver({next, next + 1}, diff)
    BY <1>2, <1>8, <2>1, <2>8, RecordsExplain
  <2>10. SumOver({next, next + 1}, diff) = diff[next] + diff[next + 1]
    <3>1. next + 1 \in Ids \ {next}
      BY <1>9
    <3>2. SumOver({next, next + 1}, diff) = SumOver({next}, diff) + SumOver({next + 1}, diff)
      BY <1>9, <2>2, <3>1, SumOverPair
    <3>3. SumOver({next}, diff) = diff[next]
      BY <1>9, <2>2, SumOverSingle
    <3>4. SumOver({next + 1}, diff) = diff[next + 1]
      BY <1>9, <2>2, SumOverSingle
    <3> QED
      BY <3>2, <3>3, <3>4
  <2>11. delta[e] = diff[next] + diff[next + 1]
    BY <1>16, <2>7
  <2> QED
    BY <2>9, <2>10, <2>11
<1>19. Settle(delta, {goal})
  BY <1>2, <1>7, <1>17, <1>18, AddedSettles
<1>20. /\ origin = Leg(amount, None, SomeText, None, source, None)
       /\ arrival = Leg(amount, goal, SomeText, None, None, dest)
  BY <1>3, <1>4 DEF Origin, Arrival
<1>21. CreateTransfer(source, dest, amount, goal, SomeText, None)
  BY <1>1, <1>8, <1>9, <1>15, <1>16, <1>19, <1>20 DEF CreateTransfer
<1> QED
  BY <1>1, <1>10, <1>21 DEF Next, TransferStep, PostTransfer

\* A plan about money only.
LEMMA RowsStill ==
  ASSUME TypeOK, NEW gone, NEW paid, NEW touched, NEW hand, NEW pl,
         pl = Plan(<< >>, << >>, gone, paid, touched, hand), Lands(pl)
  PROVE  record' = record /\ next' = next
<1>1. pl.rows = << >> /\ pl.fresh = << >>
  BY PlanParts
<1>2. DOMAIN pl.rows = {} /\ Len(pl.fresh) = 0
  BY <1>1
<1>3. next \in Nat /\ record \in [Ids -> Record]
  BY Bounds DEF TypeOK
<1>4. next .. (next + 0 - 1) = {}
  BY <1>3
<1>5. \A i \in Ids : record'[i] = record[i]
  BY <1>2, <1>4 DEF Lands
<1>6. record' = [i \in Ids |-> record'[i]]
  BY DEF Lands
<1> QED
  BY <1>2, <1>3, <1>5, <1>6 DEF Lands

\* What the commit of a payment leaves is the step of Ledger.
LEMMA PayLands ==
  ASSUME IInv, TypeOK', NEW pl, Paying(pl), Lands(pl)
  PROVE  Next
<1>1. PICK o \in Objectives, amount \in Amounts :
        status[o] = "live" /\ pl = Plan(<< >>, << >>, {}, <<Instalment(o, amount)>>, {o}, << >>)
  BY DEF Paying
<1>2. TypeOK /\ payment \in [Payments -> Payment] /\ base \in [Entities -> Int]
      /\ Payments \subseteq Nat
  BY Bounds DEF IInv, TypeOK, Payments
<1>3. PICK x : x = Instalment(o, amount)
  OBVIOUS
<1>4. PICK paid : paid = <<x>>
  OBVIOUS
<1>5. paid # << >> /\ paid[1] = x
  BY <1>4
<1>6. pl = Plan(<< >>, << >>, {}, paid, {o}, << >>)
  BY <1>1, <1>3, <1>4
<1>7. pl.gone = {} /\ pl.paid = paid /\ pl.touched = {o} /\ pl.hand = << >>
  BY <1>6, PlanParts
<1>8. record' = record /\ next' = next
  BY <1>2, <1>6, RowsStill
<1>9. FreePayments # {} /\ FreePayments \in SUBSET Nat
  BY <1>2, <1>5, <1>7 DEF Lands, FreePayments
<1>10. \E l \in FreePayments : \A j \in FreePayments : l <= j
  BY <1>9, LeastElement
<1>11. NextPayment \in FreePayments /\ \A j \in FreePayments : NextPayment <= j
  BY <1>10 DEF NextPayment
<1>12. PICK k \in Payments : k = NextPayment
  BY <1>11 DEF FreePayments
<1>13. k \in Payments /\ payment[k].state = "none"
  BY <1>11, <1>12 DEF FreePayments
<1>14. \A q \in 1..(k-1) : payment[q].state # "none"
  <2> SUFFICES ASSUME NEW q \in 1..(k-1), payment[q].state = "none" PROVE FALSE
    OBVIOUS
  <2>1. q \in Payments
    BY <1>13, Bounds DEF Payments
  <2>2. q \in FreePayments
    BY <2>1 DEF FreePayments
  <2>3. k <= q /\ k \in Nat
    BY <1>2, <1>11, <1>12, <2>2
  <2> QED
    BY <2>3
<1>15. payment' = [payment EXCEPT ![k] = x]
  <2>1. payment' = [j \in Payments |-> IF j = k THEN x ELSE payment[j]]
    BY <1>5, <1>7, <1>12 DEF Lands
  <2> QED
    BY <1>2, <1>13, <2>1
<1>16. PICK delta : delta = [e \in Entities |-> IF e = o THEN amount ELSE 0]
  OBVIOUS
<1>17. delta \in [Entities -> Int]
  BY <1>1, <1>16, Values
<1>18. ASSUME NEW e \in Entities PROVE Explained(e)' = Explained(e) + delta[e]
  <2>1. payment'[k] = x /\ \A j \in Payments \ {k} : payment'[j] = payment[j]
    BY <1>2, <1>13, <1>15
  <2>2. Explained(e)' = Explained(e) + (Paid(payment'[k], e) - Paid(payment[k], e))
    BY <1>2, <1>8, <1>13, <2>1, OnePaymentExplains
  <2>3. Paid(payment[k], e) = 0
    BY <1>13 DEF Paid
  <2>4. Paid(x, e) = delta[e]
    BY <1>3, <1>16 DEF Paid, Instalment
  <2>5. delta[e] \in Int
    BY <1>17
  <2> QED
    BY <2>1, <2>2, <2>3, <2>4, <2>5
<1>19. DOMAIN pl.hand = {}
  BY <1>7
<1>20. Settle(delta, {o}) /\ base' = base
  BY <1>2, <1>7, <1>17, <1>18, <1>19, Settled
<1>21. CreatePayment(o, amount)
  <2>1. payment' = [payment EXCEPT ![k] = [state |-> "live", objective |-> o, amount |-> amount]]
    BY <1>3, <1>15 DEF Instalment
  <2>2. UNCHANGED <<status, target, rules>>
    BY DEF Lands
  <2> QED
    BY <1>1, <1>8, <1>13, <1>14, <1>16, <1>20, <2>1, <2>2 DEF CreatePayment
<1> QED
  BY <1>1, <1>21 DEF Next, PaymentStep, PostPayment

\* What the commit of a payment's removal leaves is the step of Ledger.
LEMMA UnpayLands ==
  ASSUME IInv, TypeOK', NEW pl, Unpaying(pl), Lands(pl)
  PROVE  Next
<1>1. PICK k \in Payments :
        /\ payment[k].state = "live"
        /\ pl = Plan(<< >>, << >>, {k}, << >>, {payment[k].objective}, << >>)
  BY DEF Unpaying
<1>2. TypeOK /\ payment \in [Payments -> Payment]
  BY DEF IInv, TypeOK
<1>3. PICK o : o = payment[k].objective
  OBVIOUS
<1>4. pl = Plan(<< >>, << >>, {k}, << >>, {o}, << >>)
  BY <1>1, <1>3
<1>5. pl.gone = {k} /\ pl.paid = << >> /\ pl.touched = {o} /\ pl.hand = << >>
  BY <1>4, PlanParts
<1>6. record' = record /\ next' = next
  BY <1>2, <1>4, RowsStill
<1>7. payment' = [payment EXCEPT ![k] = NoPayment("deleted")]
  <2>1. payment' = [j \in Payments |-> IF j = k THEN NoPayment("deleted") ELSE payment[j]]
    BY <1>5 DEF Lands
  <2> QED
    BY <1>1, <1>2, <2>1
<1>8. PICK delta : delta = [e \in Entities |-> IF e = o THEN -payment[k].amount ELSE 0]
  OBVIOUS
<1>9. payment[k].amount \in Int
  BY <1>1, <1>2, Values DEF Payment
<1>10. delta \in [Entities -> Int]
  BY <1>8, <1>9
<1>11. ASSUME NEW e \in Entities PROVE Explained(e)' = Explained(e) + delta[e]
  <2>1. payment'[k] = NoPayment("deleted") /\ \A j \in Payments \ {k} : payment'[j] = payment[j]
    BY <1>1, <1>2, <1>7
  <2>2. Explained(e)' = Explained(e) + (Paid(payment'[k], e) - Paid(payment[k], e))
    BY <1>1, <1>2, <1>6, <2>1, OnePaymentExplains
  <2>3. Paid(payment'[k], e) = 0
    BY <2>1 DEF Paid, NoPayment
  <2>4. Paid(payment[k], e) = IF e = o THEN payment[k].amount ELSE 0
    BY <1>1, <1>3 DEF Paid
  <2>5. delta[e] = 0 - Paid(payment[k], e)
    BY <1>8, <1>9, <2>4
  <2> QED
    BY <2>2, <2>3, <2>5
<1>12. DOMAIN pl.hand = {}
  BY <1>5
<1>13. Settle(delta, {o}) /\ base' = base
  BY <1>2, <1>5, <1>10, <1>11, <1>12, Settled
<1>14. RemovePayment(k)
  <2>1. UNCHANGED <<status, target, rules>>
    BY DEF Lands
  <2> QED
    BY <1>1, <1>3, <1>6, <1>7, <1>8, <1>13, <2>1 DEF RemovePayment
<1> QED
  BY <1>1, <1>14 DEF Next, PaymentStep, DeletePayment

\* What the commit of an entity's edit leaves is the step of Ledger.
LEMMA EditLands ==
  ASSUME IInv, TypeOK', NEW pl, Editing(pl), Lands(pl)
  PROVE  Next \/ UNCHANGED vars
<1>1. PICK e \in Entities, amount \in Overrides \cup {None} :
        status[e] = "live" /\ pl = Plan(<< >>, << >>, {}, << >>, {e}, Stated(e, amount))
  BY DEF Editing
<1>2. /\ TypeOK /\ payment \in [Payments -> Payment] /\ base \in [Entities -> Int]
      /\ balance \in [Entities -> Int] /\ target \in [Objectives -> Int]
      /\ completed \in [Objectives -> BOOLEAN]
  BY DEF IInv, TypeOK
<1>3. PICK hand : hand = Stated(e, amount)
  OBVIOUS
<1>4. /\ amount = None => DOMAIN hand = {}
      /\ amount # None => DOMAIN hand = {e} /\ hand[e] = amount
  BY <1>3 DEF Stated
<1>5. pl = Plan(<< >>, << >>, {}, << >>, {e}, hand)
  BY <1>1, <1>3
<1>6. pl.gone = {} /\ pl.paid = << >> /\ pl.touched = {e} /\ pl.hand = hand
  BY <1>5, PlanParts
<1>7. record' = record /\ next' = next
  BY <1>2, <1>5, RowsStill
<1>8. payment' = payment
  <2>1. payment' = [k \in Payments |-> payment[k]]
    BY <1>6 DEF Lands
  <2> QED
    BY <1>2, <2>1
<1>9. ASSUME NEW x \in Entities PROVE Explained(x)' = Explained(x) /\ Explained(x) \in Int
  <2>1. Explained(x)' = Explained(x)
    BY <1>7, <1>8 DEF Explained
  <2> QED
    BY <1>2, <2>1, ExplainedType
<1>10. ASSUME NEW x \in Entities
       PROVE  balance'[x] = IF x = e THEN Given(amount, balance[e]) ELSE balance[x]
  <2>1. balance'[x] = IF x \in DOMAIN hand THEN hand[x]
                      ELSE IF status[x] = "live" THEN balance[x] + (Explained(x)' - Explained(x))
                      ELSE balance[x]
    BY <1>6 DEF Lands
  <2>2. balance[x] \in Int /\ balance[x] + (Explained(x)' - Explained(x)) = balance[x]
    <3>1. PICK y \in Int : y = Explained(x)
      BY <1>9
    <3>2. Explained(x)' = y
      BY <1>9, <3>1
    <3>3. balance[x] \in Int /\ balance[x] + (y - y) = balance[x]
      BY <1>2
    <3> QED
      BY <3>1, <3>2, <3>3
  <2> QED
    BY <1>4, <2>1, <2>2 DEF Given
<1>11. balance' = [balance EXCEPT ![e] = Given(amount, @)]
  <2>1. balance' = [x \in Entities |-> balance'[x]]
    BY DEF Lands
  <2> QED
    BY <1>1, <1>2, <1>10, <2>1
<1>12. base' = [base EXCEPT ![e] = IF amount = None THEN @ ELSE amount - Explained(e)]
  <2>1. base' = [x \in Entities |-> IF x \in DOMAIN hand THEN hand[x] - Explained(x) ELSE base[x]]
    BY <1>6 DEF Lands
  <2>2. \A x \in Entities : base'[x] = IF x = e THEN (IF amount = None THEN base[e] ELSE amount - Explained(e))
                                       ELSE base[x]
    BY <1>4, <2>1
  <2> QED
    BY <1>1, <1>2, <2>1, <2>2
<1>13. UNCHANGED <<status, target, rules>>
  BY DEF Lands
<1>14. completed' = [o \in Objectives |->
         IF status[o] = "live" /\ o \in {e} THEN balance'[o] >= target[o] ELSE completed[o]]
  BY <1>6 DEF Lands
<1>15. CASE e \in Objectives
  <2>1. target' = [target EXCEPT ![e] = Given(None, @)]
    BY <1>2, <1>13 DEF Given
  <2>2. completed' = [completed EXCEPT ![e] = balance'[e] >= target'[e]]
    <3>1. \A o \in Objectives : completed'[o] = IF o = e THEN balance'[e] >= target'[e] ELSE completed[o]
      BY <1>1, <1>13, <1>14
    <3>2. completed' = [o \in Objectives |-> completed'[o]]
      BY <1>14
    <3> QED
      BY <1>2, <1>15, <3>1, <3>2
  <2>3. UpdateObjective(e, amount, None, None)
    <3>1. completed' = [completed EXCEPT ![e] =
            IF None = None THEN balance'[e] >= target'[e] ELSE None]
      BY <2>2, Zenon
    <3> QED
      BY <1>1, <1>7, <1>8, <1>11, <1>12, <1>13, <2>1, <3>1, ZenonT(60) DEF UpdateObjective
  <2> QED
    BY <1>1, <1>15, <2>3 DEF Next, EntityStep, ObjectiveStep
<1>16. CASE e \notin Objectives /\ amount # None
  <2>1. completed' = completed
    BY <1>2, <1>14, <1>16
  <2>2. SetBalance(e, amount)
    BY <1>1, <1>7, <1>8, <1>11, <1>12, <1>13, <1>16, <2>1 DEF SetBalance, goalVars, Given
  <2>3. e \in Accounts \/ e \in Assets \/ e \in Liabilities
    BY <1>1, <1>16 DEF Entities, Patrimony
  <2>4. amount \in Overrides
    BY <1>1, <1>16
  <2> QED
    BY <2>2, <2>3, <2>4 DEF Next, EntityStep, AccountStep, AssetStep, LiabilityStep, Changes
<1>17. CASE e \notin Objectives /\ amount = None
  <2>1. completed' = completed
    BY <1>2, <1>14, <1>17
  <2>2. balance' = balance /\ base' = base
    BY <1>2, <1>11, <1>12, <1>17 DEF Given
  <2> QED
    BY <1>7, <1>8, <1>13, <2>1, <2>2 DEF vars, goalVars
<1> QED
  BY <1>15, <1>16, <1>17

\* Whatever the plan, it is an operation of Ledger, or nothing.
LEMMA IntendedLands ==
  ASSUME LegEdits # "any", IInv, TypeOK', NEW pl, Intended(pl), Lands(pl)
  PROVE  Next \/ UNCHANGED vars
<1>1. Creating(pl) \/ Importing(pl) \/ Copying(pl) => Next
  BY CreateLands, ImportLands, CopyLands
<1>2. Updating(pl) \/ Undoing(pl) \/ Removing(pl) \/ RemovingMany(pl) => Next
  BY UpdateLands, UndoLands, RemoveLands, RemoveManyLands
<1>3. Transferring(pl) \/ Amending(pl) \/ Paying(pl) \/ Unpaying(pl) => Next
  BY TransferLands, AmendLands, PayLands, UnpayLands
<1>4. Editing(pl) => Next \/ UNCHANGED vars
  BY EditLands
<1> QED
  BY <1>1, <1>2, <1>3, <1>4 DEF Intended

-----------------------------------------------------------------------------
(* One request at a time implements Ledger.                                *)

\* One request at a time.
Alone == \A p, q \in Requests : p = q

\* The inductive invariant: nothing was raced, the books satisfy what the operations
\* of Ledger keep, and the request under way carries out a plan.
AloneInv == RacesHold /\ IInv /\ raced = {} /\ Promise

\* A step that commits nothing leaves the books as they are, or opens an entity.
LEMMA AloneSteps ==
  ASSUME LegEdits # "any", AloneInv, [RaceNext]_allVars
  PROVE  [Next]_vars
<1>1. RacesHold /\ RaceInv /\ IInv /\ raced = {} /\ Promise
  BY DEF AloneInv, RacesHold
<1>2. RacesHold'
  BY <1>1, RacesNext
<1>3. TypeOK'
  BY <1>2 DEF RacesHold, RaceInv, RaceTypes
<1>4. CASE OpensEntities
  <2>1. PICK e \in Entities, amount \in Openings, goal \in Targets : Open(e, amount, goal)
    BY <1>4 DEF OpensEntities
  <2>2. EntityStep
    BY <2>1 DEF EntityStep, AccountStep, AssetStep, LiabilityStep, ObjectiveStep, Opens,
         Entities, Patrimony
  <2> QED
    BY <2>2 DEF Next
<1>5. ASSUME NEW p \in Requests, AskRecord(p) \/ AskMoney(p) PROVE UNCHANGED vars
  <2>1. PICK op, list : Ask(p, op, list)
    BY <1>5, RequestsAsk
  <2> QED
    BY <2>1 DEF Ask
<1>6. ASSUME NEW p \in Requests, Execute(p) PROVE UNCHANGED vars
  BY <1>6 DEF Execute
<1>7. ASSUME NEW p \in Requests, Commits(p) PROVE Next \/ UNCHANGED vars
  <2>1. Running(p) /\ Drawn(p)
    BY <1>1, <1>7 DEF Commits, RacesHold
  <2>2. PICK pl : Intended(pl) /\ Carried(p, pl)
    BY <1>1, <2>1 DEF Promise
  <2>3. Lands(pl)
    BY <1>1, <1>7, <2>1, <2>2, CommitLands
  <2> QED
    BY <1>1, <1>3, <2>2, <2>3, IntendedLands
<1>8. ASSUME NEW p \in Requests, Fail(p) \/ BreakDeadlock(p) PROVE UNCHANGED vars
  BY <1>8 DEF Fail, BreakDeadlock
<1>9. UNCHANGED allVars => UNCHANGED vars
  BY DEF allVars
<1> QED
  BY <1>4, <1>5, <1>6, <1>7, <1>8, <1>9 DEF RaceNext

\* A request that is over has nothing to carry out.
LEMMA OverPromise ==
  ASSUME Alone, RaceTypes, NEW p \in Requests, Forget(p)
  PROVE  Promise'
<1>1. todo'[p] = << >>
  BY DEF Forget, RaceTypes
<1>2. \A q \in Requests : todo'[q] = << >>
  BY <1>1 DEF Alone
<1> QED
  BY <1>2 DEF Promise, Running

\* What carries a plan out still does when nothing moves.
LEMMA StillCarried ==
  ASSUME UNCHANGED vars, todo' = todo, work' = work, new' = new, newPay' = newPay,
         NEW p, NEW pl, Carried(p, pl)
  PROVE  Carried(p, pl)'
<1>1. RowsCarried(p, pl) /\ NewCarried(p, pl) /\ PayCarried(p, pl) /\ MoneyCarried(p, pl)
  BY DEF Carried
<1>2. Left(p)' = Left(p)
  BY DEF Left
<1>3. record' = record /\ next' = next
  BY Unmoved
<1>4. RowsCarried(p, pl)'
  <2>1. \A s : RowServed(s, pl)' <=> RowServed(s, pl)
    BY <1>3 DEF RowServed
  <2>2. \A i \in Ids : Row(i) \in DOMAIN work[p] =>
                         i \in DOMAIN pl.rows /\ work[p][Row(i)] = pl.rows[i]
    BY <1>1 DEF RowsCarried
  <2>3. \A i \in Ids : Row(i) \in DOMAIN work'[p] =>
                         i \in DOMAIN pl.rows /\ work'[p][Row(i)] = pl.rows[i]
    BY <2>2
  <2>4. \A i \in DOMAIN pl.rows : i \in Ids /\ i < next
    BY <1>1 DEF RowsCarried
  <2>5. \A s \in Left(p)' : RowServed(s, pl)'
    BY <1>1, <1>2, <2>1 DEF RowsCarried
  <2>6. \A i \in DOMAIN pl.rows :
           \/ pl.rows[i] = record[i] \/ Row(i) \in DOMAIN work'[p]
           \/ \E s \in Left(p)' : Row(i) \in Pending(s)
    BY <1>1, <1>2 DEF RowsCarried
  <2>7. \A i : \A s : (Row(i) \in Pending(s))' <=> Row(i) \in Pending(s)
    BY DEF Pending
  <2> QED
    BY <1>3, <2>3, <2>4, <2>5, <2>6, <2>7 DEF RowsCarried
<1>5. NewCarried(p, pl)'
  BY <1>1 DEF NewCarried
<1>6. PayCarried(p, pl)'
  BY <1>1, <1>2 DEF PayCarried
<1>7. MoneyCarried(p, pl)'
  <2>1. \A o \in Objectives \cap pl.touched : status[o] = "live" =>
           \/ Entity(o) \in DOMAIN work'[p]
           \/ \E s \in Left(p)' : s.do \in {"adjust", "write"} /\ s.on = o
           \/ completed[o] = (balance[o] >= target[o])
    BY <1>1, <1>2 DEF MoneyCarried
  <2>2. \A e \in DOMAIN pl.hand :
           \/ Entity(e) \in DOMAIN work'[p] /\ work'[p][Entity(e)].byHand
           \/ \E s \in Left(p)' : s.do = "write" /\ s.on = e /\ s.figure.byHand
    BY <1>1, <1>2 DEF MoneyCarried
  <2>3. \A s \in Left(p)' : s \in Left(p) \/ MoneyServed(s, pl)
    BY <1>2
  <2>4. \A e \in Entities : Entity(e) \in DOMAIN work'[p] =>
           \/ Entity(e) \in DOMAIN work[p] /\ work'[p][Entity(e)] = work[p][Entity(e)]
           \/ Proven(e, work'[p][Entity(e)], pl)
    OBVIOUS
  <2> QED
    BY <1>1, <2>1, <2>2, <2>3, <2>4, MoneyMoved
<1> QED
  BY <1>4, <1>5, <1>6, <1>7 DEF Carried

\* A step of the only request keeps its promise.
LEMMA AlonePromise ==
  ASSUME Alone, LegEdits # "any", AloneInv, [RaceNext]_allVars
  PROVE  raced' = {} /\ Promise'
<1>1. RacesHold /\ RaceInv /\ RaceTypes /\ raced = {} /\ Promise
  BY DEF AloneInv, RacesHold, RaceInv
<1>2. CASE OpensEntities
  <2>1. asked = 0 /\ todo' = todo /\ raced' = raced
    BY <1>2 DEF OpensEntities, raceVars
  <2>2. \A q \in Requests : todo'[q] = << >>
    BY <1>1, <2>1 DEF RaceInv, Files
  <2> QED
    BY <1>1, <2>1, <2>2 DEF Promise, Running
<1>3. ASSUME NEW p \in Requests, AskRecord(p) \/ AskMoney(p) PROVE raced' = {} /\ Promise'
  <2>1. PICK op, list : Ask(p, op, list)
    BY <1>3, RequestsAsk
  <2>2. UNCHANGED vars /\ ~ Running(p)
        /\ raced' = raced \cup
              UNION {Conflict(Touched(list), touch[q]) : q \in {r \in Requests : Running(r)}}
    BY <2>1 DEF Ask
  <2>3. {r \in Requests : Running(r)} = {}
    BY <2>2 DEF Alone
  <2>4. raced' = {}
    BY <1>1, <2>2, <2>3
  <2>5. PICK pl : Intended(pl) /\ Carried(p, pl)'
    BY <1>1, <1>3, RequestPlanned
  <2>6. Intended(pl)'
    BY <2>2, <2>5, IntendedStays
  <2>7. \A q \in Requests : q = p
    BY DEF Alone
  <2> QED
    BY <2>4, <2>5, <2>6, <2>7 DEF Promise
<1>4. ASSUME NEW p \in Requests, Execute(p) PROVE raced' = {} /\ Promise'
  <2>1. UNCHANGED vars /\ raced' = raced /\ Running(p)
    BY <1>4 DEF Execute
  <2>2. PICK pl : Intended(pl) /\ Carried(p, pl)
    BY <1>1, <2>1 DEF Promise
  <2>3. Carried(p, pl)'
    BY <1>1, <1>4, <2>2, CarriedExecuting
  <2>4. Intended(pl)'
    BY <2>1, <2>2, IntendedStays
  <2>5. \A q \in Requests : q = p
    BY DEF Alone
  <2> QED
    BY <1>1, <2>1, <2>3, <2>4, <2>5 DEF Promise
<1>5. ASSUME NEW p \in Requests, Commits(p) \/ Fail(p) \/ BreakDeadlock(p)
      PROVE  raced' = {} /\ Promise'
  <2>1. Forget(p)
    BY <1>5 DEF Commits, Fail, BreakDeadlock
  <2>2. raced' = raced
    BY <2>1 DEF Forget
  <2> QED
    BY <1>1, <2>1, <2>2, OverPromise
<1>6. CASE UNCHANGED allVars
  <2>1. /\ UNCHANGED vars /\ todo' = todo /\ work' = work /\ new' = new
        /\ newPay' = newPay /\ raced' = raced
    BY <1>6 DEF allVars, raceVars
  <2>2. ASSUME NEW p \in Requests, Running(p)' PROVE \E pl : Intended(pl)' /\ Carried(p, pl)'
    <3>1. PICK pl : Intended(pl) /\ Carried(p, pl)
      BY <1>1, <2>1, <2>2 DEF Promise, Running
    <3>2. Intended(pl)'
      BY <2>1, <3>1, IntendedStays
    <3>3. Carried(p, pl)'
      BY <2>1, <3>1, StillCarried
    <3> QED
      BY <3>2, <3>3
  <2> QED
    BY <1>1, <2>1, <2>2 DEF Promise
<1> QED
  BY <1>2, <1>3, <1>4, <1>5, <1>6 DEF RaceNext

\* The invariant holds before any request, and the books start as Ledger's do.
LEMMA AloneStart == RaceInit => AloneInv /\ Init
<1> SUFFICES ASSUME RaceInit PROVE AloneInv /\ Init
  OBVIOUS
<1>1. RacesHold
  BY RacesStart
<1>2. IInv
  BY BooksStart DEF RaceInit
<1>3. raced = {} /\ \A p \in Requests : todo[p] = << >>
  BY DEF RaceInit
<1> QED
  BY <1>1, <1>2, <1>3 DEF AloneInv, Promise, Running, RaceInit

\* Every step of the only request keeps the invariant, and is one of Ledger or none.
LEMMA AloneNext ==
  Alone /\ LegEdits # "any" /\ AloneInv /\ [RaceNext]_allVars => AloneInv' /\ [Next]_vars
<1> SUFFICES ASSUME Alone, LegEdits # "any", AloneInv, [RaceNext]_allVars
             PROVE  AloneInv' /\ [Next]_vars
  OBVIOUS
<1>1. [Next]_vars
  BY AloneSteps
<1>2. IInv'
  BY <1>1, Inductive DEF AloneInv
<1>3. RacesHold'
  BY RacesNext DEF AloneInv
<1>4. raced' = {} /\ Promise'
  BY AlonePromise
<1> QED
  BY <1>1, <1>2, <1>3, <1>4 DEF AloneInv

\* One request at a time does what Ledger says, in one step, however its statements fail.
THEOREM AloneImplements ==
  ASSUME LegEdits # "any", \A p, q \in Requests : p = q
  PROVE  RaceSpec => ImplementsLedger
<1>1. Alone
  BY DEF Alone
<1>2. AloneInv /\ [RaceNext]_allVars => AloneInv' /\ [Next]_vars
  BY <1>1, AloneNext
<1> QED
  BY <1>2, AloneStart, PTL DEF RaceSpec, ImplementsLedger, Spec

=============================================================================
