------------------------- MODULE LedgerRacesProofs -------------------------
(***************************************************************************)
(* Proof that overlapping requests damage no more than LedgerRaces says:   *)
(* DamageIsConfined, and HalvesAreConfined for the legs of transfers.      *)
(*                                                                         *)
(* The balances of a request half way are explained by no sum over the     *)
(* movements.  The invariant (RaceInv) says what explains them: the balance*)
(* as the request has it (its own write, or what is committed), with what  *)
(* its remaining statements will do to it, is the committed balance with   *)
(* what the movements it has written, and will write, contribute (Balanced)*)
(* -- for every entity that no overlap has spoilt.  The rest of the        *)
(* invariant says why another commit does not disturb this.                *)
(*                                                                         *)
(* One commit may delete a leg that another request still saves.  HalvesHold*)
(* adds that rows a request read live and that are no longer have spoilt   *)
(* it, that no request moves a record to other accounts, and that who      *)
(* deletes one leg deletes the other.                                      *)
(***************************************************************************)
EXTENDS LedgerRaces, LedgerProofs

-----------------------------------------------------------------------------
(* The invariant.                                                          *)

\* A row before its group is drawn.
Draft ==
  [state: States, type: Types, amount: Amounts, objective: ObjectiveOrNone,
   patrimony: PatrimonyOrNone, origin: AccountOrNone,
   destination: AccountOrNone, group: Nat,
   description: Descriptions, category: CategoryOrNone,
   status: {"pending", "categorized"}, company: CompanyOrNone]

Columns ==
  {"state", "type", "amount", "objective", "patrimony", "origin", "destination",
   "group", "description", "category", "status", "company"}

\* What a request writes of an entity.
Figures == [balance: Int, completed: BOOLEAN, byHand: BOOLEAN]

\* The statements of LedgerRaces.
Statements ==
  [do: {"insert"}, row: Draft]
    \cup [do: {"pay"}, row: Payment]
    \cup [do: {"drop"}, id: Ids]
    \cup [do: {"unpay"}, id: Payments]
    \cup [do: {"commit"}]
    \cup [do: {"save"}, id: Ids, row: Record, stated: SUBSET {"amount"}]
    \cup [do: {"update"}, id: Ids, row: Record, columns: SUBSET Columns]
    \cup [do: {"adjust"}, on: Entities, by: Int]
    \cup [do: {"write"}, on: Entities, figure: Figures, counted: BOOLEAN]

\* The balance of e as p has it, but for one set by hand.
Own(p, e) ==
  IF OwnFigure(p, e).byHand THEN balance[e] ELSE OwnFigure(p, e).balance

\* What a statement still has to do to the balance of e, less what it does to the
\* movements that explain it.
Weigh(p, s, e) ==
  CASE s.do = "insert"     -> - Collected(s.row, e)
    [] s.do = "pay" -> - Paid(s.row, e)
    [] s.do = "drop"       -> Collected(record[s.id], e)
    [] s.do = "unpay"   -> Paid(payment[s.id], e)
    [] s.do \in {"save", "update"} -> Collected(record[s.id], e) - Collected(s.row, e)
    [] s.do = "adjust"     -> IF s.on = e THEN s.by ELSE 0
    [] s.do = "write"      ->
         IF s.on = e /\ ~ s.figure.byHand THEN s.figure.balance - Own(p, e) ELSE 0
    [] OTHER               -> 0

\* What all the statements a request has left still weigh.
Due(p, e) == Total(Len(todo[p]), [k \in 1..Len(todo[p]) |-> Weigh(p, todo[p][k], e)])

\* What the movements that explain e gain when p commits what it has written.
Moved(p, i, e) ==
  IF Row(i) \in DOMAIN work[p]
  THEN Collected(work[p][Row(i)], e) - Collected(record[i], e)
  ELSE 0

\* A payment it has deleted.
Unpaid(p, k, e) == IF Abono(k) \in DOMAIN work[p] THEN - Paid(payment[k], e) ELSE 0

\* All of what the movements gain when p commits now.
Kept(p, e) ==
  SumOver(Ids, [i \in Ids |-> Moved(p, i, e)])
    + Total(MaxPayments, [k \in Payments |-> Unpaid(p, k, e)])
    + Total(Len(new[p]), [k \in 1..Len(new[p]) |-> Collected(new[p][k], e)])
    + (IF newPay[p] = << >> THEN 0 ELSE Paid(newPay[p][1], e))

\* The heart of the invariant: the balance as the request has it and what it still
\* has to do come to the committed balance and what it would keep.
Balanced(p) ==
  \A e \in Entities \ raced :
    status[e] = "live" => Own(p, e) + Due(p, e) = balance[e] + Kept(p, e)

\* The rows a statement has still to write.
Pending(s) ==
  IF s.do \in {"save", "update", "drop"} THEN {Row(s.id)}
  ELSE IF s.do = "unpay" THEN {Abono(s.id)} ELSE {}

\* How often a row is still to be written.
Times(p, r) ==
  Total(Len(todo[p]),
        [k \in 1..Len(todo[p]) |-> IF r \in Pending(todo[p][k]) THEN 1 ELSE 0])

\* A request writes a row once.
Once(p) ==
  \A r \in touch[p].rows : Times(p, r) + (IF r \in DOMAIN work[p] THEN 1 ELSE 0) <= 1

\* A deleted row is blank (Unread), only transfers have a group, and a transfer is
\* linked to an asset or a liability only where an overlap spoilt it.
Shaped(r) ==
  /\ r.state # "live" => r.type = "expense"
  /\ r.state = "live" /\ r.group # 0 => r.type = "transfer"
  /\ r.type = "transfer" => r.patrimony \in raced \cup {None}

\* A statement is about what the request touched when it was asked, and a save puts
\* back the columns that were read.
Fit(p, s) ==
  /\ s \in Statements
  /\ Pending(s) \subseteq touch[p].rows
  /\ ChangesOf(s) \subseteq touch[p].changes
  /\ s.do = "insert" => s.row.state = "live" /\ Shaped(s.row)
  /\ s.do = "pay" => s.row.state = "live"
  /\ s.do \in {"save", "update"} =>
       /\ s.row.state = "live" /\ s.row.group = record[s.id].group
       /\ Linked(s.row) \subseteq touch[p].links
       /\ Shaped(s.row)
  /\ s.do = "update" =>
       /\ \/ touch[p].links \subseteq raced
          \/ \A c \in DOMAIN s.row \ s.columns : record[s.id][c] = s.row[c]
       /\ "state" \in s.columns /\ s.row.type # "expense" => "type" \in s.columns

\* Payments come first, balances read at the start are written next, and the
\* commit is last.
Ordered(p) ==
  \A k \in 1..Len(todo[p]) :
    LET s == todo[p][k]
    IN  /\ Fit(p, s)
        /\ s.do = "commit" <=> k = Len(todo[p])
        /\ s.do = "write" => k = 1 \/ (k = 2 /\ todo[p][1].do = "pay")
        /\ s.do = "pay" => k = 1 /\ newPay[p] = << >>
        /\ s.do = "write" /\ s.figure.byHand =>
             k = 1 /\ Len(todo[p]) = 2 /\ work[p] = NoWork
               /\ new[p] = << >> /\ newPay[p] = << >>

\* A request that is not running has nothing in hand.
AtRest(p) ==
  todo[p] = << >> =>
    work[p] = NoWork /\ new[p] = << >> /\ newPay[p] = << >> /\ touch[p] = Nothing

\* What a request has written of the rows it touched.
Imaged(p) ==
  \A key \in DOMAIN work[p] :
    \/ \E i \in Ids :
         LET r == work[p][Row(i)]
         IN  /\ key = Row(i) /\ key \in touch[p].rows
             /\ r \in Record /\ r.state \in {"live", "deleted"}
             /\ r.group = record[i].group
             /\ Linked(r) \subseteq touch[p].links \cup raced
             /\ Shaped(r)
    \/ \E k \in Payments :
         key = Abono(k) /\ key \in touch[p].rows /\ work[p][key] = NoPayment("deleted")
    \/ \E e \in touch[p].changes :
         /\ key = Entity(e) /\ work[p][key] \in Figures
         /\ work[p][key].byHand =>
              Len(todo[p]) = 1 /\ DOMAIN work[p] = {key} /\ new[p] = << >> /\ newPay[p] = << >>

\* The rows and payments a request touches exist, and what they are linked to is
\* touched as well.
Traced(p) ==
  /\ touch[p].changes \subseteq touch[p].links
  /\ touch[p].links \subseteq Entities
  /\ \A r \in touch[p].rows :
       \/ \E i \in Ids : /\ r = Row(i) /\ i < next
                         /\ Linked(record[i]) \subseteq touch[p].links \cup raced
       \/ \E k \in Payments :
            /\ r = Abono(k) /\ payment[k].state # "none"
            /\ payment[k].state = "live" => payment[k].objective \in touch[p].links \cup raced

\* What holds of each request.
Sound(p) == Balanced(p) /\ Once(p) /\ Ordered(p) /\ AtRest(p) /\ Imaged(p) /\ Traced(p)

\* Entities and rows that two requests change are raced.
Apart(p, q) ==
  /\ touch[p].changes \cap touch[q].changes \subseteq raced
  /\ touch[p].rows \cap touch[q].rows # {} =>
       touch[p].links \subseteq raced /\ touch[q].links \subseteq raced

\* The types of the variables.
RaceTypes ==
  /\ TypeOK
  /\ DOMAIN todo = Requests /\ DOMAIN work = Requests /\ DOMAIN touch = Requests
  /\ \A p \in Requests : todo[p] \in Seq(Statements)
  /\ new \in [Requests -> Seq(Draft)]
  /\ newPay \in [Requests -> Seq(Payment)]
  /\ asked \in Nat
  /\ raced \subseteq Entities

\* Rows not yet drawn are empty, and nothing is before the first request.
Files ==
  /\ \A i \in Ids : /\ i >= next => record[i].state = "none"
                    /\ Shaped(record[i])
  /\ asked = 0 =>
       /\ next = 1 /\ \A k \in Payments : payment[k].state = "none"
       /\ \A p \in Requests : todo[p] = << >>

\* The invariant of LedgerRaces.
RaceInv ==
  /\ RaceTypes
  /\ Files
  /\ DamageIsConfined
  /\ \A p \in Requests : Sound(p)
  /\ \A p, q \in Requests : p # q => Apart(p, q)

-----------------------------------------------------------------------------
(* Lists of statements.                                                    *)

\* What the elements of a list weigh together.
WeightOf(s, w) == Total(Len(s), [k \in 1..Len(s) |-> w[s[k]]])

\* A list of integer weights weighs an integer.
LEMMA WeightInt ==
  ASSUME NEW S, NEW w \in [S -> Int], NEW s \in Seq(S)
  PROVE  /\ Len(s) \in Nat
         /\ [k \in 1..Len(s) |-> w[s[k]]] \in [1..Len(s) -> Int]
         /\ WeightOf(s, w) \in Int
<1>1. Len(s) \in Nat /\ \A k \in 1..Len(s) : s[k] \in S
  OBVIOUS
<1>2. [k \in 1..Len(s) |-> w[s[k]]] \in [1..Len(s) -> Int]
  BY <1>1
<1> QED
  BY <1>1, <1>2, TotalInt DEF WeightOf

\* Only the elements count.
LEMMA WeightSame ==
  ASSUME NEW s, NEW w, NEW v, \A k \in 1..Len(s) : w[s[k]] = v[s[k]]
  PROVE  WeightOf(s, w) = WeightOf(s, v)
<1>1. [k \in 1..Len(s) |-> w[s[k]]] = [k \in 1..Len(s) |-> v[s[k]]]
  OBVIOUS
<1> QED
  BY <1>1 DEF WeightOf

\* A list of things without weight weighs nothing.
LEMMA WeightZero ==
  ASSUME NEW S, NEW w \in [S -> Int], NEW s \in Seq(S), \A k \in 1..Len(s) : w[s[k]] = 0
  PROVE  WeightOf(s, w) = 0
<1> DEFINE t == [k \in 1..Len(s) |-> w[s[k]]]
<1>1. Len(s) \in Nat /\ t \in [1..Len(s) -> Int] /\ \A k \in 1..Len(s) : t[k] = 0
  BY WeightInt
<1> HIDE DEF t
<1>2. Total(Len(s), t) = 0
  BY <1>1, TotalZero
<1> QED
  BY <1>2 DEF WeightOf, t

\* The empty list weighs nothing.
LEMMA WeightEmpty ==
  ASSUME NEW w
  PROVE  WeightOf(<< >>, w) = 0
<1> DEFINE t == [k \in 1..0 |-> w[<< >>[k]]]
<1>1. t \in [1..0 -> Int] /\ \A k \in 1..0 : t[k] = 0
  OBVIOUS
<1>2. WeightOf(<< >>, w) = Total(0, t)
  <2>1. Len(<< >>) = 0
    OBVIOUS
  <2> QED
    BY <2>1 DEF WeightOf
<1> HIDE DEF t
<1>3. Total(0, t) = 0
  BY <1>1, TotalZero
<1> QED
  BY <1>2, <1>3

\* A list of one weighs what the one does.
LEMMA WeightOne ==
  ASSUME NEW S, NEW w \in [S -> Int], NEW x \in S
  PROVE  WeightOf(<<x>>, w) = w[x]
<1> DEFINE t == [k \in 1..1 |-> w[<<x>>[k]]]
<1>1. t \in [1..1 -> Int] /\ t[1] = w[x]
  OBVIOUS
<1>2. WeightOf(<<x>>, w) = Total(1, t)
  <2>1. Len(<<x>>) = 1
    OBVIOUS
  <2> QED
    BY <2>1 DEF WeightOf
<1> HIDE DEF t
<1>3. Total(1, t) = t[1]
  BY <1>1, TotalOne
<1> QED
  BY <1>1, <1>2, <1>3

\* Two lists weigh together what each does.
LEMMA WeightConcat ==
  ASSUME NEW S, NEW w \in [S -> Int], NEW s \in Seq(S), NEW t \in Seq(S)
  PROVE  /\ s \o t \in Seq(S)
         /\ WeightOf(s \o t, w) = WeightOf(s, w) + WeightOf(t, w)
<1> DEFINE c == [k \in 1..Len(s) |-> w[s[k]]]
           d == [k \in 1..Len(t) |-> w[t[k]]]
           e == [k \in 1..Len(s \o t) |-> w[(s \o t)[k]]]
<1>1. s \o t \in Seq(S) /\ Len(s \o t) = Len(s) + Len(t)
  OBVIOUS
<1>2. /\ Len(s) \in Nat /\ c \in [1..Len(s) -> Int]
      /\ Len(t) \in Nat /\ d \in [1..Len(t) -> Int]
      /\ e \in [1..Len(s \o t) -> Int]
  BY <1>1, WeightInt
<1>3. /\ \A k \in 1..Len(s) : e[k] = c[k]
      /\ \A k \in 1..Len(t) : e[Len(s) + k] = d[k]
  BY <1>1
<1>4. WeightOf(s, w) = Total(Len(s), c) /\ WeightOf(t, w) = Total(Len(t), d)
      /\ WeightOf(s \o t, w) = Total(Len(s) + Len(t), e)
  BY <1>1 DEF WeightOf
<1> HIDE DEF c, d, e
<1>5. e \in [1..(Len(s) + Len(t)) -> Int]
  BY <1>1, <1>2
<1>6. Total(Len(s) + Len(t), e) = Total(Len(s), c) + Total(Len(t), d)
  BY <1>2, <1>3, <1>5, TotalConcat
<1> QED
  BY <1>1, <1>4, <1>6

\* A list weighs what its head and its tail do.
LEMMA WeightTail ==
  ASSUME NEW S, NEW w \in [S -> Int], NEW s \in Seq(S), s # << >>
  PROVE  /\ Head(s) \in S /\ Tail(s) \in Seq(S)
         /\ WeightOf(s, w) = w[Head(s)] + WeightOf(Tail(s), w)
<1>1. Head(s) \in S /\ Tail(s) \in Seq(S) /\ <<Head(s)>> \in Seq(S)
      /\ s = <<Head(s)>> \o Tail(s)
  OBVIOUS
<1>2. WeightOf(<<Head(s)>> \o Tail(s), w) = WeightOf(<<Head(s)>>, w) + WeightOf(Tail(s), w)
  BY <1>1, WeightConcat
<1>3. WeightOf(<<Head(s)>>, w) = w[Head(s)]
  BY <1>1, WeightOne
<1> QED
  BY <1>1, <1>2, <1>3

\* Natural weights add up to a natural number, and each is part of it.
LEMMA WeightNat ==
  ASSUME NEW S, NEW w \in [S -> Nat], NEW s \in Seq(S)
  PROVE  WeightOf(s, w) \in Nat
<1> DEFINE t == [k \in 1..Len(s) |-> w[s[k]]]
<1>1. Len(s) \in Nat /\ t \in [1..Len(s) -> Nat]
  OBVIOUS
<1> HIDE DEF t
<1>2. Total(Len(s), t) \in Nat
  BY <1>1, TotalNat
<1> QED
  BY <1>2 DEF WeightOf, t

-----------------------------------------------------------------------------
(* Joined lists.                                                           *)

IsLine(S, n, part, l) ==
  /\ l \in [0..n -> Seq(S)]
  /\ l[0] = << >>
  /\ \A i \in 1..n : l[i] = l[i-1] \o part[i]

\* One more part can be joined to a line.
LEMMA LineExtends ==
  ASSUME NEW S, NEW n \in Nat, NEW part \in [1..n -> Seq(S)], NEW m \in 1..n,
         NEW l, IsLine(S, m-1, part, l)
  PROVE  \E t : IsLine(S, m, part, t)
<1> DEFINE t == [i \in 0..m |-> IF i = m THEN l[m-1] \o part[m] ELSE l[i]]
<1>1. l \in [0..(m-1) -> Seq(S)] /\ part[m] \in Seq(S) /\ l[m-1] \in Seq(S)
  BY DEF IsLine
<1>2. l[m-1] \o part[m] \in Seq(S)
  BY <1>1
<1>3. t \in [0..m -> Seq(S)]
  BY <1>1, <1>2
<1>4. t[0] = << >>
  BY DEF IsLine
<1>5. \A i \in 1..m : t[i] = t[i-1] \o part[i]
  <2> TAKE i \in 1..m
  <2>1. CASE i = m
    <3>1. t[m] = l[m-1] \o part[m] /\ t[m-1] = l[m-1]
      OBVIOUS
    <3> HIDE DEF t
    <3> QED
      BY <2>1, <3>1
  <2>2. CASE i # m
    <3>1. t[i] = l[i] /\ t[i-1] = l[i-1] /\ i \in 1..(m-1)
      BY <2>2
    <3>2. l[i] = l[i-1] \o part[i]
      BY <3>1 DEF IsLine
    <3> HIDE DEF t
    <3> QED
      BY <3>1, <3>2
  <2> QED
    BY <2>1, <2>2
<1> HIDE DEF t
<1>6. IsLine(S, m, part, t)
  BY <1>3, <1>4, <1>5 DEF IsLine
<1> QED
  BY <1>6

\* There is a line that joins all the parts.
LEMMA LineExists ==
  ASSUME NEW S, NEW n \in Nat, NEW part \in [1..n -> Seq(S)]
  PROVE  \E l : IsLine(S, n, part, l)
<1> DEFINE Missing == {m \in 0..n : \A l : ~ IsLine(S, m, part, l)}
<1>1. SUFFICES ASSUME Missing # {} PROVE FALSE
  BY n \in 0..n
<1>2. PICK m \in Missing : \A y \in Missing : m <= y
  BY <1>1, LeastElement, Missing \in SUBSET Nat
<1>3. m \in 0..n /\ \A l : ~ IsLine(S, m, part, l)
  BY <1>2
<1>4. m # 0
  <2>1. IsLine(S, 0, part, [i \in 0..0 |-> << >>])
    BY DEF IsLine
  <2> QED
    BY <2>1, <1>3
<1>5. m \in 1..n /\ m-1 \in 0..n
  BY <1>3, <1>4
<1>6. m-1 \notin Missing
  <2> HIDE DEF Missing
  <2> QED
    BY <1>2, <1>5
<1>7. PICK l : IsLine(S, m-1, part, l)
  BY <1>5, <1>6
<1> QED
  BY <1>3, <1>5, <1>7, LineExtends

\* The recursive function joins the parts one after the other.
LEMMA JoinedDef ==
  ASSUME NEW S, NEW n \in Nat, NEW part \in [1..n -> Seq(S)]
  PROVE  \E l : IsLine(S, n, part, l) /\ Joined(n, part) = l[n]
<1> DEFINE Body(l) == [k \in 0..n |-> IF k = 0 THEN << >> ELSE l[k-1] \o part[k]]
           L == CHOOSE l : l = Body(l)
           Bad == {m \in 0..n : L[m] \notin Seq(S)}
<1>1. PICK l : IsLine(S, n, part, l)
  BY LineExists
<1>2. l = Body(l)
  <2>1. l = [k \in 0..n |-> l[k]]
    BY <1>1 DEF IsLine
  <2>2. ASSUME NEW k \in 0..n PROVE l[k] = IF k = 0 THEN << >> ELSE l[k-1] \o part[k]
    <3>1. CASE k = 0
      BY <3>1, <1>1 DEF IsLine
    <3>2. CASE k # 0
      <4>1. k \in 1..n
        BY <3>2
      <4> QED
        BY <3>2, <4>1, <1>1 DEF IsLine
    <3> QED
      BY <3>1, <3>2
  <2> QED
    BY <2>1, <2>2, Zenon
<1>3. L = Body(L)
  <2> HIDE DEF Body
  <2> QED
    BY <1>2
<1>4. Joined(n, part) = L[n]
  BY DEF Joined
<1>5. /\ DOMAIN L = 0..n /\ L[0] = << >>
      /\ \A i \in 1..n : L[i] = L[i-1] \o part[i]
      /\ L = [i \in 0..n |-> L[i]]
  <2> HIDE DEF L
  <2>1. L = [k \in 0..n |-> IF k = 0 THEN << >> ELSE L[k-1] \o part[k]]
    BY <1>3
  <2>2. DOMAIN L = 0..n /\ L = [i \in 0..n |-> L[i]]
    BY <2>1, Zenon
  <2>3. \A k \in 0..n : L[k] = IF k = 0 THEN << >> ELSE L[k-1] \o part[k]
    BY <2>1, Zenon
  <2>4. 0 \in 0..n /\ \A i \in 1..n : i \in 0..n /\ i # 0
    OBVIOUS
  <2> QED
    BY <2>2, <2>3, <2>4
<1> HIDE DEF L
<1>6. Bad = {}
  <2>1. SUFFICES ASSUME Bad # {} PROVE FALSE
    OBVIOUS
  <2>2. PICK m \in Bad : \A y \in Bad : m <= y
    BY <2>1, LeastElement, Bad \in SUBSET Nat
  <2>3. m # 0
    BY <2>2, <1>5
  <2>4. m \in 1..n /\ m-1 \in 0..n
    BY <2>2, <2>3
  <2>5. L[m-1] \in Seq(S) /\ part[m] \in Seq(S)
    BY <2>2, <2>4
  <2>6. L[m] = L[m-1] \o part[m]
    BY <2>4, <1>5
  <2>7. L[m] \in Seq(S)
    BY <2>5, <2>6
  <2> QED
    BY <2>2, <2>7
<1>7. L \in [0..n -> Seq(S)]
  BY <1>5, <1>6
<1>8. IsLine(S, n, part, L)
  BY <1>5, <1>7 DEF IsLine
<1> QED
  BY <1>4, <1>8

\* What the parts consist of, the whole consists of.
LEMMA JoinedType ==
  ASSUME NEW S, NEW n \in Nat, NEW part \in [1..n -> Seq(S)]
  PROVE  Joined(n, part) \in Seq(S)
<1>1. PICK l : IsLine(S, n, part, l) /\ Joined(n, part) = l[n]
  BY JoinedDef
<1> QED
  BY <1>1 DEF IsLine

PartWeights(n, part, w) == [i \in 1..n |-> WeightOf(part[i], w)]

\* The whole weighs what its parts weigh.
LEMMA JoinedWeight ==
  ASSUME NEW S, NEW n, NEW part, NEW w,
         n \in Nat, part \in [1..n -> Seq(S)], w \in [S -> Int]
  PROVE  /\ PartWeights(n, part, w) \in [1..n -> Int]
         /\ WeightOf(Joined(n, part), w) = Total(n, PartWeights(n, part, w))
<1> DEFINE c == [i \in 1..n |-> WeightOf(part[i], w)]
           C == Statement(n, c)
<1>1. PICK l : IsLine(S, n, part, l) /\ Joined(n, part) = l[n]
  BY JoinedDef
<1>2. c \in [1..n -> Int]
  BY WeightInt
<1>3. \A i \in 1..n : c[i] = WeightOf(part[i], w)
  OBVIOUS
<1> HIDE DEF c
<1>4. IsStatement(n, c, C)
  BY <1>2, StatementDef
<1> HIDE DEF C
<1> DEFINE Bad == {m \in 0..n : WeightOf(l[m], w) # C[m]}
<1>5. Bad = {}
  <2>1. SUFFICES ASSUME Bad # {} PROVE FALSE
    OBVIOUS
  <2>2. PICK m \in Bad : \A y \in Bad : m <= y
    BY <2>1, LeastElement, Bad \in SUBSET Nat
  <2>3. m # 0
    BY <2>2, <1>1, <1>4, WeightEmpty DEF IsLine, IsStatement
  <2>4. m \in 1..n /\ m-1 \in 0..n
    BY <2>2, <2>3
  <2>5. WeightOf(l[m-1], w) = C[m-1]
    BY <2>2, <2>4
  <2>6. l[m] = l[m-1] \o part[m] /\ l[m-1] \in Seq(S) /\ part[m] \in Seq(S)
    BY <2>4, <1>1 DEF IsLine
  <2>7. WeightOf(l[m-1] \o part[m], w) = WeightOf(l[m-1], w) + WeightOf(part[m], w)
    BY <2>6, WeightConcat
  <2>9. WeightOf(l[m], w) = C[m-1] + c[m]
    BY <2>4, <2>5, <2>6, <2>7, <1>3
  <2>8. C[m] = C[m-1] + c[m]
    BY <2>4, <1>4 DEF IsStatement
  <2> QED
    BY <2>2, <2>8, <2>9
<1>6. WeightOf(l[n], w) = C[n]
  BY <1>5, n \in 0..n
<1>7. WeightOf(Joined(n, part), w) = Total(n, c)
  BY <1>1, <1>6 DEF Total, C
<1> QED
  BY <1>2, <1>7 DEF c, PartWeights

Has(list, x) == \E j \in 1..Len(list) : list[j] = x

\* What is in a part is in the whole.
LEMMA JoinedHas ==
  ASSUME NEW S, NEW n, NEW part, n \in Nat, part \in [1..n -> Seq(S)],
         NEW i \in 1..n, NEW k \in 1..Len(part[i])
  PROVE  Has(Joined(n, part), part[i][k])
<1>1. PICK l : IsLine(S, n, part, l) /\ Joined(n, part) = l[n]
  BY JoinedDef
<1> DEFINE In(m) == \E j \in 1..Len(l[m]) : l[m][j] = part[i][k]
           Bad == {m \in i..n : ~ In(m)}
<1>2. Bad = {}
  <2>1. SUFFICES ASSUME Bad # {} PROVE FALSE
    OBVIOUS
  <2>2. PICK m \in Bad : \A y \in Bad : m <= y
    BY <2>1, LeastElement, Bad \in SUBSET Nat
  <2>3. m \in 1..n /\ m-1 \in 0..n /\ m \in i..n
    BY <2>2
  <2>4. l[m] = l[m-1] \o part[m] /\ l[m-1] \in Seq(S) /\ part[m] \in Seq(S)
    BY <2>3, <1>1 DEF IsLine
  <2>5. CASE m = i
    <3>1. Len(l[m-1]) + k \in 1..Len(l[m]) /\ l[m][Len(l[m-1]) + k] = part[i][k]
      BY <2>4, <2>5
    <3>2. In(m)
      BY <3>1
    <3>3. ~ In(m)
      BY <2>2
    <3> QED
      BY <3>2, <3>3
  <2>6. CASE m # i
    <3>1. m-1 \in i..n
      BY <2>3, <2>6
    <3>2. In(m-1)
      <4>1. ~ (m <= m-1)
        BY <2>3
      <4>2. m-1 \notin Bad
        BY <2>2, <4>1
      <4> QED
        BY <3>1, <4>2
    <3>3. PICK j \in 1..Len(l[m-1]) : l[m-1][j] = part[i][k]
      BY <3>2
    <3>4. Len(l[m]) = Len(l[m-1]) + Len(part[m]) /\ Len(part[m]) \in Nat /\ Len(l[m-1]) \in Nat
      BY <2>4
    <3>5. \A s, t \in Seq(S) : \A x \in 1..Len(s) : (s \o t)[x] = s[x]
      BY ConcatProperties
    <3>6. l[m][j] = l[m-1][j]
      BY <2>4, <3>3, <3>5
    <3>7. j \in 1..Len(l[m])
      <4>1. PICK a \in Nat, b \in Nat : a = Len(l[m-1]) /\ b = Len(part[m])
        BY <3>4
      <4>2. Len(l[m]) = a + b /\ j \in 1..a
        BY <3>3, <3>4, <4>1
      <4>3. j \in 1..(a+b)
        BY <4>2
      <4> QED
        BY <4>2, <4>3
    <3> QED
      BY <2>2, <3>3, <3>6, <3>7
  <2> QED
    BY <2>5, <2>6
<1>3. In(n)
  BY <1>2, n \in i..n
<1> QED
  BY <1>1, <1>3 DEF Has

-----------------------------------------------------------------------------
(* Statements and what they weigh.                                         *)

\* A key names one row.
LEMMA Keys ==
  /\ \A i, j : Row(i) = Row(j) => i = j
  /\ \A i, j : Entity(i) = Entity(j) => i = j
  /\ \A i, j : Abono(i) = Abono(j) => i = j
  /\ \A i, j : Row(i) # Entity(j) /\ Row(i) # Abono(j) /\ Abono(i) # Entity(j)
BY DEF Row, Entity, Abono

\* The kinds of statements and what each kind carries.
LEMMA StatementParts ==
  ASSUME NEW s \in Statements
  PROVE  /\ s.do \in {"insert", "pay", "drop", "unpay", "commit", "save",
                      "update", "adjust", "write"}
         /\ s.do = "insert" => s.row \in Draft
         /\ s.do = "pay" => s.row \in Payment
         /\ s.do = "drop" => s.id \in Ids
         /\ s.do = "unpay" => s.id \in Payments
         /\ s.do = "save" => s.id \in Ids /\ s.row \in Record /\ s.stated \in SUBSET {"amount"}
         /\ s.do = "update" => s.id \in Ids /\ s.row \in Record
         /\ s.do = "adjust" => s.on \in Entities /\ s.by \in Int
         /\ s.do = "write" => s.on \in Entities /\ s.figure \in Figures /\ s.counted \in BOOLEAN
BY DEF Statements

\* What the constructors of LedgerRaces build are statements.
LEMMA StatementKinds ==
  /\ \A row \in Draft : Insert(row) \in Statements
  /\ \A row \in Payment : InsertPay(row) \in Statements
  /\ \A i \in Ids : Drop(i) \in Statements
  /\ \A k \in Payments : DropPay(k) \in Statements
  /\ Commit \in Statements
  /\ \A i \in Ids, row \in Record, stated \in SUBSET {"amount"} :
       Save(i, row, stated) \in Statements
  /\ \A e \in Entities, d \in Int : Adjust(e, d) \in Statements
  /\ \A e \in Entities, fig \in Figures, counted \in BOOLEAN :
       Write(e, fig, counted) \in Statements
BY DEF Statements, Insert, InsertPay, Drop, DropPay, Commit, Save, Adjust, Write

\* A row on file has the columns of a row before its group is drawn.
LEMMA RecordDraft == Record \subseteq Draft
<1>1. \A i \in 0..MaxRecords : i \in Nat
  BY Bounds
<1> QED
  BY <1>1 DEF Record, Draft

\* A row contributes an integer to a balance, and only to those it is linked to.
LEMMA DraftCollected ==
  ASSUME NEW r \in Draft, NEW e \in Entities
  PROVE  Collected(r, e) \in Int /\ (e \notin Linked(r) => Collected(r, e) = 0)
<1>1. r.amount \in Int
  BY Values DEF Draft
<1>2. Collected(r, e) \in Int
  BY <1>1 DEF Collected, Movement, Contribution
<1>3. e \notin Linked(r) => Collected(r, e) = 0
  BY DEF Collected, Movement, Linked
<1> QED
  BY <1>2, <1>3

\* A payment contributes an integer to a balance.
LEMMA PaidType ==
  ASSUME NEW k \in Payment, NEW e
  PROVE  Paid(k, e) \in Int
BY Values DEF Paid, Payment

\* What RaceTypes says of the rows, the balances and the bounds.
LEMMA RaceTypeParts ==
  ASSUME RaceTypes
  PROVE  /\ \A i \in Ids : record[i] \in Record /\ record[i] \in Draft
         /\ \A k \in Payments : payment[k] \in Payment
         /\ \A e \in Entities : balance[e] \in Int /\ base[e] \in Int
         /\ MaxRecords \in Nat /\ MaxPayments \in Nat
         /\ next \in Nat /\ next >= 1
BY RecordDraft, Bounds DEF RaceTypes, TypeOK

\* The figure of an entity that a request reads, and the balance in it.
LEMMA FigureType ==
  ASSUME RaceTypes, NEW p \in Requests, Imaged(p), NEW e \in Entities
  PROVE  OwnFigure(p, e) \in Figures /\ Own(p, e) \in Int
<1>1. balance[e] \in Int /\ (e \in Objectives => completed[e] \in BOOLEAN)
  BY DEF RaceTypes, TypeOK
<1>2. Committed(e) \in Figures
  BY <1>1 DEF Committed, Figure, Figures
<1>3. CASE Entity(e) \in DOMAIN work[p]
  <2>1. work[p][Entity(e)] \in Figures
    BY <1>3, Keys DEF Imaged
  <2> QED
    BY <1>1, <1>3, <2>1 DEF OwnFigure, Own, Figures
<1>4. CASE Entity(e) \notin DOMAIN work[p]
  BY <1>1, <1>2, <1>4 DEF OwnFigure, Own, Figures
<1> QED
  BY <1>3, <1>4

\* A statement weighs an integer.
LEMMA WeighType ==
  ASSUME RaceTypes, NEW p \in Requests, Imaged(p), NEW e \in Entities,
         NEW s \in Statements
  PROVE  Weigh(p, s, e) \in Int
<1>1. Own(p, e) \in Int
  BY FigureType
<1>2. CASE s.do = "insert"
  <2>1. s.row \in Draft
    BY <1>2, StatementParts, RecordDraft
  <2>3. Weigh(p, s, e) = - Collected(s.row, e)
    BY <1>2 DEF Weigh
  <2> QED
    BY <2>1, <2>3, DraftCollected
<1>3. CASE s.do = "pay"
  <2>1. s.row \in Payment
    BY <1>3, StatementParts, RecordDraft
  <2>3. Weigh(p, s, e) = - Paid(s.row, e)
    BY <1>3 DEF Weigh
  <2> QED
    BY <2>1, <2>3, PaidType
<1>4. CASE s.do = "drop"
  <2>1. s.id \in Ids
    BY <1>4, StatementParts, RecordDraft
  <2>3. Weigh(p, s, e) = Collected(record[s.id], e)
    BY <1>4 DEF Weigh
  <2> QED
    BY <2>1, <2>3, RaceTypeParts, DraftCollected
<1>5. CASE s.do = "unpay"
  <2>1. s.id \in Payments
    BY <1>5, StatementParts, RecordDraft
  <2>3. Weigh(p, s, e) = Paid(payment[s.id], e)
    BY <1>5 DEF Weigh
  <2> QED
    BY <2>1, <2>3, RaceTypeParts, PaidType
<1>6. CASE s.do \in {"save", "update"}
  <2>1. s.id \in Ids /\ s.row \in Draft
    BY <1>6, StatementParts, RecordDraft
  <2>3. Weigh(p, s, e) = Collected(record[s.id], e) - Collected(s.row, e)
    BY <1>6 DEF Weigh
  <2>2. Collected(record[s.id], e) \in Int /\ Collected(s.row, e) \in Int
    BY <2>1, RaceTypeParts, DraftCollected
  <2> QED
    BY <2>1, <2>2, <2>3
<1>7. CASE s.do = "adjust"
  <2>1. s.by \in Int
    BY <1>7, StatementParts, RecordDraft
  <2>3. Weigh(p, s, e) = IF s.on = e THEN s.by ELSE 0
    BY <1>7 DEF Weigh
  <2> QED
    BY <2>1, <2>3
<1>8. CASE s.do = "write"
  <2>1. s.figure.balance \in Int
    BY <1>8, StatementParts, RecordDraft DEF Figures
  <2>3. Weigh(p, s, e) =
             IF s.on = e /\ ~ s.figure.byHand THEN s.figure.balance - Own(p, e) ELSE 0
    BY <1>8 DEF Weigh
  <2> QED
    BY <1>1, <2>1, <2>3
<1>9. CASE s.do = "commit"
  BY <1>9 DEF Weigh
<1> QED
  BY <1>2, <1>3, <1>4, <1>5, <1>6, <1>7, <1>8, <1>9, StatementParts

\* The weights as a function of the statement.
Weights(p, e) == [s \in Statements |-> Weigh(p, s, e)]

\* What is due is the weight of the statements left.
LEMMA DueWeight ==
  ASSUME NEW p, NEW e, todo[p] \in Seq(Statements)
  PROVE  Due(p, e) = WeightOf(todo[p], Weights(p, e))
<1>1. \A k \in 1..Len(todo[p]) : todo[p][k] \in Statements
  OBVIOUS
<1>2. [k \in 1..Len(todo[p]) |-> Weights(p, e)[todo[p][k]]]
        = [k \in 1..Len(todo[p]) |-> Weigh(p, todo[p][k], e)]
  BY <1>1 DEF Weights
<1> QED
  BY <1>2 DEF Due, WeightOf

\* The weights of the statements are a function to the integers.
LEMMA WeightsType ==
  ASSUME RaceTypes, NEW p \in Requests, Imaged(p), NEW e \in Entities
  PROVE  Weights(p, e) \in [Statements -> Int]
BY WeighType DEF Weights

\* How often a row is pending, as a weight.
PendingOn(r) == [s \in Statements |-> IF r \in Pending(s) THEN 1 ELSE 0]

\* How often a row is pending is a weight of the statements left.
LEMMA TimesWeight ==
  ASSUME NEW p, NEW r, todo[p] \in Seq(Statements)
  PROVE  Times(p, r) = WeightOf(todo[p], PendingOn(r))
<1>1. \A k \in 1..Len(todo[p]) : todo[p][k] \in Statements
  OBVIOUS
<1>2. [k \in 1..Len(todo[p]) |-> PendingOn(r)[todo[p][k]]]
        = [k \in 1..Len(todo[p]) |-> IF r \in Pending(todo[p][k]) THEN 1 ELSE 0]
  BY <1>1 DEF PendingOn
<1> QED
  BY <1>2 DEF Times, WeightOf

\* A statement has a row pending once or not at all.
LEMMA PendingType == \A r : PendingOn(r) \in [Statements -> Int] /\ PendingOn(r) \in [Statements -> Nat]
BY DEF PendingOn

-----------------------------------------------------------------------------
(* What a commit would keep.                                               *)

KeptRows(p, e)  == [i \in Ids |-> Moved(p, i, e)]
KeptPays(p, e)  == [k \in Payments |-> Unpaid(p, k, e)]
KeptNew(p, e)   == [k \in 1..Len(new[p]) |-> Collected(new[p][k], e)]
KeptPaid(p, e)  == IF newPay[p] = << >> THEN 0 ELSE Paid(newPay[p][1], e)

\* The four parts of what a request would keep are integers.
LEMMA KeptParts ==
  ASSUME RaceTypes, NEW p \in Requests, Imaged(p), NEW e \in Entities
  PROVE  /\ KeptRows(p, e) \in [Ids -> Int]
         /\ KeptPays(p, e) \in [1..MaxPayments -> Int]
         /\ KeptNew(p, e) \in [1..Len(new[p]) -> Int]
         /\ Len(new[p]) \in Nat
         /\ KeptPaid(p, e) \in Int
         /\ SumOver(Ids, KeptRows(p, e)) \in Int
         /\ Total(MaxPayments, KeptPays(p, e)) \in Int
         /\ Total(Len(new[p]), KeptNew(p, e)) \in Int
         /\ Kept(p, e) \in Int
         /\ Kept(p, e) = SumOver(Ids, KeptRows(p, e)) + Total(MaxPayments, KeptPays(p, e))
                           + Total(Len(new[p]), KeptNew(p, e)) + KeptPaid(p, e)
<1>1. KeptRows(p, e) \in [Ids -> Int]
  <2> SUFFICES ASSUME NEW i \in Ids PROVE Moved(p, i, e) \in Int
    BY DEF KeptRows
  <2>1. Collected(record[i], e) \in Int
    BY RaceTypeParts, DraftCollected
  <2>2. CASE Row(i) \in DOMAIN work[p]
    <3>1. work[p][Row(i)] \in Record
      BY <2>2, Keys DEF Imaged
    <3>2. Collected(work[p][Row(i)], e) \in Int
      BY <3>1, RecordDraft, DraftCollected
    <3> QED
      BY <2>1, <2>2, <3>2 DEF Moved
  <2>3. CASE Row(i) \notin DOMAIN work[p]
    BY <2>3 DEF Moved
  <2> QED
    BY <2>2, <2>3
<1>2. KeptPays(p, e) \in [1..MaxPayments -> Int]
  BY RaceTypeParts, PaidType DEF KeptPays, Unpaid, Payments
<1>3. Len(new[p]) \in Nat /\ KeptNew(p, e) \in [1..Len(new[p]) -> Int]
  <2>1. new[p] \in Seq(Draft)
    BY DEF RaceTypes
  <2> QED
    BY <2>1, DraftCollected DEF KeptNew
<1>4. KeptPaid(p, e) \in Int
  <2>1. newPay[p] \in Seq(Payment)
    BY DEF RaceTypes
  <2>2. newPay[p] # << >> => newPay[p][1] \in Payment
    BY <2>1
  <2> QED
    BY <2>2, PaidType DEF KeptPaid
<1>5. Kept(p, e) = SumOver(Ids, KeptRows(p, e)) + Total(MaxPayments, KeptPays(p, e))
                     + Total(Len(new[p]), KeptNew(p, e)) + KeptPaid(p, e)
  BY DEF Kept, KeptRows, KeptPays, KeptNew, KeptPaid
<1>6. SumOver(Ids, KeptRows(p, e)) \in Int
  BY <1>1, SumOverInt
<1>7. Total(MaxPayments, KeptPays(p, e)) \in Int
  BY <1>2, TotalInt, Bounds
<1>8. Total(Len(new[p]), KeptNew(p, e)) \in Int
  BY <1>3, TotalInt
<1> QED
  BY <1>1, <1>2, <1>3, <1>4, <1>5, <1>6, <1>7, <1>8

\* A request that has written nothing keeps nothing.
LEMMA KeptNothing ==
  ASSUME RaceTypes, NEW p \in Requests, NEW e \in Entities,
         \A i \in Ids : Row(i) \notin DOMAIN work[p],
         \A k \in Payments : Abono(k) \notin DOMAIN work[p],
         new[p] = << >>, newPay[p] = << >>
  PROVE  Kept(p, e) = 0
<1> DEFINE c == [i \in Ids |-> IF i \in Ids THEN KeptRows(p, e)[i] ELSE 0]
<1>1. c \in [1..MaxRecords -> Int] /\ \A i \in 1..MaxRecords : c[i] = 0
  BY DEF KeptRows, Moved, Ids
<1>2. KeptPays(p, e) \in [1..MaxPayments -> Int]
      /\ \A k \in 1..MaxPayments : KeptPays(p, e)[k] = 0
  BY DEF KeptPays, Unpaid, Payments
<1>3. Len(new[p]) = 0 /\ KeptNew(p, e) \in [1..0 -> Int] /\ \A k \in 1..0 : KeptNew(p, e)[k] = 0
  <2>1. Len(new[p]) = 0
    OBVIOUS
  <2> QED
    BY <2>1 DEF KeptNew
<1>4. SumOver(Ids, KeptRows(p, e)) = Total(MaxRecords, c)
  BY DEF SumOver
<1> HIDE DEF c
<1>5. Total(MaxRecords, c) = 0 /\ Total(MaxPayments, KeptPays(p, e)) = 0
      /\ Total(0, KeptNew(p, e)) = 0
  BY <1>1, <1>2, <1>3, TotalZero, Bounds
<1>6. Kept(p, e) = SumOver(Ids, KeptRows(p, e)) + Total(MaxPayments, KeptPays(p, e))
                     + Total(Len(new[p]), KeptNew(p, e)) + KeptPaid(p, e)
  BY DEF Kept, KeptRows, KeptPays, KeptNew, KeptPaid
<1>7. KeptPaid(p, e) = 0
  BY DEF KeptPaid
<1> QED
  BY <1>3, <1>4, <1>5, <1>6, <1>7

-----------------------------------------------------------------------------
(* How what is due and what is kept move with a step.                      *)

\* After a step, what is due is the old weight of the statements then left, where
\* the step changes the weight of none of them.
LEMMA DueMoves ==
  ASSUME NEW p, NEW e, todo'[p] \in Seq(Statements),
         \A s \in Statements :
           (\E k \in 1..Len(todo'[p]) : s = todo'[p][k]) => Weigh(p, s, e)' = Weigh(p, s, e)
  PROVE  Due(p, e)' = WeightOf(todo'[p], Weights(p, e))
<1>1. \A k \in 1..Len(todo'[p]) : todo'[p][k] \in Statements
  OBVIOUS
<1>2. PICK list \in Seq(Statements) : list = todo'[p]
  OBVIOUS
<1>3. ASSUME NEW k \in 1..Len(list)
      PROVE  Weigh(p, list[k], e)' = Weights(p, e)[list[k]]
  BY <1>1, <1>2 DEF Weights
<1>4. Due(p, e)' = Total(Len(list), [k \in 1..Len(list) |-> Weigh(p, list[k], e)'])
  BY <1>2 DEF Due
<1>5. [k \in 1..Len(list) |-> Weigh(p, list[k], e)']
        = [k \in 1..Len(list) |-> Weights(p, e)[list[k]]]
  BY <1>3
<1> QED
  BY <1>2, <1>4, <1>5 DEF WeightOf

\* The same of how often a row is pending.
LEMMA TimesNow ==
  ASSUME NEW p, NEW r, todo'[p] \in Seq(Statements)
  PROVE  Times(p, r)' = WeightOf(todo'[p], PendingOn(r))
<1>1. \A k \in 1..Len(todo'[p]) : todo'[p][k] \in Statements
  OBVIOUS
<1>2. PICK list \in Seq(Statements) : list = todo'[p]
  OBVIOUS
<1>3. ASSUME NEW k \in 1..Len(list)
      PROVE  (IF r \in Pending(list[k]) THEN 1 ELSE 0) = PendingOn(r)[list[k]]
  BY <1>1, <1>2 DEF PendingOn
<1>4. Times(p, r)'
        = Total(Len(list), [k \in 1..Len(list) |-> IF r \in Pending(list[k]) THEN 1 ELSE 0])
  BY <1>2 DEF Times
<1>5. [k \in 1..Len(list) |-> IF r \in Pending(list[k]) THEN 1 ELSE 0]
        = [k \in 1..Len(list) |-> PendingOn(r)[list[k]]]
  BY <1>3
<1> QED
  BY <1>2, <1>4, <1>5 DEF WeightOf

\* A statement weighs the same where what it is about has not changed.
LEMMA WeighStays ==
  ASSUME NEW p, NEW s, NEW e, UNCHANGED vars,
         s.do = "write" => work'[p] = work[p]
  PROVE  Weigh(p, s, e)' = Weigh(p, s, e)
<1>1. /\ record' = record /\ payment' = payment /\ balance' = balance
      /\ completed' = completed
  BY DEF vars, goalVars
<1>2. CASE s.do = "write"
  <2>1. OwnFigure(p, e)' = OwnFigure(p, e)
    BY <1>1, <1>2 DEF OwnFigure, Committed
  <2>2. Own(p, e)' = Own(p, e)
    BY <1>1, <2>1 DEF Own
  <2> QED
    BY <1>2, <2>2 DEF Weigh
<1>3. CASE s.do # "write"
  BY <1>1, <1>3 DEF Weigh
<1> QED
  BY <1>2, <1>3

\* A request that has written nothing more keeps what it kept.
LEMMA KeptStays ==
  ASSUME NEW p, NEW e, UNCHANGED vars,
         \A i \in Ids : /\ Row(i) \in DOMAIN work'[p] <=> Row(i) \in DOMAIN work[p]
                        /\ Row(i) \in DOMAIN work[p] => work'[p][Row(i)] = work[p][Row(i)],
         \A k \in Payments : Abono(k) \in DOMAIN work'[p] <=> Abono(k) \in DOMAIN work[p],
         new'[p] = new[p], newPay'[p] = newPay[p]
  PROVE  Kept(p, e)' = Kept(p, e)
<1>1. record' = record /\ payment' = payment
  BY DEF vars
<1>2. \A i \in Ids : Moved(p, i, e)' = Moved(p, i, e)
  BY <1>1 DEF Moved
<1>3. \A k \in Payments : Unpaid(p, k, e)' = Unpaid(p, k, e)
  BY <1>1 DEF Unpaid
<1>4. [i \in Ids |-> Moved(p, i, e)'] = [i \in Ids |-> Moved(p, i, e)]
  BY <1>2
<1>5. [k \in Payments |-> Unpaid(p, k, e)'] = [k \in Payments |-> Unpaid(p, k, e)]
  BY <1>3
<1>6. Kept(p, e)' =
        SumOver(Ids, [i \in Ids |-> Moved(p, i, e)'])
          + Total(MaxPayments, [k \in Payments |-> Unpaid(p, k, e)'])
          + Total(Len(new'[p]), [k \in 1..Len(new'[p]) |-> Collected(new'[p][k], e)])
          + (IF newPay'[p] = << >> THEN 0 ELSE Paid(newPay'[p][1], e))
  BY DEF Kept
<1> QED
  BY <1>4, <1>5, <1>6 DEF Kept

\* A row written for the first time adds what its contribution gains.
LEMMA KeptRowLocked ==
  ASSUME RaceTypes, NEW p \in Requests, Imaged(p), NEW e \in Entities, UNCHANGED vars,
         NEW i \in Ids, Row(i) \notin DOMAIN work[p],
         DOMAIN work'[p] = DOMAIN work[p] \cup {Row(i)},
         \A key \in DOMAIN work[p] : work'[p][key] = work[p][key],
         work'[p][Row(i)] \in Record,
         new'[p] = new[p], newPay'[p] = newPay[p]
  PROVE  Kept(p, e)' = Kept(p, e) + (Collected(work'[p][Row(i)], e) - Collected(record[i], e))
<1> DEFINE c == KeptRows(p, e)
           d == [j \in Ids |-> Moved(p, j, e)']
           diff == [j \in Ids |-> d[j] - c[j]]
           x == Collected(work'[p][Row(i)], e) - Collected(record[i], e)
<1>1. record' = record /\ payment' = payment
  BY DEF vars
<1>2. /\ Collected(work'[p][Row(i)], e) \in Int /\ Collected(record[i], e) \in Int
      /\ x \in Int
  BY RaceTypeParts, DraftCollected, RecordDraft
<1>3. Moved(p, i, e)' = x /\ Moved(p, i, e) = 0
  BY <1>1 DEF Moved
<1>4. \A j \in Ids \ {i} : Moved(p, j, e)' = Moved(p, j, e)
  BY <1>1, Keys DEF Moved
<1>5. c \in [Ids -> Int]
  BY KeptParts
<1>6. c = [j \in Ids |-> Moved(p, j, e)]
  BY DEF KeptRows
<1>7. d \in [Ids -> Int] /\ d[i] = x /\ c[i] = 0 /\ \A j \in Ids \ {i} : d[j] = c[j]
  <2>1. \A j \in Ids : d[j] \in Int
    <3> TAKE j \in Ids
    <3>1. CASE j = i
      BY <1>2, <1>3, <3>1
    <3>2. CASE j # i
      BY <1>4, <1>5, <1>6, <3>2
    <3> QED
      BY <3>1, <3>2
  <2> QED
    BY <2>1, <1>3, <1>4, <1>6
<1>8. \A k \in Payments : Unpaid(p, k, e)' = Unpaid(p, k, e)
  BY <1>1, Keys DEF Unpaid
<1>9. [k \in Payments |-> Unpaid(p, k, e)'] = KeptPays(p, e)
  BY <1>8 DEF KeptPays
<1>10. Kept(p, e)' = SumOver(Ids, d) + Total(MaxPayments, KeptPays(p, e))
                       + Total(Len(new[p]), KeptNew(p, e)) + KeptPaid(p, e)
  <2>1. Kept(p, e)' =
        SumOver(Ids, d)
          + Total(MaxPayments, [k \in Payments |-> Unpaid(p, k, e)'])
          + Total(Len(new'[p]), [k \in 1..Len(new'[p]) |-> Collected(new'[p][k], e)])
          + (IF newPay'[p] = << >> THEN 0 ELSE Paid(newPay'[p][1], e))
    BY DEF Kept
  <2> HIDE DEF d
  <2> QED
    BY <1>9, <2>1 DEF KeptNew, KeptPaid
<1> HIDE DEF c, d
<1>11. diff \in [Ids -> Int] /\ diff[i] = x
  BY <1>2, <1>5, <1>7
<1>12. SumOver(Ids, d) = SumOver(Ids, c) + SumOver({i}, diff)
  BY <1>5, <1>7, SumOverChange
<1> HIDE DEF diff
<1>13. SumOver({i}, diff) = x
  BY <1>11, SumOverSingle
<1>14. /\ SumOver(Ids, c) \in Int /\ Total(MaxPayments, KeptPays(p, e)) \in Int
       /\ Total(Len(new[p]), KeptNew(p, e)) \in Int /\ KeptPaid(p, e) \in Int
       /\ Kept(p, e) = SumOver(Ids, c) + Total(MaxPayments, KeptPays(p, e))
                           + Total(Len(new[p]), KeptNew(p, e)) + KeptPaid(p, e)
  BY KeptParts DEF c
<1> HIDE DEF x
<1>15. Kept(p, e)' = Kept(p, e) + x
  BY <1>2, <1>10, <1>12, <1>13, <1>14
<1> QED
  BY <1>15 DEF x

\* A payment deleted takes its amount off.
LEMMA KeptPayLocked ==
  ASSUME RaceTypes, NEW p \in Requests, Imaged(p), NEW e \in Entities, UNCHANGED vars,
         NEW k \in Payments, Abono(k) \notin DOMAIN work[p],
         DOMAIN work'[p] = DOMAIN work[p] \cup {Abono(k)},
         \A key \in DOMAIN work[p] : work'[p][key] = work[p][key],
         new'[p] = new[p], newPay'[p] = newPay[p]
  PROVE  Kept(p, e)' = Kept(p, e) - Paid(payment[k], e)
<1> DEFINE c == KeptPays(p, e)
           d == [l \in Payments |-> Unpaid(p, l, e)']
           diff == [l \in Payments |-> d[l] - c[l]]
           x == - Paid(payment[k], e)
<1>1. record' = record /\ payment' = payment
  BY DEF vars
<1>2. x \in Int /\ Paid(payment[k], e) \in Int
  BY RaceTypeParts, PaidType
<1>3. Unpaid(p, k, e)' = x /\ Unpaid(p, k, e) = 0
  BY <1>1 DEF Unpaid
<1>4. \A l \in Payments \ {k} : Unpaid(p, l, e)' = Unpaid(p, l, e)
  BY <1>1, Keys DEF Unpaid
<1>5. c \in [1..MaxPayments -> Int] /\ Payments = 1..MaxPayments /\ MaxPayments \in Nat
  BY KeptParts, Bounds DEF Payments
<1>6. c = [l \in Payments |-> Unpaid(p, l, e)]
  BY DEF KeptPays
<1>7. d \in [1..MaxPayments -> Int] /\ d[k] = x /\ c[k] = 0
      /\ \A l \in Payments \ {k} : d[l] = c[l]
  <2>1. \A l \in Payments : d[l] \in Int
    <3> TAKE l \in Payments
    <3>1. CASE l = k
      BY <1>2, <1>3, <3>1
    <3>2. CASE l # k
      BY <1>4, <1>5, <1>6, <3>2
    <3> QED
      BY <3>1, <3>2
  <2> QED
    BY <2>1, <1>3, <1>4, <1>5, <1>6
<1>8. \A i \in Ids : Moved(p, i, e)' = Moved(p, i, e)
  BY <1>1, Keys DEF Moved
<1>9. [i \in Ids |-> Moved(p, i, e)'] = KeptRows(p, e)
  BY <1>8 DEF KeptRows
<1>10. Kept(p, e)' = SumOver(Ids, KeptRows(p, e)) + Total(MaxPayments, d)
                       + Total(Len(new[p]), KeptNew(p, e)) + KeptPaid(p, e)
  <2>1. Kept(p, e)' =
        SumOver(Ids, [i \in Ids |-> Moved(p, i, e)'])
          + Total(MaxPayments, d)
          + Total(Len(new'[p]), [l \in 1..Len(new'[p]) |-> Collected(new'[p][l], e)])
          + (IF newPay'[p] = << >> THEN 0 ELSE Paid(newPay'[p][1], e))
    BY DEF Kept
  <2> HIDE DEF d
  <2> QED
    BY <1>9, <2>1 DEF KeptNew, KeptPaid
<1> HIDE DEF c, d
<1>11. diff \in [1..MaxPayments -> Int] /\ diff[k] = x
       /\ (\A l \in 1..MaxPayments \ {k} : diff[l] = 0)
       /\ \A l \in 1..MaxPayments : d[l] = c[l] + diff[l]
  BY <1>2, <1>5, <1>7
<1> HIDE DEF diff
<1>12. Total(MaxPayments, d) = Total(MaxPayments, c) + Total(MaxPayments, diff)
  BY <1>5, <1>7, <1>11, TotalSum, ZenonT(60)
<1>13. Total(MaxPayments, diff) = x
  BY <1>5, <1>11, TotalSingle
<1>14. /\ SumOver(Ids, KeptRows(p, e)) \in Int /\ Total(MaxPayments, c) \in Int
       /\ Total(Len(new[p]), KeptNew(p, e)) \in Int /\ KeptPaid(p, e) \in Int
       /\ Kept(p, e) = SumOver(Ids, KeptRows(p, e)) + Total(MaxPayments, c)
                           + Total(Len(new[p]), KeptNew(p, e)) + KeptPaid(p, e)
  BY KeptParts DEF c
<1>15. Kept(p, e)' = Kept(p, e) + x
  <2> HIDE DEF x
  <2> QED
    BY <1>2, <1>10, <1>12, <1>13, <1>14
<1>16. Kept(p, e) \in Int
  BY KeptParts
<1> QED
  BY <1>2, <1>15, <1>16

\* A row inserted adds its contribution.
LEMMA KeptInserted ==
  ASSUME RaceTypes, NEW p \in Requests, Imaged(p), NEW e \in Entities, UNCHANGED vars,
         NEW row \in Draft, work'[p] = work[p], new'[p] = Append(new[p], row),
         newPay'[p] = newPay[p]
  PROVE  Kept(p, e)' = Kept(p, e) + Collected(row, e)
<1> DEFINE n == Len(new[p])
           c == KeptNew(p, e)
           one == [k \in 1..1 |-> Collected(row, e)]
           d == [k \in 1..(n+1) |-> Collected(new'[p][k], e)]
<1>1. record' = record /\ payment' = payment
  BY DEF vars
<1>2. new[p] \in Seq(Draft) /\ n \in Nat
  BY DEF RaceTypes
<1>3. Len(new'[p]) = n + 1 /\ new'[p][n+1] = row /\ \A k \in 1..n : new'[p][k] = new[p][k]
  BY <1>2
<1>4. Collected(row, e) \in Int /\ \A k \in 1..n : Collected(new[p][k], e) \in Int
  BY <1>2, DraftCollected
<1>5. c \in [1..n -> Int] /\ one \in [1..1 -> Int] /\ one[1] = Collected(row, e)
  BY <1>4 DEF KeptNew
<1>6. /\ d \in [1..(n+1) -> Int]
      /\ \A k \in 1..n : d[k] = c[k]
      /\ \A k \in 1..1 : d[n+k] = one[k]
  <2>1. ASSUME NEW k \in 1..n PROVE d[k] = c[k] /\ d[k] \in Int
    BY <1>2, <1>3, <1>4 DEF KeptNew
  <2>2. d[n+1] = Collected(row, e)
    BY <1>2, <1>3
  <2>3. \A k \in 1..(n+1) : k \in 1..n \/ k = n+1
    BY <1>2
  <2>4. \A k \in 1..(n+1) : d[k] \in Int
    <3> HIDE DEF d
    <3> QED
      BY <1>4, <2>1, <2>2, <2>3
  <2>5. \A k \in 1..1 : k = 1
    OBVIOUS
  <2>6. d \in [1..(n+1) -> Int]
    BY <2>4
  <2>7. \A k \in 1..1 : d[n+k] = one[k]
    <3> HIDE DEF d
    <3> QED
      BY <2>2, <2>5
  <2> QED
    BY <2>1, <2>6, <2>7
<1>7. /\ \A i \in Ids : Moved(p, i, e)' = Moved(p, i, e)
      /\ \A k \in Payments : Unpaid(p, k, e)' = Unpaid(p, k, e)
  BY <1>1 DEF Moved, Unpaid
<1>8. /\ [i \in Ids |-> Moved(p, i, e)'] = KeptRows(p, e)
      /\ [k \in Payments |-> Unpaid(p, k, e)'] = KeptPays(p, e)
  BY <1>7 DEF KeptRows, KeptPays
<1>9. Kept(p, e)' = SumOver(Ids, KeptRows(p, e)) + Total(MaxPayments, KeptPays(p, e))
                      + Total(n + 1, d) + KeptPaid(p, e)
  <2>1. Kept(p, e)' =
        SumOver(Ids, [i \in Ids |-> Moved(p, i, e)'])
          + Total(MaxPayments, [k \in Payments |-> Unpaid(p, k, e)'])
          + Total(Len(new'[p]), [k \in 1..Len(new'[p]) |-> Collected(new'[p][k], e)])
          + (IF newPay'[p] = << >> THEN 0 ELSE Paid(newPay'[p][1], e))
    BY DEF Kept
  <2>2. [k \in 1..Len(new'[p]) |-> Collected(new'[p][k], e)] = d
    BY <1>3
  <2> HIDE DEF d
  <2> QED
    BY <1>3, <1>8, <2>1, <2>2 DEF KeptPaid
<1> HIDE DEF c, d, one
<1>10. Total(n + 1, d) = Total(n, c) + Total(1, one)
  BY <1>2, <1>5, <1>6, TotalConcat, ZenonT(120)
<1>11. Total(1, one) = Collected(row, e)
  BY <1>5, TotalOne
<1>12. /\ SumOver(Ids, KeptRows(p, e)) \in Int /\ Total(MaxPayments, KeptPays(p, e)) \in Int
       /\ Total(n, c) \in Int /\ KeptPaid(p, e) \in Int
       /\ Kept(p, e) = SumOver(Ids, KeptRows(p, e)) + Total(MaxPayments, KeptPays(p, e))
                           + Total(n, c) + KeptPaid(p, e)
  BY KeptParts DEF c
<1> QED
  BY <1>4, <1>9, <1>10, <1>11, <1>12

\* A payment registered adds its amount.
LEMMA KeptPaidIn ==
  ASSUME RaceTypes, NEW p \in Requests, Imaged(p), NEW e \in Entities, UNCHANGED vars,
         NEW row \in Payment, work'[p] = work[p], new'[p] = new[p],
         newPay[p] = << >>, newPay'[p] = <<row>>
  PROVE  Kept(p, e)' = Kept(p, e) + Paid(row, e)
<1>1. record' = record /\ payment' = payment
  BY DEF vars
<1>2. /\ \A i \in Ids : Moved(p, i, e)' = Moved(p, i, e)
      /\ \A k \in Payments : Unpaid(p, k, e)' = Unpaid(p, k, e)
  BY <1>1 DEF Moved, Unpaid
<1>3. /\ [i \in Ids |-> Moved(p, i, e)'] = KeptRows(p, e)
      /\ [k \in Payments |-> Unpaid(p, k, e)'] = KeptPays(p, e)
  BY <1>2 DEF KeptRows, KeptPays
<1>4. Kept(p, e)' = SumOver(Ids, KeptRows(p, e)) + Total(MaxPayments, KeptPays(p, e))
                      + Total(Len(new[p]), KeptNew(p, e)) + Paid(row, e)
  <2>1. Kept(p, e)' =
        SumOver(Ids, [i \in Ids |-> Moved(p, i, e)'])
          + Total(MaxPayments, [k \in Payments |-> Unpaid(p, k, e)'])
          + Total(Len(new'[p]), [k \in 1..Len(new'[p]) |-> Collected(new'[p][k], e)])
          + (IF newPay'[p] = << >> THEN 0 ELSE Paid(newPay'[p][1], e))
    BY DEF Kept
  <2>2. newPay'[p] # << >> /\ newPay'[p][1] = row
    OBVIOUS
  <2> QED
    BY <1>3, <2>1, <2>2 DEF KeptNew
<1>5. KeptPaid(p, e) = 0
  BY DEF KeptPaid
<1>6. Paid(row, e) \in Int
  BY PaidType
<1> QED
  BY <1>4, <1>5, <1>6, KeptParts

-----------------------------------------------------------------------------
(* What a step leaves alone.                                               *)

\* A statement stays fit for its request when more entities are raced.
LEMMA FitStays ==
  ASSUME NEW p, NEW s, Fit(p, s), record' = record, touch'[p] = touch[p],
         raced \subseteq raced'
  PROVE  Fit(p, s)'
<1>1. \A r : Shaped(r) => Shaped(r)'
  BY DEF Shaped
<1>2. /\ s \in Statements
      /\ Pending(s) \subseteq touch'[p].rows
      /\ ChangesOf(s) \subseteq touch'[p].changes
      /\ s.do = "insert" => s.row.state = "live" /\ Shaped(s.row)'
      /\ s.do = "pay" => s.row.state = "live"
  BY <1>1 DEF Fit
<1>3. s.do \in {"save", "update"} =>
        /\ s.row.state = "live" /\ s.row.group = record'[s.id].group
        /\ Linked(s.row) \subseteq touch'[p].links
        /\ Shaped(s.row)'
  BY <1>1 DEF Fit
<1>4. s.do = "update" =>
        /\ \/ touch'[p].links \subseteq raced'
           \/ \A c \in DOMAIN s.row \ s.columns : record'[s.id][c] = s.row[c]
        /\ "state" \in s.columns /\ s.row.type # "expense" => "type" \in s.columns
  BY DEF Fit
<1> QED
  BY <1>2, <1>3, <1>4 DEF Fit

\* Everything the invariant says of a request survives a step that changes neither
\* the database nor what the request has in hand.
LEMMA OthersKeep ==
  ASSUME NEW q \in Requests, RaceTypes, Sound(q), UNCHANGED vars,
         todo'[q] = todo[q], work'[q] = work[q], new'[q] = new[q],
         newPay'[q] = newPay[q], touch'[q] = touch[q], raced \subseteq raced'
  PROVE  Sound(q)'
<1>1. /\ record' = record /\ payment' = payment /\ balance' = balance
      /\ completed' = completed /\ status' = status /\ next' = next
  BY DEF vars, goalVars
<1>2. todo[q] \in Seq(Statements)
  BY DEF RaceTypes
<1>3. Balanced(q)'
  <2> SUFFICES ASSUME NEW e \in Entities \ raced', status[e] = "live"
               PROVE  Own(q, e)' + Due(q, e)' = balance[e] + Kept(q, e)'
    BY <1>1 DEF Balanced
  <2>1. \A s \in Statements : Weigh(q, s, e)' = Weigh(q, s, e)
    BY WeighStays
  <2>2. Due(q, e)' = Due(q, e)
    BY <1>2, <2>1, DueMoves, DueWeight
  <2>3. Kept(q, e)' = Kept(q, e)
    BY KeptStays
  <2>4. OwnFigure(q, e)' = OwnFigure(q, e)
    BY <1>1 DEF OwnFigure, Committed
  <2>5. Own(q, e)' = Own(q, e)
    BY <1>1, <2>4 DEF Own
  <2>6. Own(q, e) + Due(q, e) = balance[e] + Kept(q, e)
    BY DEF Sound, Balanced
  <2> QED
    BY <2>2, <2>3, <2>5, <2>6
<1>4. Once(q)'
  <2>1. \A r : Times(q, r)' = Times(q, r)
    BY <1>2, TimesNow, TimesWeight
  <2> QED
    BY <2>1 DEF Sound, Once
<1>5. Ordered(q)'
  <2>1. \A k \in 1..Len(todo[q]) : Fit(q, todo[q][k])
    BY DEF Sound, Ordered
  <2>2. PICK list \in Seq(Statements) : list = todo[q]
    BY <1>2
  <2>3. ASSUME NEW k \in 1..Len(list) PROVE Fit(q, list[k])'
    <3>1. Fit(q, list[k])
      BY <2>1, <2>2
    <3> QED
      BY <1>1, <3>1, FitStays
  <2>4. \A k \in 1..Len(list) :
          LET s == list[k]
          IN  /\ s.do = "commit" <=> k = Len(list)
              /\ s.do = "write" => k = 1 \/ (k = 2 /\ list[1].do = "pay")
              /\ s.do = "pay" => k = 1 /\ newPay'[q] = << >>
              /\ s.do = "write" /\ s.figure.byHand =>
                   k = 1 /\ Len(list) = 2 /\ work'[q] = NoWork
                     /\ new'[q] = << >> /\ newPay'[q] = << >>
    BY <2>2 DEF Sound, Ordered
  <2>5. todo'[q] = list
    BY <2>2
  <2> QED
    BY <2>3, <2>4, <2>5 DEF Ordered
<1>6. AtRest(q)'
  BY DEF Sound, AtRest
<1>7. Imaged(q)'
  <2>1. \A r : Shaped(r) => Shaped(r)'
    BY DEF Shaped
  <2>2. PICK w : w = work[q]
    OBVIOUS
  <2>3. w = work'[q]
    BY <2>2
  <2>4. ASSUME NEW key \in DOMAIN w
      PROVE
        \/ \E i \in Ids :
             LET r == w[Row(i)]
             IN  /\ key = Row(i) /\ key \in touch'[q].rows
                 /\ r \in Record /\ r.state \in {"live", "deleted"}
                 /\ r.group = record'[i].group
                 /\ Linked(r) \subseteq touch'[q].links \cup raced'
                 /\ Shaped(r)'
        \/ \E k \in Payments :
             key = Abono(k) /\ key \in touch'[q].rows /\ w[key] = NoPayment("deleted")
        \/ \E e \in touch'[q].changes :
             /\ key = Entity(e) /\ w[key] \in Figures
             /\ w[key].byHand =>
                  Len(todo'[q]) = 1 /\ DOMAIN w = {key}
                    /\ new'[q] = << >> /\ newPay'[q] = << >>
    <3>1. CASE \E i \in Ids :
             LET r == w[Row(i)]
             IN  /\ key = Row(i) /\ key \in touch[q].rows
                 /\ r \in Record /\ r.state \in {"live", "deleted"}
                 /\ r.group = record[i].group
                 /\ Linked(r) \subseteq touch[q].links \cup raced
                 /\ Shaped(r)
      <4>1. PICK i \in Ids :
                 /\ key = Row(i) /\ key \in touch[q].rows
                 /\ w[Row(i)] \in Record /\ w[Row(i)].state \in {"live", "deleted"}
                 /\ w[Row(i)].group = record[i].group
                 /\ Linked(w[Row(i)]) \subseteq touch[q].links \cup raced
                 /\ Shaped(w[Row(i)])
        BY <3>1
      <4>2. Shaped(w[Row(i)])'
        BY <2>1, <4>1
      <4>3. /\ key \in touch'[q].rows
            /\ w[Row(i)].group = record'[i].group
            /\ Linked(w[Row(i)]) \subseteq touch'[q].links \cup raced'
        BY <1>1, <4>1
      <4> QED
        BY <4>1, <4>2, <4>3, Zenon
    <3>2. CASE \E k \in Payments :
             key = Abono(k) /\ key \in touch[q].rows /\ w[key] = NoPayment("deleted")
      BY <3>2
    <3>3. CASE \E e \in touch[q].changes :
             /\ key = Entity(e) /\ w[key] \in Figures
             /\ w[key].byHand =>
                  Len(todo[q]) = 1 /\ DOMAIN w = {key}
                    /\ new[q] = << >> /\ newPay[q] = << >>
      BY <3>3, Zenon
    <3> QED
      BY <2>2, <3>1, <3>2, <3>3, Zenon DEF Sound, Imaged
  <2> QED
    BY <2>3, <2>4, Zenon DEF Imaged
<1>8. Traced(q)'
  BY <1>1 DEF Sound, Traced
<1> QED
  BY <1>3, <1>4, <1>5, <1>6, <1>7, <1>8 DEF Sound

\* Two requests stay apart when neither touches more.
LEMMA ApartStays ==
  ASSUME NEW p, NEW q, Apart(p, q), touch'[p] = touch[p], touch'[q] = touch[q],
         raced \subseteq raced'
  PROVE  Apart(p, q)'
BY DEF Apart

-----------------------------------------------------------------------------
(* The statement at the head.                                              *)

\* The statement at the head and those after it: only the commit is the last.
LEMMA HeadFacts ==
  ASSUME NEW p \in Requests, RaceTypes, Ordered(p), todo[p] # << >>
  PROVE  /\ Head(todo[p]) \in Statements /\ Fit(p, Head(todo[p]))
         /\ Head(todo[p]) = todo[p][1] /\ 1 \in 1..Len(todo[p])
         /\ Tail(todo[p]) \in Seq(Statements)
         /\ Len(todo[p]) \in Nat
         /\ Len(Tail(todo[p])) = Len(todo[p]) - 1
         /\ \A k \in 1..Len(Tail(todo[p])) :
              k + 1 \in 1..Len(todo[p]) /\ Tail(todo[p])[k] = todo[p][k+1]
         /\ Head(todo[p]).do # "commit" =>
              Len(todo[p]) >= 2 /\ Len(todo[p]) # 1 /\ Tail(todo[p]) # << >>
         /\ Head(todo[p]).do = "commit" => Tail(todo[p]) = << >>
<1>1. todo[p] \in Seq(Statements)
  BY DEF RaceTypes
<1>2. /\ Head(todo[p]) = todo[p][1] /\ 1 \in 1..Len(todo[p])
      /\ Tail(todo[p]) \in Seq(Statements)
      /\ Len(todo[p]) \in Nat /\ Len(todo[p]) # 0
      /\ Len(Tail(todo[p])) = Len(todo[p]) - 1
      /\ \A k \in 1..Len(Tail(todo[p])) :
           k + 1 \in 1..Len(todo[p]) /\ Tail(todo[p])[k] = todo[p][k+1]
  BY <1>1
<1>3. Fit(p, todo[p][1]) /\ (todo[p][1].do = "commit" <=> 1 = Len(todo[p]))
  BY <1>2 DEF Ordered
<1>4. todo[p][1] \in Statements
  BY <1>1, <1>2
<1>5. \A l \in Seq(Statements) : Len(l) = 0 <=> l = << >>
  OBVIOUS
<1>6. Len(Tail(todo[p])) = 0 <=> Tail(todo[p]) = << >>
  BY <1>2, <1>5
<1> QED
  BY <1>2, <1>3, <1>4, <1>6

\* The statements left when the one at the head is done are in order.
LEMMA OrderedDone ==
  ASSUME NEW p \in Requests, RaceTypes, Ordered(p), todo[p] # << >>,
         Head(todo[p]).do # "commit", todo'[p] = Tail(todo[p]),
         record' = record, touch' = touch, raced' = raced
  PROVE  /\ Ordered(p)' /\ AtRest(p)' /\ todo'[p] \in Seq(Statements)
         /\ Head(todo[p]).do # "pay" =>
              \A k \in 1..Len(todo'[p]) : todo'[p][k].do # "write"
<1>1. PICK list \in Seq(Statements) : list = Tail(todo[p])
  BY HeadFacts
<1>2. PICK old \in Seq(Statements) : old = todo[p]
  BY DEF RaceTypes
<1>3. /\ list # << >> /\ Len(old) \in Nat /\ Len(list) = Len(old) - 1
      /\ \A k \in 1..Len(list) : k + 1 \in 1..Len(old) /\ list[k] = old[k+1]
  BY <1>1, <1>2, HeadFacts
<1>4. \A k \in 1..Len(old) :
        LET s == old[k]
        IN  /\ Fit(p, s)
            /\ s.do = "commit" <=> k = Len(old)
            /\ s.do = "write" => k = 1 \/ (k = 2 /\ old[1].do = "pay")
            /\ s.do = "pay" => k = 1
            /\ s.do = "write" /\ s.figure.byHand => k = 1
  BY <1>2 DEF Ordered
<1>5. ASSUME NEW k \in 1..Len(list)
      PROVE  /\ Fit(p, list[k])'
             /\ list[k].do = "commit" <=> k = Len(list)
             /\ list[k].do = "write" => k = 1 /\ old[1].do = "pay"
             /\ list[k].do # "pay"
             /\ ~ (list[k].do = "write" /\ list[k].figure.byHand)
  <2>1. k + 1 \in 1..Len(old) /\ list[k] = old[k+1] /\ k + 1 # 1
    BY <1>3
  <2>2. Fit(p, list[k])
    BY <1>4, <2>1
  <2>3. Fit(p, list[k])'
    BY <2>2, FitStays
  <2>4. k + 1 = Len(old) <=> k = Len(list)
    BY <1>3
  <2>5. k + 1 = 2 => k = 1
    OBVIOUS
  <2> QED
    BY <1>4, <2>1, <2>3, <2>4, <2>5
<1>6. Ordered(p)'
  BY <1>1, <1>5 DEF Ordered
<1>7. AtRest(p)'
  BY <1>1, <1>3 DEF AtRest
<1>8. old[1] = Head(todo[p])
  BY <1>2, HeadFacts
<1> QED
  BY <1>1, <1>5, <1>6, <1>7, <1>8

\* One more statement before a list.
Before(x, list) == <<x>> \o list

\* The list that puts one more statement first.
LEMMA Prefixed ==
  ASSUME NEW S, NEW x \in S, NEW list \in Seq(S)
  PROVE  /\ Before(x, list) \in Seq(S)
         /\ Len(Before(x, list)) = Len(list) + 1
         /\ (Before(x, list))[1] = x
         /\ Before(x, list) # << >>
         /\ \A k \in 1..Len(Before(x, list)) :
              k # 1 => k - 1 \in 1..Len(list) /\ (Before(x, list))[k] = list[k-1]
BY DEF Before

\* They are in order when another statement takes the place of the head.
LEMMA OrderedReplaced ==
  ASSUME NEW p \in Requests, RaceTypes, Ordered(p), todo[p] # << >>,
         Head(todo[p]).do # "commit", Head(todo[p]).do # "pay",
         NEW x \in Statements, todo'[p] = Before(x, Tail(todo[p])), Fit(p, x),
         x.do # "commit", x.do # "pay",
         x.do = "write" => x.figure.byHand = FALSE,
         record' = record, touch' = touch, raced' = raced
  PROVE  Ordered(p)' /\ AtRest(p)' /\ todo'[p] \in Seq(Statements)
<1>1. PICK list \in Seq(Statements) : list = Tail(todo[p])
  BY HeadFacts
<1>2. PICK old \in Seq(Statements) : old = todo[p]
  BY DEF RaceTypes
<1>3. /\ list # << >> /\ Len(old) \in Nat /\ Len(list) = Len(old) - 1 /\ Len(old) >= 2
      /\ \A k \in 1..Len(list) : k + 1 \in 1..Len(old) /\ list[k] = old[k+1]
      /\ old[1].do # "pay"
  BY <1>1, <1>2, HeadFacts
<1>4. \A k \in 1..Len(old) :
        LET s == old[k]
        IN  /\ Fit(p, s)
            /\ s.do = "commit" <=> k = Len(old)
            /\ s.do = "write" => k = 1 \/ (k = 2 /\ old[1].do = "pay")
            /\ s.do = "pay" => k = 1
            /\ s.do = "write" /\ s.figure.byHand => k = 1
  BY <1>2 DEF Ordered
<1>5. PICK now \in Seq(Statements) : now = Before(x, list)
  BY Prefixed, Zenon
<1>6. /\ Len(now) = Len(list) + 1 /\ now[1] = x /\ now # << >>
      /\ \A k \in 1..Len(now) : k # 1 => k - 1 \in 1..Len(list) /\ now[k] = list[k-1]
  BY <1>5, Prefixed
<1>11. Len(now) = Len(old) /\ Len(now) \in Nat
  BY <1>3, <1>6
<1>7. ASSUME NEW k \in 1..Len(now)
      PROVE  /\ Fit(p, now[k])'
             /\ now[k].do = "commit" <=> k = Len(now)
             /\ now[k].do = "write" => k = 1
             /\ now[k].do # "pay"
             /\ ~ (now[k].do = "write" /\ now[k].figure.byHand)
  <2>1. CASE k = 1
    <3>1. Fit(p, x)'
      BY FitStays
    <3>2. 1 # Len(now)
      BY <1>3, <1>11
    <3> QED
      BY <2>1, <3>1, <3>2, <1>6
  <2>2. CASE k # 1
    <3>1. k - 1 \in 1..Len(list) /\ now[k] = list[k-1]
      BY <1>6, <2>2
    <3>2. k \in 1..Len(old) /\ now[k] = old[k]
      <4>2. k \in Int
        BY <1>11
      <4>3. (k - 1) + 1 = k
        BY <4>2
      <4> QED
        BY <1>3, <1>11, <3>1, <4>3
    <3>3. Fit(p, now[k])
      BY <1>4, <3>2
    <3>4. Fit(p, now[k])'
      BY <3>3, FitStays
    <3> QED
      BY <1>3, <1>4, <1>6, <1>11, <2>2, <3>2, <3>4
  <2> QED
    BY <2>1, <2>2
<1>8. todo'[p] = now
  BY <1>1, <1>5
<1>9. Ordered(p)'
  BY <1>7, <1>8 DEF Ordered
<1> QED
  BY <1>6, <1>8, <1>9 DEF AtRest

\* A pending row is not locked yet.
LEMMA HeadPending ==
  ASSUME NEW p \in Requests, RaceTypes, Ordered(p), Once(p), todo[p] # << >>,
         NEW r \in Pending(Head(todo[p]))
  PROVE  r \in touch[p].rows /\ r \notin DOMAIN work[p]
<1> DEFINE s == Head(todo[p])
<1>1. todo[p] \in Seq(Statements)
  BY DEF RaceTypes
<1>2. s \in Statements /\ Tail(todo[p]) \in Seq(Statements) /\ Fit(p, s)
  BY HeadFacts
<1>3. r \in touch[p].rows
  BY <1>2 DEF Fit
<1>4. Times(p, r) = PendingOn(r)[s] + WeightOf(Tail(todo[p]), PendingOn(r))
  BY <1>1, TimesWeight, WeightTail, PendingType
<1>5. PendingOn(r)[s] = 1
  BY <1>2 DEF PendingOn
<1>6. WeightOf(Tail(todo[p]), PendingOn(r)) \in Nat
  BY <1>2, PendingType, WeightNat
<1>7. Times(p, r) + (IF r \in DOMAIN work[p] THEN 1 ELSE 0) <= 1
  BY <1>3 DEF Once
<1> QED
  BY <1>3, <1>4, <1>5, <1>6, <1>7

\* One statement done, its rows locked.
LEMMA OnceDone ==
  ASSUME NEW p \in Requests, RaceTypes, Ordered(p), Once(p), todo[p] # << >>,
         todo'[p] = Tail(todo[p]), touch' = touch,
         \A r \in touch[p].rows :
           r \in DOMAIN work'[p] => r \in DOMAIN work[p] \/ r \in Pending(Head(todo[p]))
  PROVE  Once(p)'
<1> SUFFICES ASSUME NEW r \in touch[p].rows
             PROVE  Times(p, r)' + (IF r \in DOMAIN work'[p] THEN 1 ELSE 0) <= 1
  BY DEF Once
<1> DEFINE s == Head(todo[p])
<1>1. todo[p] \in Seq(Statements)
  BY DEF RaceTypes
<1>2. s \in Statements /\ Tail(todo[p]) \in Seq(Statements)
  BY HeadFacts
<1>3. Times(p, r) = PendingOn(r)[s] + WeightOf(Tail(todo[p]), PendingOn(r))
  BY <1>1, TimesWeight, WeightTail, PendingType
<1>4. Times(p, r)' = WeightOf(Tail(todo[p]), PendingOn(r))
  BY <1>2, TimesNow
<1>5. PendingOn(r)[s] = IF r \in Pending(s) THEN 1 ELSE 0
  BY <1>2 DEF PendingOn
<1>6. WeightOf(Tail(todo[p]), PendingOn(r)) \in Nat
  BY <1>2, PendingType, WeightNat
<1>7. Times(p, r) + (IF r \in DOMAIN work[p] THEN 1 ELSE 0) <= 1
  BY DEF Once
<1>8. r \in DOMAIN work'[p] => r \in DOMAIN work[p] \/ r \in Pending(s)
  OBVIOUS
<1> HIDE DEF s
<1> QED
  BY <1>3, <1>4, <1>5, <1>6, <1>7, <1>8

\* Nothing is pending twice when a statement about the same row replaces the head.
LEMMA OnceReplaced ==
  ASSUME NEW p \in Requests, RaceTypes, Ordered(p), Once(p), todo[p] # << >>,
         NEW x \in Statements, todo'[p] = Before(x, Tail(todo[p])), touch' = touch,
         Pending(x) = Pending(Head(todo[p])), work'[p] = work[p]
  PROVE  Once(p)'
<1> SUFFICES ASSUME NEW r \in touch[p].rows
             PROVE  Times(p, r)' = Times(p, r)
  BY DEF Once
<1> DEFINE s == Head(todo[p])
<1>1. todo[p] \in Seq(Statements)
  BY DEF RaceTypes
<1>2. s \in Statements /\ Tail(todo[p]) \in Seq(Statements)
  BY HeadFacts
<1>3. Times(p, r) = PendingOn(r)[s] + WeightOf(Tail(todo[p]), PendingOn(r))
  BY <1>1, TimesWeight, WeightTail, PendingType
<1>4. <<x>> \in Seq(Statements) /\ Before(x, Tail(todo[p])) \in Seq(Statements)
  <2>1. PICK rest \in Seq(Statements) : rest = Tail(todo[p])
    BY <1>2
  <2>2. Before(x, rest) \in Seq(Statements)
    BY Prefixed
  <2> QED
    BY <2>1, <2>2
<1>5. Times(p, r)' = WeightOf(Before(x, Tail(todo[p])), PendingOn(r))
  BY <1>4, TimesNow
<1>6. WeightOf(Before(x, Tail(todo[p])), PendingOn(r))
        = WeightOf(<<x>>, PendingOn(r)) + WeightOf(Tail(todo[p]), PendingOn(r))
  <2>1. PICK rest \in Seq(Statements) : rest = Tail(todo[p])
    BY <1>2
  <2>2. PICK first \in Seq(Statements) : first = <<x>>
    BY <1>4
  <2>3. PICK w \in [Statements -> Int] : w = PendingOn(r)
    BY PendingType
  <2>4. WeightOf(first \o rest, w) = WeightOf(first, w) + WeightOf(rest, w)
    BY WeightConcat
  <2> QED
    BY <2>1, <2>2, <2>3, <2>4 DEF Before
<1>7. WeightOf(<<x>>, PendingOn(r)) = PendingOn(r)[x]
  BY PendingType, WeightOne
<1>8. PendingOn(r)[x] = PendingOn(r)[s]
  BY <1>2 DEF PendingOn
<1> QED
  BY <1>3, <1>5, <1>6, <1>7, <1>8

-----------------------------------------------------------------------------
(* Writes.                                                                 *)

\* What a lock writes.
LEMMA LockFacts ==
  ASSUME NEW p \in Requests, DOMAIN work = Requests, NEW key, NEW value,
         Lock(p, key, value)
  PROVE  /\ DOMAIN work' = Requests
         /\ \A q \in Requests \ {p} : work'[q] = work[q]
         /\ DOMAIN work'[p] = DOMAIN work[p] \cup {key}
         /\ work'[p][key] = value
         /\ \A k \in DOMAIN work[p] : k # key => work'[p][k] = work[p][k]
<1>1. work' = [work EXCEPT ![p] =
        [k \in DOMAIN work[p] \cup {key} |-> IF k = key THEN value ELSE work[p][k]]]
  BY DEF Lock
<1>2. PICK w : w = [k \in DOMAIN work[p] \cup {key} |-> IF k = key THEN value ELSE work[p][k]]
  OBVIOUS
<1>3. work' = [work EXCEPT ![p] = w]
  BY <1>1, <1>2
<1>4. work'[p] = w /\ DOMAIN work' = Requests /\ \A q \in Requests \ {p} : work'[q] = work[q]
  BY <1>3
<1> QED
  BY <1>2, <1>4

\* What is left when a statement is done.
LEMMA DoneFacts ==
  ASSUME NEW p \in Requests, DOMAIN todo = Requests, Done(p)
  PROVE  /\ DOMAIN todo' = Requests
         /\ todo'[p] = Tail(todo[p])
         /\ \A q \in Requests \ {p} : todo'[q] = todo[q]
BY DEF Done

\* What is left when a statement is replaced.
LEMMA ReplaceFacts ==
  ASSUME NEW p \in Requests, DOMAIN todo = Requests, NEW x, Replace(p, x)
  PROVE  /\ DOMAIN todo' = Requests
         /\ todo'[p] = Before(x, Tail(todo[p]))
         /\ \A q \in Requests \ {p} : todo'[q] = todo[q]
<1>1. todo' = [todo EXCEPT ![p] = Before(x, Tail(todo[p]))]
  BY DEF Replace, Before
<1> QED
  BY <1>1

\* What a request has written of the key, as GoodImage of Imaged.
GoodImage(p, key, image) ==
  \/ \E i \in Ids :
       /\ key = Row(i) /\ key \in touch[p].rows
       /\ image \in Record /\ image.state \in {"live", "deleted"}
       /\ image.group = record[i].group
       /\ Linked(image) \subseteq touch[p].links \cup raced
       /\ Shaped(image)
  \/ \E k \in Payments :
       key = Abono(k) /\ key \in touch[p].rows /\ image = NoPayment("deleted")
  \/ \E e \in touch[p].changes :
       /\ key = Entity(e) /\ image \in Figures
       /\ image.byHand =>
            Len(todo[p]) = 1 /\ DOMAIN work[p] = {key} /\ new[p] = << >> /\ newPay[p] = << >>

\* What Imaged says, one written row at a time.
LEMMA ImagedGood ==
  ASSUME NEW p, Imaged(p)
  PROVE  \A key \in DOMAIN work[p] : GoodImage(p, key, work[p][key])
<1> SUFFICES ASSUME NEW key \in DOMAIN work[p] PROVE GoodImage(p, key, work[p][key])
  OBVIOUS
<1>1. CASE \E i \in Ids : LET r == work[p][Row(i)]
         IN  /\ key = Row(i) /\ key \in touch[p].rows
             /\ r \in Record /\ r.state \in {"live", "deleted"}
             /\ r.group = record[i].group
             /\ Linked(r) \subseteq touch[p].links \cup raced
             /\ Shaped(r)
  BY <1>1, Zenon DEF GoodImage
<1>2. CASE \E k \in Payments :
         key = Abono(k) /\ key \in touch[p].rows /\ work[p][key] = NoPayment("deleted")
  BY <1>2, Zenon DEF GoodImage
<1>3. CASE \E e \in touch[p].changes :
         /\ key = Entity(e) /\ work[p][key] \in Figures
         /\ work[p][key].byHand =>
              Len(todo[p]) = 1 /\ DOMAIN work[p] = {key} /\ new[p] = << >> /\ newPay[p] = << >>
  BY <1>3, Zenon DEF GoodImage
<1> QED
  BY <1>1, <1>2, <1>3, Zenon DEF Imaged

\* Imaged after a step, from what each written row then is.
LEMMA ImagedNow ==
  ASSUME NEW p, \A image : \A key \in DOMAIN work'[p] :
                  image = work'[p][key] => GoodImage(p, key, image)'
  PROVE  Imaged(p)'
<1>1. PICK w : w = work'[p]
  OBVIOUS
<1> SUFFICES ASSUME NEW key \in DOMAIN w
      PROVE
        \/ \E i \in Ids :
             LET r == w[Row(i)]
             IN  /\ key = Row(i) /\ key \in touch'[p].rows
                 /\ r \in Record /\ r.state \in {"live", "deleted"}
                 /\ r.group = record'[i].group
                 /\ Linked(r) \subseteq touch'[p].links \cup raced'
                 /\ Shaped(r)'
        \/ \E k \in Payments :
             key = Abono(k) /\ key \in touch'[p].rows /\ w[key] = NoPayment("deleted")
        \/ \E e \in touch'[p].changes :
             /\ key = Entity(e) /\ w[key] \in Figures
             /\ w[key].byHand =>
                  Len(todo'[p]) = 1 /\ DOMAIN w = {key}
                    /\ new'[p] = << >> /\ newPay'[p] = << >>
  BY <1>1, Zenon DEF Imaged
<1>2. GoodImage(p, key, w[key])'
  BY <1>1
<1>3. PICK image : image = w[key]
  OBVIOUS
<1>4. GoodImage(p, key, image)'
  BY <1>2, <1>3
<1>5. CASE \E i \in Ids :
       /\ key = Row(i) /\ key \in touch'[p].rows
       /\ image \in Record /\ image.state \in {"live", "deleted"}
       /\ image.group = record'[i].group
       /\ Linked(image) \subseteq touch'[p].links \cup raced'
       /\ Shaped(image)'
  BY <1>3, <1>5, Zenon
<1>6. CASE \E k \in Payments :
       key = Abono(k) /\ key \in touch'[p].rows /\ image = NoPayment("deleted")
  BY <1>3, <1>6
<1>7. CASE \E e \in touch'[p].changes :
       /\ key = Entity(e) /\ image \in Figures
       /\ image.byHand =>
            Len(todo'[p]) = 1 /\ DOMAIN work'[p] = {key}
              /\ new'[p] = << >> /\ newPay'[p] = << >>
  BY <1>1, <1>3, <1>7, Zenon
<1> QED
  BY <1>4, <1>5, <1>6, <1>7, Zenon DEF GoodImage

\* Before its last statement a request has set no balance by hand.
LEMMA NoHand ==
  ASSUME NEW p \in Requests, RaceTypes, Ordered(p), Imaged(p), todo[p] # << >>,
         Head(todo[p]).do # "commit", NEW e \in Entities
  PROVE  OwnFigure(p, e).byHand = FALSE /\ Own(p, e) = OwnFigure(p, e).balance
<1>1. Len(todo[p]) # 1
  BY HeadFacts
<1>2. CASE Entity(e) \in DOMAIN work[p]
  <2>1. GoodImage(p, Entity(e), work[p][Entity(e)])
    BY <1>2, ImagedGood
  <2>2. PICK image : image = work[p][Entity(e)]
    OBVIOUS
  <2>3. image \in Figures /\ (image.byHand => Len(todo[p]) = 1)
    BY <2>1, <2>2, Keys DEF GoodImage
  <2>4. image.byHand \in BOOLEAN
    BY <2>3 DEF Figures
  <2>5. image.byHand = FALSE
    BY <2>3, <2>4, <1>1, Zenon
  <2> QED
    BY <1>2, <2>2, <2>5 DEF OwnFigure, Own
<1>3. CASE Entity(e) \notin DOMAIN work[p]
  BY <1>3 DEF OwnFigure, Own, Committed, Figure
<1> QED
  BY <1>2, <1>3

\* Images are kept by a step that leaves them and is not the last but one.
LEMMA ImagedKept ==
  ASSUME NEW p \in Requests, RaceTypes, Ordered(p), Imaged(p), todo[p] # << >>,
         Head(todo[p]).do # "commit",
         record' = record, touch' = touch, raced' = raced,
         NEW key \in DOMAIN work[p], NEW image, image = work[p][key]
  PROVE  GoodImage(p, key, image)'
<1>1. GoodImage(p, key, image)
  BY ImagedGood
<1>2. \A r : Shaped(r)' <=> Shaped(r)
  BY DEF Shaped
<1>3. CASE \E i \in Ids :
       /\ key = Row(i) /\ key \in touch[p].rows
       /\ image \in Record /\ image.state \in {"live", "deleted"}
       /\ image.group = record[i].group
       /\ Linked(image) \subseteq touch[p].links \cup raced
       /\ Shaped(image)
  <2>1. \E i \in Ids :
       /\ key = Row(i) /\ key \in touch'[p].rows
       /\ image \in Record /\ image.state \in {"live", "deleted"}
       /\ image.group = record'[i].group
       /\ Linked(image) \subseteq touch'[p].links \cup raced'
       /\ Shaped(image)'
    BY <1>2, <1>3, Zenon
  <2> QED
    BY <2>1 DEF GoodImage
<1>4. CASE \E k \in Payments :
       key = Abono(k) /\ key \in touch[p].rows /\ image = NoPayment("deleted")
  BY <1>4 DEF GoodImage
<1>5. CASE \E e \in touch[p].changes :
       /\ key = Entity(e) /\ image \in Figures
       /\ image.byHand =>
            Len(todo[p]) = 1 /\ DOMAIN work[p] = {key} /\ new[p] = << >> /\ newPay[p] = << >>
  <2>3. Len(todo[p]) # 1
    BY HeadFacts
  <2>2. PICK e \in touch'[p].changes : key = Entity(e) /\ image \in Figures /\ ~ image.byHand
    BY <1>5, <2>3, Zenon
  <2> QED
    BY <2>2 DEF GoodImage
<1> QED
  BY <1>1, <1>3, <1>4, <1>5 DEF GoodImage

-----------------------------------------------------------------------------
(* One statement.                                                          *)

\* The frame of Execute.
Executing(p) ==
  /\ todo[p] # << >> /\ Head(todo[p]).do # "commit"
  /\ UNCHANGED <<vars, asked, touch, raced>>
  /\ \A q \in Requests \ {p} : /\ todo'[q] = todo[q] /\ work'[q] = work[q]
                               /\ new'[q] = new[q] /\ newPay'[q] = newPay[q]

\* The database does not change.
LEMMA Unmoved ==
  ASSUME UNCHANGED vars
  PROVE  /\ record' = record /\ payment' = payment /\ balance' = balance
         /\ completed' = completed /\ status' = status /\ next' = next
         /\ target' = target /\ base' = base /\ rules' = rules
BY DEF vars, goalVars

\* A statement of p keeps the invariant if it keeps what the invariant says of p:
\* the others notice nothing before p commits.
LEMMA ExecuteKeeps ==
  ASSUME RaceInv, NEW p \in Requests, Executing(p),
         DOMAIN todo' = Requests, DOMAIN work' = Requests,
         todo'[p] \in Seq(Statements),
         new' \in [Requests -> Seq(Draft)], newPay' \in [Requests -> Seq(Payment)],
         Balanced(p)', Once(p)', Ordered(p)', AtRest(p)', Imaged(p)'
  PROVE  RaceInv'
<1>1. RaceTypes /\ Files /\ DamageIsConfined /\ Traced(p)
  BY DEF RaceInv, Sound
<1>2. touch' = touch /\ raced' = raced /\ asked' = asked /\ UNCHANGED vars
  BY DEF Executing
<1>3. RaceTypes'
  <2>1. TypeOK'
    BY <1>1, <1>2, Unmoved DEF RaceTypes, TypeOK
  <2>2. \A q \in Requests : todo'[q] \in Seq(Statements)
    BY <1>1 DEF RaceTypes, Executing
  <2> QED
    BY <1>1, <1>2, <2>1, <2>2 DEF RaceTypes
<1>4. Files'
  <2>1. asked # 0
    BY <1>1 DEF Files, Executing
  <2>2. \A r : Shaped(r) => Shaped(r)'
    BY <1>2 DEF Shaped
  <2>3. \A i \in Ids : /\ i >= next' => record'[i].state = "none"
                       /\ Shaped(record[i])'
    BY <1>1, <1>2, <2>2, Unmoved DEF Files
  <2>4. \A i \in Ids : Shaped(record[i])
    BY <1>1, <1>2, Unmoved DEF Files
  <2> QED
    BY <1>2, <2>1, <2>3, <2>4, Unmoved DEF Files, Shaped
<1>5. DamageIsConfined'
  BY <1>1, <1>2, Unmoved DEF DamageIsConfined, Explained
<1>6. ASSUME NEW q \in Requests PROVE Sound(q)'
  <2>1. CASE q = p
    <3>2. record' = record /\ payment' = payment /\ next' = next
      BY <1>2, Unmoved
    <3>1. Traced(p)'
      BY <1>1, <1>2, <3>2 DEF Traced
    <3> QED
      BY <2>1, <3>1 DEF Sound
  <2>2. CASE q # p
    <3>1. Sound(q)
      BY DEF RaceInv
    <3>2. /\ todo'[q] = todo[q] /\ work'[q] = work[q] /\ new'[q] = new[q]
          /\ newPay'[q] = newPay[q] /\ touch'[q] = touch[q] /\ raced \subseteq raced'
      BY <1>2, <2>2 DEF Executing
    <3> QED
      BY <1>1, <1>2, <3>1, <3>2, OthersKeep
  <2> QED
    BY <2>1, <2>2
<1>7. \A q, r \in Requests : q # r => Apart(q, r)'
  BY <1>2 DEF RaceInv, Apart
<1> QED
  BY <1>3, <1>4, <1>5, <1>6, <1>7 DEF RaceInv

\* What a running request may rely on.
LEMMA Starting ==
  ASSUME RaceInv, NEW p \in Requests, todo[p] # << >>
  PROVE  /\ RaceTypes /\ DOMAIN todo = Requests /\ DOMAIN work = Requests
         /\ Balanced(p) /\ Once(p) /\ Ordered(p) /\ AtRest(p) /\ Imaged(p) /\ Traced(p)
         /\ Head(todo[p]) \in Statements /\ Fit(p, Head(todo[p]))
         /\ new \in [Requests -> Seq(Draft)] /\ newPay \in [Requests -> Seq(Payment)]
         /\ todo[p] \in Seq(Statements) /\ Tail(todo[p]) \in Seq(Statements)
<1>1. /\ RaceTypes /\ Balanced(p) /\ Once(p) /\ Ordered(p) /\ AtRest(p) /\ Imaged(p)
      /\ Traced(p)
  BY DEF RaceInv, Sound
<1> QED
  BY <1>1, HeadFacts DEF RaceTypes

\* What is due when the statement at the head is done.
LEMMA DueDone ==
  ASSUME RaceInv, NEW p \in Requests, NEW e \in Entities,
         todo[p] # << >>, todo'[p] = Tail(todo[p]), UNCHANGED vars,
         \/ work'[p] = work[p]
         \/ \A k \in 1..Len(todo'[p]) : todo'[p][k].do # "write"
  PROVE  /\ Due(p, e) \in Int /\ Due(p, e)' \in Int
         /\ Weigh(p, Head(todo[p]), e) \in Int
         /\ Due(p, e) = Weigh(p, Head(todo[p]), e) + Due(p, e)'
<1>1. /\ RaceTypes /\ Imaged(p) /\ todo[p] \in Seq(Statements)
      /\ Tail(todo[p]) \in Seq(Statements) /\ Head(todo[p]) \in Statements
  BY Starting
<1>2. PICK w \in [Statements -> Int] : w = Weights(p, e)
  BY <1>1, WeightsType
<1>3. PICK rest \in Seq(Statements) : rest = Tail(todo[p])
  BY <1>1
<1>4. PICK list \in Seq(Statements) : list = todo[p] /\ list # << >>
  BY <1>1
<1>5. Due(p, e) = WeightOf(list, w)
  BY <1>1, <1>2, <1>4, DueWeight
<1>6. WeightOf(list, w) = w[Head(list)] + WeightOf(Tail(list), w)
  BY <1>4, WeightTail
<1>7. \A s \in Statements :
        (\E k \in 1..Len(todo'[p]) : s = todo'[p][k]) => Weigh(p, s, e)' = Weigh(p, s, e)
  <2> SUFFICES ASSUME NEW s \in Statements, NEW k \in 1..Len(todo'[p]), s = todo'[p][k]
               PROVE  Weigh(p, s, e)' = Weigh(p, s, e)
    OBVIOUS
  <2>1. s.do = "write" => work'[p] = work[p]
    OBVIOUS
  <2> QED
    BY <2>1, WeighStays
<1>8. Due(p, e)' = WeightOf(todo'[p], Weights(p, e))
  BY <1>1, <1>7, DueMoves
<1>9. Due(p, e)' = WeightOf(rest, w)
  BY <1>2, <1>3, <1>8
<1>10. w[Head(todo[p])] = Weigh(p, Head(todo[p]), e)
  BY <1>1, <1>2 DEF Weights
<1>11. WeightOf(list, w) \in Int /\ WeightOf(rest, w) \in Int /\ w[Head(todo[p])] \in Int
  BY <1>1, WeightInt
<1> QED
  BY <1>3, <1>4, <1>5, <1>6, <1>9, <1>10, <1>11

\* What is due when the statement at the head makes way for another.
LEMMA DueReplaced ==
  ASSUME RaceInv, NEW p \in Requests, NEW e \in Entities, NEW x \in Statements,
         todo[p] # << >>, todo'[p] = Before(x, Tail(todo[p])), UNCHANGED vars,
         work'[p] = work[p], Weigh(p, x, e) = Weigh(p, Head(todo[p]), e)
  PROVE  Due(p, e)' = Due(p, e)
<1>1. /\ RaceTypes /\ Imaged(p) /\ todo[p] \in Seq(Statements)
      /\ Tail(todo[p]) \in Seq(Statements) /\ Head(todo[p]) \in Statements
  BY Starting
<1>2. PICK w \in [Statements -> Int] : w = Weights(p, e)
  BY <1>1, WeightsType
<1>3. PICK rest \in Seq(Statements) : rest = Tail(todo[p])
  BY <1>1
<1>4. PICK list \in Seq(Statements) : list = todo[p] /\ list # << >>
  BY <1>1
<1>5. Due(p, e) = WeightOf(list, w)
  BY <1>1, <1>2, <1>4, DueWeight
<1>6. WeightOf(list, w) = w[Head(list)] + WeightOf(Tail(list), w)
  BY <1>4, WeightTail
<1>7. \A s \in Statements : Weigh(p, s, e)' = Weigh(p, s, e)
  BY WeighStays
<1>8. Before(x, rest) \in Seq(Statements)
  BY Prefixed
<1>9. Due(p, e)' = WeightOf(todo'[p], Weights(p, e))
  BY <1>3, <1>7, <1>8, DueMoves
<1>10. Due(p, e)' = WeightOf(Before(x, rest), w)
  BY <1>2, <1>3, <1>9
<1>11. WeightOf(Before(x, rest), w) = w[x] + WeightOf(rest, w)
  <2>1. PICK first \in Seq(Statements) : first = <<x>>
    BY <<x>> \in Seq(Statements)
  <2>2. WeightOf(first \o rest, w) = WeightOf(first, w) + WeightOf(rest, w)
    BY WeightConcat
  <2>3. WeightOf(<<x>>, w) = w[x]
    BY WeightOne
  <2> QED
    BY <2>1, <2>2, <2>3 DEF Before
<1>12. w[Head(todo[p])] = w[x]
  BY <1>1, <1>2 DEF Weights
<1> QED
  BY <1>3, <1>4, <1>5, <1>6, <1>10, <1>11, <1>12

\* A request reads the balance it read when it has not written it.
LEMMA OwnStays ==
  ASSUME NEW p, NEW e, UNCHANGED vars,
         Entity(e) \in DOMAIN work'[p] <=> Entity(e) \in DOMAIN work[p],
         Entity(e) \in DOMAIN work[p] => work'[p][Entity(e)] = work[p][Entity(e)]
  PROVE  Own(p, e)' = Own(p, e)
<1>1. OwnFigure(p, e)' = OwnFigure(p, e)
  BY Unmoved DEF OwnFigure, Committed
<1> QED
  BY <1>1, Unmoved DEF Own

\* A statement that writes no row leaves the written rows as they should be.
LEMMA ImagedStays ==
  ASSUME RaceInv, NEW p \in Requests, Executing(p), work'[p] = work[p]
  PROVE  Imaged(p)'
<1>1. RaceTypes /\ Ordered(p) /\ Imaged(p) /\ record' = record /\ touch' = touch /\ raced' = raced
  BY Starting, Unmoved DEF Executing
<1>2. todo[p] # << >> /\ Head(todo[p]).do # "commit"
  BY DEF Executing
<1>3. ASSUME NEW image, NEW key \in DOMAIN work'[p], image = work'[p][key]
      PROVE  GoodImage(p, key, image)'
  <2>1. key \in DOMAIN work[p] /\ image = work[p][key]
    BY <1>3
  <2> QED
    BY <1>1, <1>2, <2>1, ImagedKept
<1> QED
  BY <1>3, ImagedNow

\* A lock adds one image.
LEMMA ImagedLocked ==
  ASSUME RaceInv, NEW p \in Requests, Executing(p), NEW key,
         DOMAIN work'[p] = DOMAIN work[p] \cup {key},
         \A k \in DOMAIN work[p] : k # key => work'[p][k] = work[p][k],
         \A image : image = work'[p][key] => GoodImage(p, key, image)'
  PROVE  Imaged(p)'
<1>1. RaceTypes /\ Ordered(p) /\ Imaged(p) /\ record' = record /\ touch' = touch /\ raced' = raced
  BY Starting, Unmoved DEF Executing
<1>2. todo[p] # << >> /\ Head(todo[p]).do # "commit"
  BY DEF Executing
<1>3. ASSUME NEW image, NEW k \in DOMAIN work'[p], image = work'[p][k]
      PROVE  GoodImage(p, k, image)'
  <2>1. CASE k = key
    BY <1>3, <2>1
  <2>2. CASE k # key
    <3>1. k \in DOMAIN work[p] /\ image = work[p][k]
      BY <1>3, <2>2
    <3> QED
      BY <1>1, <1>2, <3>1, ImagedKept
  <2> QED
    BY <2>1, <2>2
<1> QED
  BY <1>3, ImagedNow

\* INSERT of a record: what the statement weighed is now kept.
LEMMA InsertKeeps ==
  ASSUME RaceInv, NEW p \in Requests, Executing(p), Inserts(p, Head(todo[p]))
  PROVE  RaceInv'
<1> DEFINE s == Head(todo[p])
<1>1. /\ RaceTypes /\ DOMAIN todo = Requests /\ DOMAIN work = Requests
      /\ Balanced(p) /\ Once(p) /\ Ordered(p) /\ Imaged(p)
      /\ s \in Statements /\ new \in [Requests -> Seq(Draft)]
      /\ newPay \in [Requests -> Seq(Payment)]
      /\ todo[p] # << >> /\ s.do # "commit" /\ UNCHANGED vars
      /\ record' = record /\ touch' = touch /\ raced' = raced
  BY Starting, Unmoved DEF Executing
<1>2. /\ s.do = "insert" /\ new' = [new EXCEPT ![p] = Append(@, s.row)] /\ Done(p)
      /\ work' = work /\ newPay' = newPay
  BY DEF Inserts
<1>3. s.row \in Draft
  BY <1>1, <1>2, StatementParts
<1>4. DOMAIN todo' = Requests /\ todo'[p] = Tail(todo[p])
  BY <1>1, <1>2, DoneFacts
<1>5. new'[p] = Append(new[p], s.row) /\ new' \in [Requests -> Seq(Draft)]
  <2>1. PICK row \in Draft : row = s.row
    BY <1>3
  <2>4. PICK old \in Seq(Draft) : old = new[p]
    BY <1>1
  <2>5. Append(old, row) \in Seq(Draft)
    OBVIOUS
  <2>2. PICK list \in Seq(Draft) : list = Append(new[p], row)
    BY <2>4, <2>5
  <2>3. new' = [new EXCEPT ![p] = list]
    BY <1>2, <2>1, <2>2
  <2> QED
    BY <1>1, <2>1, <2>2, <2>3
<1>6. Ordered(p)' /\ AtRest(p)' /\ todo'[p] \in Seq(Statements)
  BY <1>1, <1>4, OrderedDone
<1>7. Once(p)'
  BY <1>1, <1>2, <1>4, OnceDone
<1>8. Imaged(p)'
  BY <1>2, ImagedStays
<1>9. Balanced(p)'
  <2> SUFFICES ASSUME NEW e \in Entities \ raced, status[e] = "live"
               PROVE  Own(p, e)' + Due(p, e)' = balance[e] + Kept(p, e)'
    BY <1>1, Unmoved DEF Balanced
  <2>1. /\ Due(p, e)' \in Int /\ Weigh(p, s, e) \in Int
        /\ Due(p, e) = Weigh(p, s, e) + Due(p, e)'
    BY <1>1, <1>2, <1>4, DueDone
  <2>2. PICK row \in Draft : row = s.row
    BY <1>3
  <2>3. Kept(p, e)' = Kept(p, e) + Collected(row, e)
    BY <1>1, <1>2, <1>5, <2>2, KeptInserted
  <2>4. Weigh(p, s, e) = - Collected(row, e)
    BY <1>2, <2>2 DEF Weigh
  <2>5. Own(p, e)' = Own(p, e) /\ Own(p, e) \in Int
    BY <1>1, <1>2, OwnStays, FigureType
  <2>6. Own(p, e) + Due(p, e) = balance[e] + Kept(p, e)
    BY <1>1 DEF Balanced
  <2>7. Kept(p, e) \in Int /\ Collected(row, e) \in Int /\ balance[e] \in Int
    BY <1>1, KeptParts, DraftCollected, RaceTypeParts
  <2> QED
    BY <2>1, <2>3, <2>4, <2>5, <2>6, <2>7
<1> QED
  BY <1>1, <1>2, <1>4, <1>5, <1>6, <1>7, <1>8, <1>9, ExecuteKeeps

\* INSERT of a payment.
LEMMA PayKeeps ==
  ASSUME RaceInv, NEW p \in Requests, Executing(p), Pays(p, Head(todo[p]))
  PROVE  RaceInv'
<1> DEFINE s == Head(todo[p])
<1>1. /\ RaceTypes /\ DOMAIN todo = Requests /\ DOMAIN work = Requests
      /\ Balanced(p) /\ Once(p) /\ Ordered(p) /\ Imaged(p)
      /\ s \in Statements /\ new \in [Requests -> Seq(Draft)]
      /\ newPay \in [Requests -> Seq(Payment)]
      /\ todo[p] # << >> /\ s.do # "commit" /\ UNCHANGED vars
      /\ record' = record /\ touch' = touch /\ raced' = raced
  BY Starting, Unmoved DEF Executing
<1>2. /\ s.do = "pay" /\ newPay' = [newPay EXCEPT ![p] = Append(@, s.row)] /\ Done(p)
      /\ work' = work /\ new' = new
  BY DEF Pays
<1>3. s.row \in Payment
  BY <1>1, <1>2, StatementParts
<1>4. DOMAIN todo' = Requests /\ todo'[p] = Tail(todo[p])
  BY <1>1, <1>2, DoneFacts
<1>10. newPay[p] = << >>
  <2>1. s = todo[p][1] /\ 1 \in 1..Len(todo[p])
    BY <1>1, HeadFacts
  <2> QED
    BY <1>1, <1>2, <2>1 DEF Ordered
<1>5. newPay'[p] = <<s.row>> /\ newPay' \in [Requests -> Seq(Payment)]
  <2>1. PICK row \in Payment : row = s.row
    BY <1>3
  <2>2. PICK list \in Seq(Payment) : list = <<row>>
    BY <<row>> \in Seq(Payment)
  <2>3. newPay' = [newPay EXCEPT ![p] = list]
    BY <1>2, <1>10, <2>1, <2>2
  <2> QED
    BY <1>1, <2>1, <2>2, <2>3
<1>6. Ordered(p)' /\ AtRest(p)' /\ todo'[p] \in Seq(Statements)
  BY <1>1, <1>4, OrderedDone
<1>7. Once(p)'
  BY <1>1, <1>2, <1>4, OnceDone
<1>8. Imaged(p)'
  BY <1>2, ImagedStays
<1>9. Balanced(p)'
  <2> SUFFICES ASSUME NEW e \in Entities \ raced, status[e] = "live"
               PROVE  Own(p, e)' + Due(p, e)' = balance[e] + Kept(p, e)'
    BY <1>1, Unmoved DEF Balanced
  <2>1. /\ Due(p, e)' \in Int /\ Weigh(p, s, e) \in Int
        /\ Due(p, e) = Weigh(p, s, e) + Due(p, e)'
    BY <1>1, <1>2, <1>4, DueDone
  <2>2. PICK row \in Payment : row = s.row
    BY <1>3
  <2>3. Kept(p, e)' = Kept(p, e) + Paid(row, e)
    BY <1>1, <1>2, <1>5, <1>10, <2>2, KeptPaidIn
  <2>4. Weigh(p, s, e) = - Paid(row, e)
    BY <1>2, <2>2 DEF Weigh
  <2>5. Own(p, e)' = Own(p, e) /\ Own(p, e) \in Int
    BY <1>1, <1>2, OwnStays, FigureType
  <2>6. Own(p, e) + Due(p, e) = balance[e] + Kept(p, e)
    BY <1>1 DEF Balanced
  <2>7. Kept(p, e) \in Int /\ Paid(row, e) \in Int /\ balance[e] \in Int
    BY <1>1, KeptParts, PaidType, RaceTypeParts
  <2> QED
    BY <2>1, <2>3, <2>4, <2>5, <2>6, <2>7
<1> QED
  BY <1>1, <1>2, <1>4, <1>5, <1>6, <1>7, <1>8, <1>9, ExecuteKeeps

\* Deletion of a payment.
LEMMA UnpayKeeps ==
  ASSUME RaceInv, NEW p \in Requests, Executing(p), Unpays(p, Head(todo[p]))
  PROVE  RaceInv'
<1> DEFINE s == Head(todo[p])
<1>1. /\ RaceTypes /\ DOMAIN todo = Requests /\ DOMAIN work = Requests
      /\ Balanced(p) /\ Once(p) /\ Ordered(p) /\ Imaged(p)
      /\ s \in Statements /\ new \in [Requests -> Seq(Draft)]
      /\ newPay \in [Requests -> Seq(Payment)]
      /\ todo[p] # << >> /\ s.do # "commit" /\ UNCHANGED vars
      /\ record' = record /\ touch' = touch /\ raced' = raced
  BY Starting, Unmoved DEF Executing
<1>2. /\ s.do = "unpay" /\ Lock(p, Abono(s.id), NoPayment("deleted")) /\ Done(p)
      /\ new' = new /\ newPay' = newPay
  BY DEF Unpays
<1>3. PICK k \in Payments : k = s.id
  BY <1>1, <1>2, StatementParts
<1>4. DOMAIN todo' = Requests /\ todo'[p] = Tail(todo[p])
  BY <1>1, <1>2, DoneFacts
<1>5. Pending(s) = {Abono(k)}
  BY <1>2, <1>3 DEF Pending
<1>10. Abono(k) \in touch[p].rows /\ Abono(k) \notin DOMAIN work[p]
  BY <1>1, <1>5, HeadPending
<1>11. PICK key, value : key = Abono(k) /\ value = NoPayment("deleted")
  OBVIOUS
<1>12. Lock(p, key, value)
  BY <1>2, <1>3, <1>11
<1>13. /\ DOMAIN work' = Requests
       /\ DOMAIN work'[p] = DOMAIN work[p] \cup {key}
       /\ work'[p][key] = value
       /\ \A l \in DOMAIN work[p] : l # key => work'[p][l] = work[p][l]
  BY <1>1, <1>12, LockFacts
<1>14. /\ Ordered(p)' /\ AtRest(p)' /\ todo'[p] \in Seq(Statements)
       /\ \A l \in 1..Len(todo'[p]) : todo'[p][l].do # "write"
  BY <1>1, <1>2, <1>4, OrderedDone
<1>7. Once(p)'
  BY <1>1, <1>4, <1>5, <1>11, <1>13, OnceDone
<1>8. Imaged(p)'
  <2>1. GoodImage(p, key, value)'
    BY <1>1, <1>10, <1>11 DEF GoodImage
  <2> QED
    BY <1>13, <2>1, ImagedLocked
<1>9. Balanced(p)'
  <2> SUFFICES ASSUME NEW e \in Entities \ raced, status[e] = "live"
               PROVE  Own(p, e)' + Due(p, e)' = balance[e] + Kept(p, e)'
    BY <1>1, Unmoved DEF Balanced
  <2>1. /\ Due(p, e)' \in Int /\ Weigh(p, s, e) \in Int
        /\ Due(p, e) = Weigh(p, s, e) + Due(p, e)'
    BY <1>1, <1>4, <1>14, DueDone
  <2>3. Kept(p, e)' = Kept(p, e) - Paid(payment[k], e)
    <3>1. \A l \in DOMAIN work[p] : work'[p][l] = work[p][l]
      BY <1>10, <1>11, <1>13
    <3> QED
      BY <1>1, <1>2, <1>10, <1>11, <1>13, <3>1, KeptPayLocked
  <2>4. Weigh(p, s, e) = Paid(payment[k], e)
    BY <1>2, <1>3 DEF Weigh
  <2>5. Own(p, e)' = Own(p, e) /\ Own(p, e) \in Int
    <3>1. Entity(e) # key
      BY <1>11, Keys
    <3> QED
      BY <1>1, <1>13, <3>1, OwnStays, FigureType
  <2>6. Own(p, e) + Due(p, e) = balance[e] + Kept(p, e)
    BY <1>1 DEF Balanced
  <2>7. Kept(p, e) \in Int /\ Paid(payment[k], e) \in Int /\ balance[e] \in Int
    BY <1>1, KeptParts, PaidType, RaceTypeParts
  <2> HIDE DEF s
  <2> QED
    BY <2>1, <2>3, <2>4, <2>5, <2>6, <2>7
<1> QED
  BY <1>1, <1>2, <1>4, <1>7, <1>8, <1>9, <1>13, <1>14, ExecuteKeeps

\* The lock of a row and its new image, where the balances not in raced see the
\* image the statement meant.
LEMMA RowLocked ==
  ASSUME RaceInv, NEW p \in Requests, Executing(p), NEW i \in Ids, NEW image \in Record,
         Head(todo[p]).do # "pay",
         Pending(Head(todo[p])) = {Row(i)},
         Lock(p, Row(i), image), Done(p), new' = new, newPay' = newPay,
         image.state \in {"live", "deleted"}, image.group = record[i].group,
         Linked(image) \subseteq touch[p].links \cup raced,
         Shaped(image),
         \A e \in Entities \ raced :
           Weigh(p, Head(todo[p]), e) = Collected(record[i], e) - Collected(image, e)
  PROVE  RaceInv'
<1> DEFINE s == Head(todo[p])
<1>1. /\ RaceTypes /\ DOMAIN todo = Requests /\ DOMAIN work = Requests
      /\ Balanced(p) /\ Once(p) /\ Ordered(p) /\ Imaged(p)
      /\ s \in Statements /\ new \in [Requests -> Seq(Draft)]
      /\ newPay \in [Requests -> Seq(Payment)]
      /\ todo[p] # << >> /\ s.do # "commit" /\ UNCHANGED vars
      /\ record' = record /\ touch' = touch /\ raced' = raced
  BY Starting, Unmoved DEF Executing
<1>4. DOMAIN todo' = Requests /\ todo'[p] = Tail(todo[p])
  BY <1>1, DoneFacts
<1>10. Row(i) \in touch[p].rows /\ Row(i) \notin DOMAIN work[p]
  BY <1>1, HeadPending
<1>11. PICK key : key = Row(i)
  OBVIOUS
<1>12. Lock(p, key, image)
  BY <1>11
<1>13. /\ DOMAIN work' = Requests
       /\ DOMAIN work'[p] = DOMAIN work[p] \cup {key}
       /\ work'[p][key] = image
       /\ \A l \in DOMAIN work[p] : l # key => work'[p][l] = work[p][l]
  BY <1>1, <1>12, LockFacts
<1>14. /\ Ordered(p)' /\ AtRest(p)' /\ todo'[p] \in Seq(Statements)
       /\ \A l \in 1..Len(todo'[p]) : todo'[p][l].do # "write"
  BY <1>1, <1>4, OrderedDone
<1>7. Once(p)'
  BY <1>1, <1>4, <1>11, <1>13, OnceDone
<1>8. Imaged(p)'
  <2>1. Shaped(image)'
    BY <1>1 DEF Shaped
  <2>2. /\ image.group = record'[i].group /\ key \in touch'[p].rows
        /\ Linked(image) \subseteq touch'[p].links \cup raced'
    BY <1>1, <1>10, <1>11
  <2>3. GoodImage(p, key, image)'
    BY <1>11, <2>1, <2>2, Zenon DEF GoodImage
  <2> QED
    BY <1>13, <2>3, ImagedLocked
<1>9. Balanced(p)'
  <2> SUFFICES ASSUME NEW e \in Entities \ raced, status[e] = "live"
               PROVE  Own(p, e)' + Due(p, e)' = balance[e] + Kept(p, e)'
    BY <1>1, Unmoved DEF Balanced
  <2>1. /\ Due(p, e)' \in Int /\ Weigh(p, s, e) \in Int
        /\ Due(p, e) = Weigh(p, s, e) + Due(p, e)'
    BY <1>1, <1>4, <1>14, DueDone
  <2>3. Kept(p, e)' = Kept(p, e) + (Collected(image, e) - Collected(record[i], e))
    <3>1. \A l \in DOMAIN work[p] : work'[p][l] = work[p][l]
      BY <1>10, <1>11, <1>13
    <3>2. work'[p][Row(i)] = image /\ DOMAIN work'[p] = DOMAIN work[p] \cup {Row(i)}
      BY <1>11, <1>13
    <3> QED
      BY <1>1, <1>10, <3>1, <3>2, KeptRowLocked
  <2>4. Weigh(p, s, e) = Collected(record[i], e) - Collected(image, e)
    OBVIOUS
  <2>5. Own(p, e)' = Own(p, e) /\ Own(p, e) \in Int
    <3>1. Entity(e) # key
      BY <1>11, Keys
    <3> QED
      BY <1>1, <1>13, <3>1, OwnStays, FigureType
  <2>6. Own(p, e) + Due(p, e) = balance[e] + Kept(p, e)
    BY <1>1 DEF Balanced
  <2>7. /\ Kept(p, e) \in Int /\ balance[e] \in Int
        /\ Collected(image, e) \in Int /\ Collected(record[i], e) \in Int
    BY <1>1, KeptParts, DraftCollected, RecordDraft, RaceTypeParts
  <2> HIDE DEF s
  <2> QED
    BY <2>1, <2>3, <2>4, <2>5, <2>6, <2>7
<1> QED
  BY <1>1, <1>4, <1>7, <1>8, <1>9, <1>13, <1>14, ExecuteKeeps

\* A deleted row contributes to no balance.
LEMMA DeletedImage ==
  ASSUME RaceTypes, NEW i \in Ids
  PROVE  /\ Unread("deleted", record[i].group) \in Record
         /\ Unread("deleted", record[i].group).state = "deleted"
         /\ Unread("deleted", record[i].group).group = record[i].group
         /\ Linked(Unread("deleted", record[i].group)) = {}
         /\ Shaped(Unread("deleted", record[i].group))
         /\ \A e : Collected(Unread("deleted", record[i].group), e) = 0
<1>1. record[i].group \in 0..MaxRecords
  BY RaceTypeParts DEF Record
<1>2. Unread("deleted", record[i].group) \in Record
  BY <1>1, UnreadType DEF States
<1>3. None \notin Entities
  BY LedgerAssumption, Zenon
<1> QED
  BY <1>2, <1>3 DEF Unread, Linked, Collected, Shaped

\* Deletion of a record.
LEMMA DropKeeps ==
  ASSUME RaceInv, NEW p \in Requests, Executing(p), Drops(p, Head(todo[p]))
  PROVE  RaceInv'
<1> DEFINE s == Head(todo[p])
<1>1. /\ RaceTypes /\ Once(p) /\ Ordered(p) /\ s \in Statements /\ todo[p] # << >>
  BY Starting DEF Executing
<1>2. s.do = "drop" /\ Done(p) /\ new' = new /\ newPay' = newPay
      /\ Lock(p, Row(s.id), Unread("deleted", OwnRecord(p, s.id).group))
  BY DEF Drops
<1>3. PICK i \in Ids : i = s.id
  BY <1>1, <1>2, StatementParts
<1>4. Pending(s) = {Row(i)}
  BY <1>2, <1>3 DEF Pending
<1>5. Row(i) \notin DOMAIN work[p]
  BY <1>1, <1>4, HeadPending
<1>6. OwnRecord(p, i) = record[i]
  BY <1>5 DEF OwnRecord
<1>7. PICK image \in Record : image = Unread("deleted", record[i].group)
  BY <1>1, DeletedImage
<1>8. /\ image.state = "deleted" /\ image.group = record[i].group /\ Linked(image) = {} /\ Shaped(image)
      /\ \A e : Collected(image, e) = 0
  BY <1>1, <1>7, DeletedImage
<1>9. Lock(p, Row(i), image)
  BY <1>2, <1>3, <1>6, <1>7
<1>10. ASSUME NEW e \in Entities \ raced
       PROVE  Weigh(p, s, e) = Collected(record[i], e) - Collected(image, e)
  <2>1. Weigh(p, s, e) = Collected(record[i], e)
    BY <1>2, <1>3 DEF Weigh
  <2>2. Collected(record[i], e) \in Int
    BY <1>1, RaceTypeParts, DraftCollected
  <2> QED
    BY <1>8, <2>1, <2>2
<1>11. s.do # "pay" /\ image.state \in {"live", "deleted"} /\ image.state # "live"
       /\ Linked(image) \subseteq touch[p].links \cup raced
  BY <1>2, <1>8
<1> QED
  BY <1>2, <1>4, <1>8, <1>9, <1>10, <1>11, RowLocked

\* Two rows with the same columns.
LEMMA SameRow ==
  ASSUME NEW r \in Record, NEW t \in Record, \A c \in DOMAIN r : r[c] = t[c]
  PROVE  r = t
BY DEF Record

\* A row put together from the columns of two.
LEMMA MixedRow ==
  ASSUME NEW r \in Record, NEW old \in Record, NEW C
  PROVE  LET row == [c \in DOMAIN old |-> IF c \in C THEN r[c] ELSE old[c]]
         IN  /\ row \in Record
             /\ DOMAIN old = DOMAIN r
             /\ \A c \in DOMAIN r : row[c] = IF c \in C THEN r[c] ELSE old[c]
<1> DEFINE row == [c \in DOMAIN old |-> IF c \in C THEN r[c] ELSE old[c]]
           columns == {"state", "type", "amount", "objective", "patrimony", "origin",
                       "destination", "group", "description", "category", "status", "company"}
<1>1. DOMAIN old = columns /\ DOMAIN r = columns
  BY DEF Record
<1>2. row \in Record
  BY DEF Record
<1> QED
  BY <1>1, <1>2

\* The rows a request works on are linked to what it touches.
LEMMA TracedRow ==
  ASSUME NEW p, Traced(p), NEW i, Row(i) \in touch[p].rows
  PROVE  Linked(record[i]) \subseteq touch[p].links \cup raced /\ i < next
BY Keys DEF Traced

\* The image an update leaves of a row.
Mixed(r, old, C) == [c \in DOMAIN old |-> IF c \in C THEN r[c] ELSE old[c]]
AfterUpdate(s, old) ==
  IF Mixed(s.row, old, s.columns).state = "live"
  THEN Mixed(s.row, old, s.columns)
  ELSE Unread("deleted", Mixed(s.row, old, s.columns).group)

\* What an update leaves of a row contributes to every balance not in raced what the
\* request meant it to, whatever was committed since the request read the row.
LEMMA UpdateImage ==
  ASSUME RaceTypes, Files, NEW p \in Requests, Traced(p), NEW i \in Ids,
         Row(i) \in touch[p].rows, NEW s, s.do = "update", s.id = i, Fit(p, s),
         NEW image, image = AfterUpdate(s, record[i])
  PROVE  /\ image \in Record /\ image.state \in {"live", "deleted"}
         /\ image.group = record[i].group
         /\ Linked(image) \subseteq touch[p].links \cup raced
         /\ Shaped(image)
         /\ \A e \in Entities \ raced : Collected(image, e) = Collected(s.row, e)
<1>1. /\ s \in Statements /\ s.row.state = "live" /\ s.row.group = record[i].group
      /\ Linked(s.row) \subseteq touch[p].links /\ Shaped(s.row)
      /\ \/ touch[p].links \subseteq raced
         \/ \A c \in DOMAIN s.row \ s.columns : record[i][c] = s.row[c]
      /\ "state" \in s.columns /\ s.row.type # "expense" => "type" \in s.columns
  BY DEF Fit
<1>2. PICK r \in Record : r = s.row
  BY <1>1, StatementParts
<1>3. PICK old \in Record : old = record[i]
  BY RaceTypeParts
<1>4. PICK C : C = s.columns
  OBVIOUS
<1>5. PICK mix \in Record : mix = Mixed(r, old, C)
  <2>1. Mixed(r, old, C) \in Record
    BY MixedRow DEF Mixed
  <2> QED
    BY <2>1
<1>6. DOMAIN old = DOMAIN r /\ \A c \in DOMAIN r : mix[c] = IF c \in C THEN r[c] ELSE old[c]
  BY <1>5, MixedRow DEF Mixed
<1>7. image = IF mix.state = "live" THEN mix ELSE Unread("deleted", mix.group)
  BY <1>2, <1>3, <1>4, <1>5 DEF AfterUpdate
<1>8. /\ mix.state = IF "state" \in C THEN r.state ELSE old.state
      /\ mix.type = IF "type" \in C THEN r.type ELSE old.type
      /\ mix.group = IF "group" \in C THEN r.group ELSE old.group
      /\ mix.origin = IF "origin" \in C THEN r.origin ELSE old.origin
      /\ mix.destination = IF "destination" \in C THEN r.destination ELSE old.destination
      /\ mix.objective = IF "objective" \in C THEN r.objective ELSE old.objective
      /\ mix.patrimony = IF "patrimony" \in C THEN r.patrimony ELSE old.patrimony
  BY <1>6 DEF Record
<1>9. mix.group = old.group /\ r.group = old.group /\ r.state = "live"
  BY <1>1, <1>2, <1>3, <1>8
<1>10. Linked(mix) \subseteq Linked(r) \cup Linked(old)
  BY <1>8 DEF Linked
<1>11. Linked(old) \subseteq touch[p].links \cup raced /\ Linked(r) \subseteq touch[p].links
  BY <1>1, <1>2, <1>3, TracedRow
<1>12. CASE mix.state # "live"
  <2>1. image = Unread("deleted", record[i].group)
    BY <1>3, <1>7, <1>9, <1>12
  <2>2. touch[p].links \subseteq raced
    <3>1. CASE \A c \in DOMAIN r \ C : old[c] = r[c]
      <4>1. "state" \in DOMAIN r
        BY DEF Record
      <4> QED
        BY <1>8, <1>9, <1>12, <3>1, <4>1
    <3> QED
      BY <1>1, <1>2, <1>3, <1>4, <3>1
  <2>3. \A e \in Entities \ raced : Collected(s.row, e) = 0
    BY <1>2, <1>11, <2>2, DraftCollected, RecordDraft
  <2> QED
    BY <2>1, <2>3, DeletedImage
<1>13. CASE mix.state = "live"
  <2>1. image = mix
    BY <1>7, <1>13
  <2>2. CASE \A c \in DOMAIN r \ C : old[c] = r[c]
    <3>1. \A c \in DOMAIN mix : mix[c] = r[c]
      BY <1>6, <2>2 DEF Record
    <3>2. mix = r
      BY <3>1, SameRow
    <3>3. image = s.row
      BY <1>2, <2>1, <3>2
    <3> QED
      BY <1>1, <1>2, <3>3
  <2>3. CASE touch[p].links \subseteq raced
    <3>1. \A e \in Entities \ raced : Collected(mix, e) = 0 /\ Collected(s.row, e) = 0
      BY <1>2, <1>10, <1>11, <2>3, DraftCollected, RecordDraft
    <3>2. Linked(mix) \subseteq raced
      BY <1>10, <1>11, <2>3
    <3>3. mix.patrimony \in raced \cup {None}
      <4>1. mix.patrimony \in Entities \cup {None}
        BY DEF Record, PatrimonyOrNone, Entities
      <4> QED
        BY <3>2, <4>1 DEF Linked
    <3>4. mix.group # 0 => mix.type = "transfer"
      <4> SUFFICES ASSUME mix.group # 0 PROVE mix.type = "transfer"
        OBVIOUS
      <4>1. r.type = "transfer"
        BY <1>1, <1>2, <1>9 DEF Shaped
      <4>2. CASE "state" \in C
        BY <1>1, <1>2, <1>4, <1>8, <4>1, <4>2
      <4>3. CASE "state" \notin C
        <5>1. old.state = "live"
          BY <1>8, <1>13, <4>3
        <5>2. old.type = "transfer"
          BY <1>3, <1>9, <5>1 DEF Files, Shaped
        <5> QED
          BY <1>8, <4>1, <5>2
      <4> QED
        BY <4>2, <4>3
    <3>5. Shaped(mix)
      BY <1>13, <3>3, <3>4 DEF Shaped
    <3> QED
      BY <1>3, <1>9, <1>13, <2>1, <3>1, <3>2, <3>5
  <2> QED
    BY <1>1, <1>2, <1>3, <1>4, <2>2, <2>3
<1> QED
  BY <1>12, <1>13

\* UPDATE of a record.
LEMMA UpdateKeeps ==
  ASSUME RaceInv, NEW p \in Requests, Executing(p), Updates(p, Head(todo[p]))
  PROVE  RaceInv'
<1> DEFINE s == Head(todo[p])
<1>1. /\ RaceTypes /\ Once(p) /\ Ordered(p) /\ s \in Statements /\ todo[p] # << >>
      /\ Fit(p, s) /\ Traced(p) /\ Files
  BY Starting DEF Executing, RaceInv
<1>2. /\ s.do = "update" /\ Done(p) /\ new' = new /\ newPay' = newPay
      /\ LET old == OwnRecord(p, s.id)
             row == [c \in DOMAIN old |-> IF c \in s.columns THEN s.row[c] ELSE old[c]]
         IN  Lock(p, Row(s.id), IF row.state = "live" THEN row ELSE Unread("deleted", row.group))
  BY DEF Updates
<1>3. PICK i \in Ids : i = s.id
  BY <1>1, <1>2, StatementParts
<1>4. Pending(s) = {Row(i)}
  BY <1>2, <1>3 DEF Pending
<1>5. Row(i) \notin DOMAIN work[p] /\ Row(i) \in touch[p].rows
  BY <1>1, <1>4, HeadPending
<1>6. OwnRecord(p, i) = record[i]
  BY <1>5, SMTT(30) DEF OwnRecord
<1>8. Lock(p, Row(i), AfterUpdate(s, record[i]))
  BY <1>2, <1>3, <1>6 DEF AfterUpdate, Mixed
<1>12. PICK image : image = AfterUpdate(s, record[i])
  OBVIOUS
<1>7. /\ image \in Record /\ image.state \in {"live", "deleted"}
      /\ image.group = record[i].group
      /\ Linked(image) \subseteq touch[p].links \cup raced
      /\ Shaped(image)
      /\ \A e \in Entities \ raced : Collected(image, e) = Collected(s.row, e)
  <2> HIDE DEF s
  <2> QED
    BY <1>1, <1>2, <1>3, <1>5, <1>12, UpdateImage
<1>10. ASSUME NEW e \in Entities \ raced
       PROVE  Weigh(p, s, e) = Collected(record[i], e) - Collected(image, e)
  <2>1. Weigh(p, s, e) = Collected(record[i], e) - Collected(s.row, e)
    BY <1>2, <1>3 DEF Weigh
  <2> QED
    BY <1>7, <2>1
<1>11. /\ s.do # "pay" /\ image.state \in {"live", "deleted"}
       /\ image.group = record[i].group
       /\ Linked(image) \subseteq touch[p].links \cup raced
       /\ Shaped(image)
       /\ Lock(p, Row(i), image)
  BY <1>2, <1>7, <1>8, <1>12
<1> QED
  BY <1>2, <1>4, <1>7, <1>10, <1>11, RowLocked

\* The update that follows a save.
LEMMA CompareFit ==
  ASSUME RaceTypes, Files, NEW p \in Requests, NEW s, s.do = "save", Fit(p, s),
         NEW C, C = s.stated \cup {c \in DOMAIN s.row : s.row[c] # record[s.id][c]},
         NEW x, x = [do |-> "update", id |-> s.id, row |-> s.row, columns |-> C]
  PROVE  /\ x \in Statements /\ Fit(p, x)
         /\ C = {} => s.row = record[s.id]
<1>1. /\ s \in Statements /\ s.row.state = "live" /\ s.row.group = record[s.id].group
      /\ Linked(s.row) \subseteq touch[p].links /\ Shaped(s.row)
      /\ Pending(s) \subseteq touch[p].rows
  BY DEF Fit
<1>2. PICK r \in Record, i \in Ids : r = s.row /\ i = s.id
  BY <1>1, StatementParts
<1>3. PICK old \in Record : old = record[i]
  BY RaceTypeParts
<1>4. s.stated \subseteq {"amount"}
  BY <1>1, StatementParts
<1>5. /\ x.do = "update" /\ x.id = i /\ x.row = r /\ x.columns = C
      /\ x = [do |-> "update", id |-> i, row |-> r, columns |-> C]
  BY <1>2
<1>6. C = s.stated \cup {c \in DOMAIN r : r[c] # old[c]}
  BY <1>2, <1>3
<1>7. C \subseteq Columns
  <2>1. DOMAIN r \subseteq Columns
    BY DEF Record, Columns
  <2>2. "amount" \in Columns
    BY DEF Columns
  <2> QED
    BY <1>4, <1>6, <2>1, <2>2
<1>8. x \in Statements
  BY <1>5, <1>7 DEF Statements
<1>9. Pending(x) = {Row(i)} /\ Pending(s) = {Row(i)} /\ ChangesOf(x) = {}
  BY <1>2, <1>5 DEF Pending, ChangesOf
<1>10. \A c \in DOMAIN r \ C : old[c] = r[c]
  BY <1>6
<1>11. "state" \in C /\ r.type # "expense" => "type" \in C
  <2> SUFFICES ASSUME "state" \in C, r.type # "expense" PROVE "type" \in C
    OBVIOUS
  <2>1. r.state # old.state
    BY <1>4, <1>6
  <2>2. old.state # "live"
    BY <1>1, <1>2, <2>1
  <2>3. old.type = "expense"
    BY <1>3, <2>2 DEF Files, Shaped
  <2>4. "type" \in DOMAIN r
    BY DEF Record
  <2> QED
    BY <1>6, <2>3, <2>4
<1>12. Fit(p, x)
  <2>1. x.do # "insert" /\ x.do # "pay"
    BY <1>5
  <2>2. /\ x.row.state = "live" /\ x.row.group = record[x.id].group
        /\ Linked(x.row) \subseteq touch[p].links
        /\ Shaped(x.row)
    BY <1>1, <1>2, <1>5
  <2>3. /\ \A c \in DOMAIN x.row \ x.columns : record[x.id][c] = x.row[c]
        /\ "state" \in x.columns /\ x.row.type # "expense" => "type" \in x.columns
    BY <1>3, <1>5, <1>10, <1>11
  <2>4. Pending(x) \subseteq touch[p].rows /\ ChangesOf(x) \subseteq touch[p].changes
    BY <1>1, <1>9
  <2> QED
    BY <1>8, <2>1, <2>2, <2>3, <2>4 DEF Fit
<1>13. ASSUME C = {} PROVE s.row = record[s.id]
  <2>1. \A c \in DOMAIN r : r[c] = old[c]
    BY <1>6, <1>13
  <2>2. r = old
    BY <2>1, SameRow
  <2> QED
    BY <1>2, <1>3, <2>2
<1> QED
  BY <1>8, <1>12, <1>13

\* The SELECT of a save, which turns it into an update or into nothing.
LEMMA CompareKeeps ==
  ASSUME RaceInv, NEW p \in Requests, Executing(p), Compares(p, Head(todo[p]))
  PROVE  RaceInv'
<1> DEFINE s == Head(todo[p])
<1>1. /\ RaceTypes /\ DOMAIN todo = Requests /\ DOMAIN work = Requests /\ Files
      /\ Balanced(p) /\ Once(p) /\ Ordered(p) /\ Imaged(p)
      /\ s \in Statements /\ new \in [Requests -> Seq(Draft)] /\ Fit(p, s)
      /\ newPay \in [Requests -> Seq(Payment)]
      /\ todo[p] # << >> /\ s.do # "commit" /\ UNCHANGED vars
      /\ record' = record /\ touch' = touch /\ raced' = raced
  BY Starting, Unmoved DEF Executing, RaceInv
<1>2. /\ s.do = "save" /\ work' = work /\ new' = new /\ newPay' = newPay
      /\ LET columns == s.stated \cup {c \in DOMAIN s.row : s.row[c] # OwnRecord(p, s.id)[c]}
         IN  IF columns = {} THEN Done(p)
             ELSE Replace(p, [do |-> "update", id |-> s.id, row |-> s.row,
                              columns |-> columns])
  BY DEF Compares
<1>3. PICK i \in Ids : i = s.id
  BY <1>1, <1>2, StatementParts
<1>4. Pending(s) = {Row(i)}
  BY <1>2, <1>3 DEF Pending
<1>5. OwnRecord(p, s.id) = record[s.id]
  <2>1. Row(i) \notin DOMAIN work[p]
    BY <1>1, <1>4, HeadPending
  <2> QED
    BY <1>3, <2>1 DEF OwnRecord
<1>6. PICK C : C = s.stated \cup {c \in DOMAIN s.row : s.row[c] # record[s.id][c]}
  OBVIOUS
<1>7. PICK x : x = [do |-> "update", id |-> s.id, row |-> s.row, columns |-> C]
  OBVIOUS
<1>8. x \in Statements /\ Fit(p, x) /\ (C = {} => s.row = record[s.id])
  BY <1>1, <1>2, <1>6, <1>7, CompareFit
<1>9. IF C = {} THEN Done(p) ELSE Replace(p, x)
  BY <1>2, <1>5, <1>6, <1>7
<1>10. \A e \in Entities : Weigh(p, s, e) = Collected(record[i], e) - Collected(s.row, e)
  BY <1>2, <1>3 DEF Weigh
<1>11. Imaged(p)'
  BY <1>2, ImagedStays
<1>12. ASSUME NEW e \in Entities
       PROVE  /\ Own(p, e)' = Own(p, e) /\ Kept(p, e)' = Kept(p, e)
              /\ Collected(record[i], e) \in Int
  BY <1>1, <1>2, OwnStays, KeptStays, RaceTypeParts, DraftCollected
<1>13. CASE C = {}
  <2>1. DOMAIN todo' = Requests /\ todo'[p] = Tail(todo[p])
    BY <1>1, <1>9, <1>13, DoneFacts
  <2>2. Ordered(p)' /\ AtRest(p)' /\ todo'[p] \in Seq(Statements)
    BY <1>1, <2>1, OrderedDone
  <2>3. Once(p)'
    BY <1>1, <1>2, <2>1, OnceDone
  <2>4. Balanced(p)'
    <3> SUFFICES ASSUME NEW e \in Entities \ raced, status[e] = "live"
                 PROVE  Own(p, e)' + Due(p, e)' = balance[e] + Kept(p, e)'
      BY <1>1, Unmoved DEF Balanced
    <3>1. /\ Due(p, e)' \in Int /\ Weigh(p, s, e) \in Int
          /\ Due(p, e) = Weigh(p, s, e) + Due(p, e)'
      BY <1>1, <1>2, <2>1, DueDone
    <3>2. Weigh(p, s, e) = 0
      BY <1>3, <1>8, <1>10, <1>12, <1>13
    <3>3. Own(p, e) + Due(p, e) = balance[e] + Kept(p, e)
      BY <1>1 DEF Balanced
    <3>4. Due(p, e)' = Due(p, e)
      <4> HIDE DEF s
      <4> QED
        BY <3>1, <3>2
    <3> QED
      BY <1>12, <3>3, <3>4
  <2> QED
    BY <1>1, <1>2, <1>11, <2>1, <2>2, <2>3, <2>4, ExecuteKeeps
<1>14. CASE C # {}
  <2>1. DOMAIN todo' = Requests /\ todo'[p] = Before(x, Tail(todo[p]))
    BY <1>1, <1>9, <1>14, ReplaceFacts
  <2>2. x.do = "update" /\ x.id = i /\ x.row = s.row
    BY <1>3, <1>7
  <2>3. Ordered(p)' /\ AtRest(p)' /\ todo'[p] \in Seq(Statements)
    BY <1>1, <1>2, <1>8, <2>1, <2>2, OrderedReplaced
  <2>4. Pending(x) = Pending(s)
    BY <1>4, <2>2 DEF Pending
  <2>5. Once(p)'
    BY <1>1, <1>2, <1>8, <2>1, <2>4, OnceReplaced
  <2>6. Balanced(p)'
    <3> SUFFICES ASSUME NEW e \in Entities \ raced, status[e] = "live"
                 PROVE  Own(p, e)' + Due(p, e)' = balance[e] + Kept(p, e)'
      BY <1>1, Unmoved DEF Balanced
    <3>1. Weigh(p, x, e) = Weigh(p, s, e)
      BY <1>10, <2>2 DEF Weigh
    <3>2. Due(p, e)' = Due(p, e)
      BY <1>1, <1>2, <1>8, <2>1, <3>1, DueReplaced
    <3> QED
      BY <1>1, <1>12, <3>2 DEF Balanced
  <2> QED
    BY <1>1, <1>2, <1>11, <2>1, <2>3, <2>5, <2>6, ExecuteKeeps
<1> QED
  BY <1>13, <1>14

\* The read of applyToEntity: the balance it will write is the one it reads and the
\* adjustment.
LEMMA ReadKeeps ==
  ASSUME RaceInv, NEW p \in Requests, Executing(p), Reads(p, Head(todo[p]))
  PROVE  RaceInv'
<1> DEFINE s == Head(todo[p])
<1>1. /\ RaceTypes /\ DOMAIN todo = Requests /\ DOMAIN work = Requests
      /\ Balanced(p) /\ Once(p) /\ Ordered(p) /\ Imaged(p)
      /\ s \in Statements /\ new \in [Requests -> Seq(Draft)] /\ Fit(p, s)
      /\ newPay \in [Requests -> Seq(Payment)]
      /\ todo[p] # << >> /\ s.do # "commit" /\ UNCHANGED vars
      /\ record' = record /\ touch' = touch /\ raced' = raced
  BY Starting, Unmoved DEF Executing
<1>2. /\ s.do = "adjust" /\ work' = work /\ new' = new /\ newPay' = newPay
      /\ LET total == OwnFigure(p, s.on).balance + s.by
         IN  IF status[s.on] = "live"
             THEN Replace(p, Write(s.on, Figure(total, Reached(s.on, total), FALSE), TRUE))
             ELSE Done(p)
  BY DEF Reads
<1>3. PICK on \in Entities, by \in Int : on = s.on /\ by = s.by
  BY <1>1, <1>2, StatementParts
<1>4. Pending(s) = {} /\ ChangesOf(s) = {on} /\ on \in touch[p].changes
  <2>1. Pending(s) = {} /\ ChangesOf(s) = {on}
    BY <1>2, <1>3 DEF Pending, ChangesOf
  <2> QED
    BY <1>1, <2>1 DEF Fit
<1>5. OwnFigure(p, on) \in Figures /\ Own(p, on) = OwnFigure(p, on).balance /\ Own(p, on) \in Int
  BY <1>1, NoHand, FigureType
<1>6. PICK total \in Int : total = Own(p, on) + by
  BY <1>5
<1>7. PICK reached \in BOOLEAN : reached = Reached(on, total)
  <2>1. Reached(on, total) \in BOOLEAN
    BY Zenon DEF Reached
  <2> QED
    BY <2>1
<1>8. PICK x : x = Write(on, Figure(total, reached, FALSE), TRUE)
  OBVIOUS
<1>9. IF status[on] = "live" THEN Replace(p, x) ELSE Done(p)
  BY <1>2, <1>3, <1>5, <1>6, <1>7, <1>8
<1>10. /\ x.do = "write" /\ x.on = on /\ x.figure.balance = total /\ x.figure.byHand = FALSE
       /\ x \in Statements
  <2>1. Figure(total, reached, FALSE) \in Figures
    BY DEF Figure, Figures
  <2>2. x \in Statements
    BY <1>8, <2>1, StatementKinds
  <2> QED
    BY <1>8, <2>2 DEF Write, Figure
<1>11. \A e \in Entities : Weigh(p, s, e) = IF on = e THEN by ELSE 0
  BY <1>2, <1>3 DEF Weigh
<1>12. ASSUME NEW e \in Entities
       PROVE  Own(p, e)' = Own(p, e) /\ Kept(p, e)' = Kept(p, e)
  BY <1>1, <1>2, OwnStays, KeptStays
<1>13. Imaged(p)'
  BY <1>2, ImagedStays
<1>14. CASE status[on] = "live"
  <2>1. DOMAIN todo' = Requests /\ todo'[p] = Before(x, Tail(todo[p]))
    BY <1>1, <1>9, <1>14, ReplaceFacts
  <2>2. Pending(x) = {} /\ ChangesOf(x) = {on}
    BY <1>10 DEF Pending, ChangesOf
  <2>3. Fit(p, x)
    BY <1>4, <1>10, <2>2 DEF Fit
  <2>4. Ordered(p)' /\ AtRest(p)' /\ todo'[p] \in Seq(Statements)
    BY <1>1, <1>2, <1>10, <2>1, <2>3, OrderedReplaced
  <2>5. Once(p)'
    BY <1>1, <1>2, <1>4, <1>10, <2>1, <2>2, OnceReplaced
  <2>6. Balanced(p)'
    <3> SUFFICES ASSUME NEW e \in Entities \ raced, status[e] = "live"
                 PROVE  Own(p, e)' + Due(p, e)' = balance[e] + Kept(p, e)'
      BY <1>1, Unmoved DEF Balanced
    <3>1. Weigh(p, x, e) = IF on = e THEN total - Own(p, e) ELSE 0
      BY <1>10 DEF Weigh
    <3>2. Weigh(p, x, e) = Weigh(p, s, e)
      BY <1>5, <1>6, <1>11, <3>1
    <3>3. Due(p, e)' = Due(p, e)
      BY <1>1, <1>2, <1>10, <2>1, <3>2, DueReplaced
    <3> QED
      BY <1>1, <1>12, <3>3 DEF Balanced
  <2> QED
    BY <1>1, <1>2, <1>13, <2>1, <2>4, <2>5, <2>6, ExecuteKeeps
<1>15. CASE status[on] # "live"
  <2>1. DOMAIN todo' = Requests /\ todo'[p] = Tail(todo[p])
    BY <1>1, <1>9, <1>15, DoneFacts
  <2>2. Ordered(p)' /\ AtRest(p)' /\ todo'[p] \in Seq(Statements)
    BY <1>1, <2>1, OrderedDone
  <2>3. Once(p)'
    BY <1>1, <1>2, <2>1, OnceDone
  <2>4. Balanced(p)'
    <3> SUFFICES ASSUME NEW e \in Entities \ raced, status[e] = "live"
                 PROVE  Own(p, e)' + Due(p, e)' = balance[e] + Kept(p, e)'
      BY <1>1, Unmoved DEF Balanced
    <3>1. /\ Due(p, e)' \in Int /\ Weigh(p, s, e) \in Int
          /\ Due(p, e) = Weigh(p, s, e) + Due(p, e)'
      BY <1>1, <1>2, <2>1, DueDone
    <3>2. Weigh(p, s, e) = 0
      BY <1>11, <1>15
    <3>4. Due(p, e)' = Due(p, e)
      <4> HIDE DEF s
      <4> QED
        BY <3>1, <3>2
    <3> QED
      BY <1>1, <1>12, <3>4 DEF Balanced
  <2> QED
    BY <1>1, <1>2, <1>13, <2>1, <2>2, <2>3, <2>4, ExecuteKeeps
<1> QED
  BY <1>14, <1>15

\* The write of a balance.
LEMMA WriteKeeps ==
  ASSUME RaceInv, NEW p \in Requests, Executing(p), Writes(p, Head(todo[p]))
  PROVE  RaceInv'
<1> DEFINE s == Head(todo[p])
<1>1. /\ RaceTypes /\ DOMAIN todo = Requests /\ DOMAIN work = Requests
      /\ Balanced(p) /\ Once(p) /\ Ordered(p) /\ Imaged(p)
      /\ s \in Statements /\ new \in [Requests -> Seq(Draft)] /\ Fit(p, s)
      /\ newPay \in [Requests -> Seq(Payment)]
      /\ todo[p] # << >> /\ s.do # "commit" /\ UNCHANGED vars
      /\ record' = record /\ touch' = touch /\ raced' = raced
  BY Starting, Unmoved DEF Executing
<1>2. /\ s.do = "write" /\ Done(p) /\ new' = new /\ newPay' = newPay
      /\ IF Needs(p) = {} THEN UNCHANGED work ELSE Lock(p, Entity(s.on), s.figure)
  BY DEF Writes
<1>3. PICK on \in Entities, figure \in Figures : on = s.on /\ figure = s.figure
  BY <1>1, <1>2, StatementParts
<1>4. Pending(s) = {} /\ on \in touch[p].changes
  <2>1. Pending(s) = {} /\ ChangesOf(s) = {on}
    BY <1>2, <1>3 DEF Pending, ChangesOf
  <2> QED
    BY <1>1, <2>1 DEF Fit
<1>5. DOMAIN todo' = Requests /\ todo'[p] = Tail(todo[p])
  BY <1>1, <1>2, DoneFacts
<1>6. /\ Ordered(p)' /\ AtRest(p)' /\ todo'[p] \in Seq(Statements)
      /\ \A l \in 1..Len(todo'[p]) : todo'[p][l].do # "write"
  BY <1>1, <1>2, <1>5, OrderedDone
<1>7. figure.byHand =>
        Len(todo[p]) = 2 /\ work[p] = NoWork /\ new[p] = << >> /\ newPay[p] = << >>
  <2>1. s = todo[p][1] /\ 1 \in 1..Len(todo[p])
    BY <1>1, HeadFacts
  <2> QED
    BY <1>1, <1>2, <1>3, <2>1 DEF Ordered
<1>8. \A e \in Entities :
        Weigh(p, s, e) = IF on = e /\ ~ figure.byHand THEN figure.balance - Own(p, e) ELSE 0
  BY <1>2, <1>3 DEF Weigh
<1>9. figure.balance \in Int /\ figure.byHand \in BOOLEAN
  BY DEF Figures
<1>10. CASE Needs(p) = {}
  <2>1. OwnFigure(p, on) = figure
    <3>1. Needs(p) = IF ~ s.counted /\ OwnFigure(p, s.on) = s.figure THEN {} ELSE {Entity(s.on)}
      BY <1>1, <1>2 DEF Needs, Running
    <3> QED
      BY <1>3, <1>10, <3>1
  <2>2. work' = work
    BY <1>2, <1>10
  <2>3. Once(p)'
    BY <1>1, <1>5, <2>2, OnceDone
  <2>4. Imaged(p)'
    BY <2>2, ImagedStays
  <2>5. Own(p, on) = figure.balance
    BY <1>1, <2>1, NoHand
  <2>6. Balanced(p)'
    <3> SUFFICES ASSUME NEW e \in Entities \ raced, status[e] = "live"
                 PROVE  Own(p, e)' + Due(p, e)' = balance[e] + Kept(p, e)'
      BY <1>1, Unmoved DEF Balanced
    <3>1. /\ Due(p, e)' \in Int /\ Weigh(p, s, e) \in Int
          /\ Due(p, e) = Weigh(p, s, e) + Due(p, e)'
      BY <1>1, <1>5, <2>2, DueDone
    <3>2. Weigh(p, s, e) = 0
      BY <1>8, <1>9, <2>5
    <3>4. Due(p, e)' = Due(p, e)
      <4> HIDE DEF s
      <4> QED
        BY <3>1, <3>2
    <3>5. Own(p, e)' = Own(p, e) /\ Kept(p, e)' = Kept(p, e)
      BY <1>1, <1>2, <2>2, OwnStays, KeptStays
    <3> QED
      BY <1>1, <3>4, <3>5 DEF Balanced
  <2> QED
    BY <1>1, <1>2, <1>5, <1>6, <2>2, <2>3, <2>4, <2>6, ExecuteKeeps
<1>11. CASE Needs(p) # {}
  <2>1. PICK key : key = Entity(on)
    OBVIOUS
  <2>2. Lock(p, key, figure)
    BY <1>2, <1>3, <1>11, <2>1
  <2>3. /\ DOMAIN work' = Requests
        /\ DOMAIN work'[p] = DOMAIN work[p] \cup {key}
        /\ work'[p][key] = figure
        /\ \A l \in DOMAIN work[p] : l # key => work'[p][l] = work[p][l]
    BY <1>1, <2>2, LockFacts
  <2>4. (\A i : Row(i) # key) /\ (\A k : Abono(k) # key) /\ \A e : Entity(e) = key => e = on
    BY <2>1, Keys
  <2>5. Once(p)'
    <3>1. \A r \in touch[p].rows : r # key
      BY <1>1, <2>4, Starting DEF Traced
    <3> QED
      BY <1>1, <1>5, <2>3, <3>1, OnceDone
  <2>6. Imaged(p)'
    <3>1. figure.byHand =>
            Len(todo'[p]) = 1 /\ DOMAIN work'[p] = {key} /\ new'[p] = << >> /\ newPay'[p] = << >>
      <4> SUFFICES ASSUME figure.byHand
                   PROVE  Len(todo'[p]) = 1 /\ DOMAIN work'[p] = {key}
                            /\ new'[p] = << >> /\ newPay'[p] = << >>
        OBVIOUS
      <4>1. Len(todo'[p]) = Len(todo[p]) - 1
        BY <1>1, <1>5, HeadFacts
      <4>2. DOMAIN work[p] = {}
        BY <1>7 DEF NoWork
      <4>3. Len(todo[p]) = 2 /\ new[p] = << >> /\ newPay[p] = << >>
        BY <1>7
      <4> QED
        BY <1>2, <2>3, <4>1, <4>2, <4>3
    <3>2. GoodImage(p, key, figure)'
      BY <1>1, <1>4, <2>1, <3>1 DEF GoodImage
    <3> QED
      BY <2>3, <3>2, ImagedLocked
  <2>7. Balanced(p)'
    <3> SUFFICES ASSUME NEW e \in Entities \ raced, status[e] = "live"
                 PROVE  Own(p, e)' + Due(p, e)' = balance[e] + Kept(p, e)'
      BY <1>1, Unmoved DEF Balanced
    <3>1. /\ Due(p, e)' \in Int /\ Weigh(p, s, e) \in Int
          /\ Due(p, e) = Weigh(p, s, e) + Due(p, e)'
      BY <1>1, <1>5, <1>6, DueDone
    <3>2. Kept(p, e)' = Kept(p, e)
      BY <1>1, <1>2, <2>3, <2>4, KeptStays
    <3>3. Own(p, e) + Due(p, e) = balance[e] + Kept(p, e)
      BY <1>1 DEF Balanced
    <3>4. Own(p, e) \in Int
      BY <1>1, FigureType
    <3>5. CASE e # on
      <4>1. Own(p, e)' = Own(p, e)
        BY <1>1, <2>3, <2>4, <3>5, OwnStays
      <4>2. Weigh(p, s, e) = 0
        BY <1>8, <3>5
      <4> HIDE DEF s
      <4> QED
        BY <3>1, <3>2, <3>3, <4>1, <4>2
    <3>6. CASE e = on
      <4>1. work'[p][Entity(e)] = figure /\ Entity(e) \in DOMAIN work'[p]
        BY <2>1, <2>3, <3>6
      <4>2. Own(p, e)' = IF figure.byHand THEN balance[e] ELSE figure.balance
        BY <1>1, <4>1, Unmoved DEF Own, OwnFigure
      <4>3. CASE ~ figure.byHand
        <5>1. Own(p, e)' = figure.balance /\ Weigh(p, s, e) = figure.balance - Own(p, e)
          BY <1>8, <3>6, <4>2, <4>3
        <5> HIDE DEF s
        <5> QED
          BY <1>9, <3>1, <3>2, <3>3, <3>4, <5>1
      <4>4. CASE figure.byHand
        <5>1. Own(p, e)' = balance[e] /\ Weigh(p, s, e) = 0
          BY <1>8, <4>2, <4>4
        <5>2. Own(p, e) = balance[e]
          <6>1. Entity(e) \notin DOMAIN work[p]
            BY <1>7, <4>4 DEF NoWork
          <6> QED
            BY <6>1 DEF Own, OwnFigure, Committed, Figure
        <5> HIDE DEF s
        <5> QED
          BY <3>1, <3>2, <3>3, <5>1, <5>2
      <4> QED
        BY <4>3, <4>4
    <3> QED
      BY <3>5, <3>6
  <2> QED
    BY <1>1, <1>2, <1>5, <1>6, <2>3, <2>5, <2>6, <2>7, ExecuteKeeps
<1> QED
  BY <1>10, <1>11

\* Any statement of a request keeps the invariant.
LEMMA ExecuteStep ==
  ASSUME RaceInv, NEW p \in Requests, Execute(p)
  PROVE  RaceInv'
<1> DEFINE s == Head(todo[p])
<1>1. /\ todo[p] # << >> /\ UNCHANGED <<vars, asked, touch, raced>>
      /\ \/ Inserts(p, s) \/ Compares(p, s) \/ Updates(p, s) \/ Drops(p, s)
         \/ Reads(p, s) \/ Writes(p, s) \/ Pays(p, s) \/ Unpays(p, s)
  BY DEF Execute, Running
<1>2. DOMAIN todo = Requests /\ DOMAIN work = Requests
      /\ new \in [Requests -> Seq(Draft)] /\ newPay \in [Requests -> Seq(Payment)]
  BY <1>1, Starting
<1>3. s.do # "commit"
  BY <1>1 DEF Inserts, Compares, Updates, Drops, Reads, Writes, Pays, Unpays
<1>4. \A x : Replace(p, x) => \A q \in Requests \ {p} : todo'[q] = todo[q]
  BY <1>2, ReplaceFacts
<1>5. Done(p) => \A q \in Requests \ {p} : todo'[q] = todo[q]
  BY <1>2, DoneFacts
<1>6. \A key, value : Lock(p, key, value) => \A q \in Requests \ {p} : work'[q] = work[q]
  BY <1>2, LockFacts
<1>7. \A q \in Requests \ {p} : todo'[q] = todo[q]
  BY <1>1, <1>4, <1>5 DEF Inserts, Compares, Updates, Drops, Reads, Writes, Pays, Unpays
<1>8. \A q \in Requests \ {p} : work'[q] = work[q]
  BY <1>1, <1>6 DEF Inserts, Compares, Updates, Drops, Reads, Writes, Pays, Unpays
<1>9. \A q \in Requests \ {p} : new'[q] = new[q] /\ newPay'[q] = newPay[q]
  BY <1>1, <1>2 DEF Inserts, Compares, Updates, Drops, Reads, Writes, Pays, Unpays
<1>10. Executing(p)
  BY <1>1, <1>3, <1>7, <1>8, <1>9 DEF Executing
<1> HIDE DEF s
<1>11. CASE Inserts(p, s)
  BY <1>10, <1>11, InsertKeeps DEF s
<1>12. CASE Compares(p, s)
  BY <1>10, <1>12, CompareKeeps DEF s
<1>13. CASE Updates(p, s)
  BY <1>10, <1>13, UpdateKeeps DEF s
<1>14. CASE Drops(p, s)
  BY <1>10, <1>14, DropKeeps DEF s
<1>15. CASE Reads(p, s)
  BY <1>10, <1>15, ReadKeeps DEF s
<1>16. CASE Writes(p, s)
  BY <1>10, <1>16, WriteKeeps DEF s
<1>17. CASE Pays(p, s)
  BY <1>10, <1>17, PayKeeps DEF s
<1>18. CASE Unpays(p, s)
  BY <1>10, <1>18, UnpayKeeps DEF s
<1> QED
  BY <1>1, <1>11, <1>12, <1>13, <1>14, <1>15, <1>16, <1>17, <1>18

-----------------------------------------------------------------------------
(* A commit.                                                               *)

\* The rows a request has inserted, which Fit says of the statements.
Drawn(p) == \A k \in 1..Len(new[p]) : new[p][k].state = "live" /\ Shaped(new[p][k])

\* The row a commit files under the key i.
FiledRow(p, i) == [new[p][i - next + 1] EXCEPT !.group = IF @ = 0 THEN 0 ELSE next]

\* The rows on file after a commit.
LEMMA KeepRows ==
  ASSUME RaceTypes, NEW p \in Requests, Imaged(p), Traced(p), Drawn(p), Keep(p)
  PROVE  /\ next' = next + Len(new[p]) /\ Len(new[p]) \in Nat
         /\ next + Len(new[p]) <= MaxRecords + 1
         /\ DOMAIN record' = Ids
         /\ \A i \in Ids :
              /\ Row(i) \in DOMAIN work[p] =>
                   /\ record'[i] = work[p][Row(i)] /\ i < next /\ Row(i) \in touch[p].rows
                   /\ record'[i] \in Record /\ record'[i].state \in {"live", "deleted"}
                   /\ record'[i].group = record[i].group
                   /\ Linked(record'[i]) \subseteq touch[p].links \cup raced
                   /\ Shaped(record'[i])
              /\ Row(i) \notin DOMAIN work[p] /\ i \notin next .. (next + Len(new[p]) - 1) =>
                   record'[i] = record[i]
              /\ i \in next .. (next + Len(new[p]) - 1) =>
                   /\ Row(i) \notin DOMAIN work[p]
                   /\ i - next + 1 \in 1..Len(new[p])
                   /\ record'[i] \in Record /\ Shaped(record'[i])
                   /\ \A e : Collected(record'[i], e) = Collected(new[p][i - next + 1], e)
<1> DEFINE n == Len(new[p])
<1>1. new[p] \in Seq(Draft) /\ next \in Nat /\ next >= 1 /\ MaxRecords \in Nat
  BY RaceTypeParts DEF RaceTypes
<1>2. n \in Nat
  BY <1>1
<1>3. /\ next' = next + n /\ next + n <= MaxRecords + 1
      /\ record' = [i \in Ids |-> IF Row(i) \in DOMAIN work[p] THEN work[p][Row(i)]
                                  ELSE IF i \in next .. (next + n - 1)
                                  THEN FiledRow(p, i) ELSE record[i]]
  BY DEF Keep, FiledRow
<1>4. ASSUME NEW i \in Ids, Row(i) \in DOMAIN work[p]
      PROVE  /\ record'[i] = work[p][Row(i)] /\ i < next /\ Row(i) \in touch[p].rows
             /\ record'[i] \in Record /\ record'[i].state \in {"live", "deleted"}
             /\ record'[i].group = record[i].group
             /\ Linked(record'[i]) \subseteq touch[p].links \cup raced
             /\ Shaped(record'[i])
  <2>1. PICK image : image = work[p][Row(i)]
    OBVIOUS
  <2>2. GoodImage(p, Row(i), image)
    BY <1>4, <2>1, ImagedGood
  <2>3. /\ image \in Record /\ image.state \in {"live", "deleted"}
        /\ image.group = record[i].group
        /\ Linked(image) \subseteq touch[p].links \cup raced
        /\ Shaped(image) /\ Row(i) \in touch[p].rows
    BY <2>2, Keys DEF GoodImage
  <2>4. record'[i] = image
    BY <1>3, <1>4, <2>1
  <2>5. i < next
    BY <2>3, TracedRow
  <2> QED
    BY <2>1, <2>3, <2>4, <2>5
<1>5. ASSUME NEW i \in Ids, i \in next .. (next + n - 1)
      PROVE  /\ Row(i) \notin DOMAIN work[p]
             /\ i - next + 1 \in 1..n
             /\ record'[i] \in Record /\ Shaped(record'[i])
             /\ \A e : Collected(record'[i], e) = Collected(new[p][i - next + 1], e)
  <2>1. Row(i) \notin DOMAIN work[p]
    BY <1>1, <1>4, <1>5
  <2>2. i - next + 1 \in 1..n
    BY <1>1, <1>2, <1>5
  <2>3. PICK r \in Draft : r = new[p][i - next + 1]
    BY <1>1, <2>2
  <2>4. r.state = "live" /\ Shaped(r)
    BY <2>2, <2>3 DEF Drawn
  <2>5. PICK g \in 0..MaxRecords : g = IF r.group = 0 THEN 0 ELSE next
    BY <1>1, <1>2, <1>3, <1>5
  <2>6. PICK row : row = [r EXCEPT !.group = g]
    OBVIOUS
  <2>7. record'[i] = row
    BY <1>3, <1>5, <2>1, <2>3, <2>5, <2>6 DEF FiledRow
  <2>8. /\ row \in Record /\ row.state = r.state /\ row.type = r.type
        /\ row.amount = r.amount /\ row.objective = r.objective
        /\ row.patrimony = r.patrimony /\ row.origin = r.origin
        /\ row.destination = r.destination /\ row.group = g
    BY <2>6 DEF Draft, Record
  <2>9. Shaped(row)
    BY <2>4, <2>5, <2>8 DEF Shaped
  <2>10. \A e : Collected(row, e) = Collected(r, e)
    BY <2>8 DEF Collected, Movement, Contribution
  <2> QED
    BY <2>1, <2>2, <2>3, <2>7, <2>8, <2>9, <2>10
<1>6. \A i \in Ids : Row(i) \notin DOMAIN work[p] /\ i \notin next .. (next + n - 1) =>
                       record'[i] = record[i]
  BY <1>3
<1>7. DOMAIN record' = Ids
  BY <1>3
<1> QED
  BY <1>2, <1>3, <1>4, <1>5, <1>6, <1>7

\* The payments on file after a commit: at most one more, under a key that was free.
LEMMA KeepPayments ==
  ASSUME RaceTypes, NEW p \in Requests, Imaged(p), Traced(p), Keep(p)
  PROVE  /\ payment' \in [Payments -> Payment]
         /\ \A k \in Payments :
              Abono(k) \in DOMAIN work[p] =>
                /\ payment'[k] = NoPayment("deleted") /\ payment[k].state # "none"
                /\ Abono(k) \in touch[p].rows
         /\ newPay[p] = << >> =>
              \A k \in Payments : Abono(k) \notin DOMAIN work[p] => payment'[k] = payment[k]
         /\ newPay[p] # << >> =>
              \E l \in Payments :
                /\ payment[l].state = "none" /\ Abono(l) \notin DOMAIN work[p]
                /\ payment'[l] = newPay[p][1]
                /\ \A k \in Payments \ {l} :
                     Abono(k) \notin DOMAIN work[p] => payment'[k] = payment[k]
<1>1. /\ payment \in [Payments -> Payment] /\ newPay[p] \in Seq(Payment)
      /\ Payments \subseteq Nat
  BY Bounds DEF RaceTypes, TypeOK, Payments
<1>2. /\ newPay[p] # << >> => FreePayments # {}
      /\ payment' = [k \in Payments |->
           IF Abono(k) \in DOMAIN work[p] THEN work[p][Abono(k)]
           ELSE IF newPay[p] # << >> /\ k = NextPayment THEN newPay[p][1] ELSE payment[k]]
  BY DEF Keep
<1>3. ASSUME NEW k \in Payments, Abono(k) \in DOMAIN work[p]
      PROVE  /\ payment'[k] = NoPayment("deleted") /\ payment[k].state # "none"
             /\ Abono(k) \in touch[p].rows
  <2>1. PICK image : image = work[p][Abono(k)]
    OBVIOUS
  <2>2. GoodImage(p, Abono(k), image)
    BY <1>3, <2>1, ImagedGood
  <2>3. image = NoPayment("deleted") /\ Abono(k) \in touch[p].rows
    BY <2>2, Keys DEF GoodImage
  <2>4. payment[k].state # "none"
    BY <2>3, Keys DEF Traced
  <2> QED
    BY <1>2, <1>3, <2>1, <2>3, <2>4
<1>4. NoPayment("deleted") \in Payment
  <2>1. (CHOOSE a \in Amounts : TRUE) \in Amounts
    BY LedgerAssumption
  <2> QED
    BY <2>1 DEF NoPayment, Payment, States, ObjectiveOrNone
<1>5. newPay[p] # << >> => newPay[p][1] \in Payment
  BY <1>1
<1>6. \A k \in Payments : payment'[k] \in Payment
  BY <1>1, <1>2, <1>3, <1>4, <1>5
<1>7. payment' \in [Payments -> Payment]
  BY <1>2, <1>6
<1>8. ASSUME newPay[p] # << >>
      PROVE  \E l \in Payments :
                /\ payment[l].state = "none" /\ Abono(l) \notin DOMAIN work[p]
                /\ payment'[l] = newPay[p][1]
                /\ \A k \in Payments \ {l} :
                     Abono(k) \notin DOMAIN work[p] => payment'[k] = payment[k]
  <2>1. FreePayments # {} /\ FreePayments \in SUBSET Nat
    BY <1>1, <1>2, <1>8 DEF FreePayments
  <2>2. \E k \in FreePayments : \A l \in FreePayments : k <= l
    BY <2>1, LeastElement
  <2>3. NextPayment \in FreePayments
    BY <2>2 DEF NextPayment
  <2>4. PICK l \in Payments : l = NextPayment /\ payment[l].state = "none"
    BY <2>3 DEF FreePayments
  <2>5. Abono(l) \notin DOMAIN work[p]
    BY <1>3, <2>4
  <2> QED
    BY <1>2, <1>8, <2>4, <2>5
<1> QED
  BY <1>2, <1>3, <1>7, <1>8

\* The balances after a commit are those the request wrote.
LEMMA KeepBalances ==
  ASSUME RaceTypes, NEW p \in Requests, Imaged(p), Keep(p)
  PROVE  /\ balance' \in [Entities -> Int] /\ base' \in [Entities -> Int]
         /\ completed' \in [Objectives -> BOOLEAN]
         /\ status' = status /\ target' = target /\ rules' = rules
         /\ \A e \in Entities :
              /\ balance'[e] = OwnFigure(p, e).balance
              /\ OwnFigure(p, e).byHand => base'[e] = balance'[e] - Explained(e)
              /\ ~ OwnFigure(p, e).byHand => base'[e] = base[e] /\ balance'[e] = Own(p, e)
              /\ Entity(e) \notin DOMAIN work[p] => balance'[e] = balance[e]
<1>1. /\ balance' = [e \in Entities |-> OwnFigure(p, e).balance]
      /\ completed' = [o \in Objectives |-> OwnFigure(p, o).completed]
      /\ base' = [e \in Entities |->
           IF OwnFigure(p, e).byHand THEN OwnFigure(p, e).balance - Explained(e) ELSE base[e]]
      /\ status' = status /\ target' = target /\ rules' = rules
  BY DEF Keep, OwnFigure
<1>2. \A e \in Entities : OwnFigure(p, e) \in Figures
  BY FigureType
<1>3. \A e \in Entities : Explained(e) \in Int /\ base[e] \in Int
  BY ExplainedType DEF RaceTypes, TypeOK
<1>4. \A e \in Entities : OwnFigure(p, e).balance \in Int /\ OwnFigure(p, e).completed \in BOOLEAN
  BY <1>2 DEF Figures
<1>5. Objectives \subseteq Entities
  BY DEF Entities
<1>6. \A e \in Entities : Entity(e) \notin DOMAIN work[p] => OwnFigure(p, e).balance = balance[e]
  BY DEF OwnFigure, Committed, Figure
<1> QED
  BY <1>1, <1>3, <1>4, <1>5, <1>6 DEF Own

\* The sum over all rows is a total.
LEMMA SumOverAll ==
  ASSUME NEW c \in [Ids -> Int]
  PROVE  SumOver(Ids, c) = Total(MaxRecords, c)
<1>1. [i \in Ids |-> IF i \in Ids THEN c[i] ELSE 0] = c
  OBVIOUS
<1> QED
  BY <1>1 DEF SumOver

\* What the rows of a table gain: the rows p rewrote and those it inserted.
LEMMA RowsGain ==
  ASSUME RaceInv, NEW p \in Requests, Drawn(p), Keep(p), NEW e \in Entities
  PROVE  /\ SumOver(Ids, [i \in Ids |-> Collected(record[i], e)]) \in Int
         /\ SumOver(Ids, [i \in Ids |-> Collected(record'[i], e)]) \in Int
         /\ SumOver(Ids, [i \in Ids |-> Collected(record'[i], e)])
              = SumOver(Ids, [i \in Ids |-> Collected(record[i], e)])
                  + SumOver(Ids, KeptRows(p, e)) + Total(Len(new[p]), KeptNew(p, e))
<1>1. RaceTypes /\ Imaged(p) /\ Traced(p) /\ Files
  BY DEF RaceInv, Sound
<1>2. /\ next \in Nat /\ next >= 1 /\ MaxRecords \in Nat
      /\ \A i \in Ids : record[i] \in Record
  BY <1>1, RaceTypeParts
<1>3. PICK l \in Nat : l = Len(new[p])
  BY <1>1, KeptParts
<1>4. PICK m \in Nat : m = next - 1
  BY <1>2
<1>5. PICK c : c = [i \in Ids |-> Collected(record[i], e)]
  OBVIOUS
<1>6. PICK d : d = [i \in Ids |-> Collected(record'[i], e)]
  OBVIOUS
<1>7. PICK moved : moved = KeptRows(p, e)
  OBVIOUS
<1>8. PICK gain : gain = KeptNew(p, e)
  OBVIOUS
<1>9. moved \in [Ids -> Int] /\ gain \in [1..l -> Int]
  BY <1>1, <1>3, <1>7, <1>8, KeptParts
<1>10. c \in [Ids -> Int]
  BY <1>2, <1>5, CollectedType
<1>11. m + l <= MaxRecords
  BY <1>1, <1>2, <1>3, <1>4, KeepRows
<1>12. PICK late : late = [i \in Ids |-> IF i \in (m+1)..(m+l) THEN gain[i-m] ELSE 0]
  OBVIOUS
<1>13. late \in [1..MaxRecords -> Int]
       /\ \A i \in 1..MaxRecords : late[i] = IF i \in (m+1)..(m+l) THEN gain[i-m] ELSE 0
  <2>1. \A i \in (m+1)..(m+l) : i - m \in 1..l
    BY <1>3, <1>4
  <2>2. \A i \in (m+1)..(m+l) : gain[i-m] \in Int
    BY <1>9, <2>1
  <2>3. \A i \in Ids : late[i] = IF i \in (m+1)..(m+l) THEN gain[i-m] ELSE 0
    BY <1>12
  <2>4. \A i \in Ids : late[i] \in Int
    BY <2>2, <2>3
  <2>5. late \in [Ids -> Int]
    BY <1>12, <2>4
  <2> QED
    BY <2>3, <2>5 DEF Ids
<1>14. \A i \in Ids : d[i] \in Int /\ d[i] = c[i] + moved[i] + late[i]
  <2> SUFFICES ASSUME NEW i \in Ids PROVE d[i] \in Int /\ d[i] = c[i] + moved[i] + late[i]
    OBVIOUS
  <2>1. /\ d[i] = Collected(record'[i], e) /\ c[i] = Collected(record[i], e)
        /\ moved[i] = Moved(p, i, e) /\ i \in Nat
        /\ late[i] = IF i \in (m+1)..(m+l) THEN gain[i-m] ELSE 0
    BY <1>2, <1>5, <1>6, <1>7, <1>12 DEF KeptRows, Ids
  <2>2. c[i] \in Int /\ moved[i] \in Int
    BY <1>9, <1>10
  <2>3. CASE Row(i) \in DOMAIN work[p]
    <3>1. i < next /\ record'[i] = work[p][Row(i)]
      BY <1>1, <2>3, KeepRows
    <3>2. late[i] = 0
      BY <2>1, <3>1, <1>4, <1>2, <1>3
    <3>3. moved[i] = d[i] - c[i]
      BY <2>1, <2>3, <3>1 DEF Moved
    <3>4. d[i] \in Int
      <4>1. record'[i] \in Record
        BY <1>1, <2>3, KeepRows
      <4> QED
        BY <2>1, <4>1, CollectedType
    <3> QED
      BY <2>2, <3>2, <3>3, <3>4
  <2>4. CASE i \in (m+1)..(m+l)
    <3>1. i \in next .. (next + Len(new[p]) - 1)
      BY <2>4, <1>2, <1>3, <1>4
    <3>2. Row(i) \notin DOMAIN work[p] /\ Collected(record'[i], e) = Collected(new[p][i - next + 1], e)
      BY <1>1, <3>1, KeepRows
    <3>3. i - m \in 1..l /\ i - m = i - next + 1
      BY <2>4, <1>2, <1>3, <1>4
    <3>4. gain[i-m] = Collected(new[p][i-m], e)
      BY <1>3, <1>8, <3>3 DEF KeptNew
    <3>5. moved[i] = 0
      BY <2>1, <3>2 DEF Moved
    <3>6. c[i] = 0
      <4>1. record[i].state = "none"
        BY <1>1, <1>2, <1>3, <3>1 DEF Files
      <4> QED
        BY <2>1, <4>1 DEF Collected
    <3>7. gain[i-m] \in Int
      BY <1>9, <3>3
    <3>8. d[i] = gain[i-m]
      BY <2>1, <3>2, <3>3, <3>4
    <3> QED
      BY <2>1, <2>4, <3>5, <3>6, <3>7, <3>8
  <2>5. CASE Row(i) \notin DOMAIN work[p] /\ i \notin (m+1)..(m+l)
    <3>1. i \notin next .. (next + Len(new[p]) - 1)
      BY <2>5, <1>2, <1>3, <1>4
    <3>2. record'[i] = record[i]
      BY <1>1, <2>5, <3>1, KeepRows
    <3> QED
      BY <2>1, <2>2, <2>5, <3>2 DEF Moved
  <2> QED
    BY <2>3, <2>4, <2>5
<1>15. d \in [Ids -> Int]
  BY <1>6, <1>14
<1>16. PICK mid : mid = [i \in Ids |-> c[i] + moved[i]]
  OBVIOUS
<1>17. mid \in [Ids -> Int] /\ \A i \in Ids : mid[i] = c[i] + moved[i] /\ d[i] = mid[i] + late[i]
  BY <1>9, <1>10, <1>14, <1>16
<1>18. Total(MaxRecords, mid) = Total(MaxRecords, c) + Total(MaxRecords, moved)
  BY <1>2, <1>9, <1>10, <1>17, TotalSum DEF Ids
<1>19. Total(MaxRecords, d) = Total(MaxRecords, mid) + Total(MaxRecords, late)
  BY <1>2, <1>13, <1>15, <1>17, TotalSum, ZenonT(60) DEF Ids
<1>20. Total(MaxRecords, late) = Total(l, gain)
  <2>1. late = Shifted(MaxRecords, m, l, gain)
    BY <1>12 DEF Ids, Shifted
  <2>2. MaxRecords \in Nat /\ m \in Nat /\ l \in Nat /\ gain \in [1..l -> Int]
    BY <1>2, <1>3, <1>4, <1>9
  <2> QED
    BY <1>11, <2>1, <2>2, TotalShift
<1>21. /\ Total(MaxRecords, c) \in Int /\ Total(MaxRecords, moved) \in Int
       /\ Total(MaxRecords, d) \in Int /\ Total(l, gain) \in Int
  BY <1>2, <1>9, <1>10, <1>15, TotalInt DEF Ids
<1>22. /\ SumOver(Ids, c) = Total(MaxRecords, c) /\ SumOver(Ids, d) = Total(MaxRecords, d)
       /\ SumOver(Ids, moved) = Total(MaxRecords, moved)
  BY <1>9, <1>10, <1>15, SumOverAll
<1>23. SumOver(Ids, d) = SumOver(Ids, c) + SumOver(Ids, moved) + Total(l, gain)
  BY <1>18, <1>19, <1>20, <1>21, <1>22
<1> QED
  BY <1>3, <1>5, <1>6, <1>7, <1>8, <1>21, <1>22, <1>23

\* What the payments gain: a payment p deleted, and the one it registered.
LEMMA PaymentsGain ==
  ASSUME RaceInv, NEW p \in Requests, Keep(p), NEW e \in Entities
  PROVE  /\ Total(MaxPayments, [k \in Payments |-> Paid(payment[k], e)]) \in Int
         /\ Total(MaxPayments, [k \in Payments |-> Paid(payment'[k], e)]) \in Int
         /\ Total(MaxPayments, [k \in Payments |-> Paid(payment'[k], e)])
              = Total(MaxPayments, [k \in Payments |-> Paid(payment[k], e)])
                  + Total(MaxPayments, KeptPays(p, e)) + KeptPaid(p, e)
<1>1. RaceTypes /\ Imaged(p) /\ Traced(p)
  BY DEF RaceInv, Sound
<1>2. MaxPayments \in Nat /\ \A k \in Payments : payment[k] \in Payment
  BY <1>1, RaceTypeParts
<1>3. payment' \in [Payments -> Payment]
  BY <1>1, KeepPayments
<1>4. PICK c : c = [k \in Payments |-> Paid(payment[k], e)]
  OBVIOUS
<1>5. PICK d : d = [k \in Payments |-> Paid(payment'[k], e)]
  OBVIOUS
<1>6. PICK gone : gone = KeptPays(p, e)
  OBVIOUS
<1>7. c \in [Payments -> Int] /\ d \in [Payments -> Int] /\ gone \in [Payments -> Int]
  <2>1. gone \in [Payments -> Int]
    BY <1>1, <1>6, KeptParts DEF Payments
  <2>2. \A k \in Payments : Paid(payment[k], e) \in Int /\ Paid(payment'[k], e) \in Int
    BY <1>2, <1>3, PaidType
  <2> QED
    BY <1>4, <1>5, <2>1, <2>2
<1>8. KeptPaid(p, e) \in Int
  BY <1>1, KeptParts
<1>9. ASSUME NEW k \in Payments
      PROVE  /\ Abono(k) \in DOMAIN work[p] => d[k] = c[k] + gone[k]
             /\ Abono(k) \notin DOMAIN work[p] => gone[k] = 0
  <2>1. /\ d[k] = Paid(payment'[k], e) /\ c[k] = Paid(payment[k], e)
        /\ gone[k] = Unpaid(p, k, e) /\ c[k] \in Int
    BY <1>4, <1>5, <1>6, <1>7 DEF KeptPays
  <2>2. ASSUME Abono(k) \in DOMAIN work[p] PROVE d[k] = c[k] + gone[k]
    <3>1. payment'[k] = NoPayment("deleted")
      BY <1>1, <2>2, KeepPayments
    <3>2. d[k] = 0
      BY <2>1, <3>1 DEF Paid, NoPayment
    <3>3. gone[k] = - c[k]
      BY <2>1, <2>2 DEF Unpaid
    <3> QED
      BY <2>1, <3>2, <3>3
  <2>3. ASSUME Abono(k) \notin DOMAIN work[p] PROVE gone[k] = 0
    BY <2>1, <2>3 DEF Unpaid
  <2> QED
    BY <2>2, <2>3
<1>10. PICK mid : mid = [k \in Payments |-> c[k] + gone[k]]
  OBVIOUS
<1>11. mid \in [Payments -> Int] /\ \A k \in Payments : mid[k] = c[k] + gone[k]
  BY <1>7, <1>10
<1>12. Total(MaxPayments, mid) = Total(MaxPayments, c) + Total(MaxPayments, gone)
  BY <1>2, <1>7, <1>11, TotalSum DEF Payments
<1>13. /\ Total(MaxPayments, c) \in Int /\ Total(MaxPayments, d) \in Int
       /\ Total(MaxPayments, gone) \in Int
  BY <1>2, <1>7, TotalInt DEF Payments
<1>14. Total(MaxPayments, d) = Total(MaxPayments, mid) + KeptPaid(p, e)
  <2>1. CASE newPay[p] = << >>
    <3>1. \A k \in Payments : Abono(k) \notin DOMAIN work[p] => payment'[k] = payment[k]
      BY <1>1, <2>1, KeepPayments
    <3>2. \A k \in Payments : Abono(k) \notin DOMAIN work[p] => d[k] = c[k]
      BY <1>4, <1>5, <3>1
    <3>3. \A k \in Payments : d[k] = mid[k]
      BY <1>7, <1>9, <1>11, <3>2
    <3>4. d = mid
      BY <1>7, <1>11, <3>3
    <3>5. KeptPaid(p, e) = 0
      BY <2>1 DEF KeptPaid
    <3> QED
      BY <1>13, <3>4, <3>5
  <2>2. CASE newPay[p] # << >>
    <3>1. PICK l \in Payments :
                /\ payment[l].state = "none" /\ Abono(l) \notin DOMAIN work[p]
                /\ payment'[l] = newPay[p][1]
                /\ \A k \in Payments \ {l} :
                     Abono(k) \notin DOMAIN work[p] => payment'[k] = payment[k]
      BY <1>1, <2>2, KeepPayments
    <3>2. PICK line : line = [k \in Payments |-> IF k = l THEN KeptPaid(p, e) ELSE 0]
      OBVIOUS
    <3>3. line \in [Payments -> Int] /\ line[l] = KeptPaid(p, e)
          /\ \A k \in Payments \ {l} : line[k] = 0
      BY <1>8, <3>2
    <3>4. c[l] = 0 /\ d[l] = KeptPaid(p, e) /\ gone[l] = 0
      BY <1>4, <1>5, <1>9, <2>2, <3>1 DEF Paid, KeptPaid
    <3>5. \A k \in Payments \ {l} : Abono(k) \notin DOMAIN work[p] => d[k] = c[k]
      BY <1>4, <1>5, <3>1
    <3>6. \A k \in Payments : d[k] = mid[k] + line[k]
      <4>1. d[l] = mid[l] + line[l]
        BY <1>8, <1>11, <3>3, <3>4
      <4>2. ASSUME NEW k \in Payments \ {l} PROVE d[k] = mid[k] + line[k]
        <5>1. CASE Abono(k) \in DOMAIN work[p]
          BY <1>7, <1>9, <1>11, <3>3, <5>1
        <5>2. CASE Abono(k) \notin DOMAIN work[p]
          BY <1>7, <1>9, <1>11, <3>3, <3>5, <5>2
        <5> QED
          BY <5>1, <5>2
      <4> QED
        BY <4>1, <4>2
    <3>7. Total(MaxPayments, d) = Total(MaxPayments, mid) + Total(MaxPayments, line)
      BY <1>2, <1>7, <1>11, <3>3, <3>6, TotalSum DEF Payments
    <3>8. Total(MaxPayments, line) = line[l]
      BY <1>2, <3>1, <3>3, TotalSingle DEF Payments
    <3> QED
      BY <3>3, <3>7, <3>8
  <2> QED
    BY <2>1, <2>2
<1> QED
  BY <1>4, <1>5, <1>6, <1>8, <1>12, <1>13, <1>14

\* A commit moves what explains a balance by what the request has kept.
LEMMA KeepExplains ==
  ASSUME RaceInv, NEW p \in Requests, Drawn(p), Keep(p), NEW e \in Entities
  PROVE  /\ Explained(e) \in Int /\ Explained(e)' \in Int /\ Kept(p, e) \in Int
         /\ Explained(e)' = Explained(e) + Kept(p, e)
<1>1. RaceTypes /\ Imaged(p)
  BY DEF RaceInv, Sound
<1>2. PICK a : a = SumOver(Ids, [i \in Ids |-> Collected(record[i], e)])
  OBVIOUS
<1>3. PICK b : b = SumOver(Ids, [i \in Ids |-> Collected(record'[i], e)])
  OBVIOUS
<1>4. PICK c : c = Total(MaxPayments, [k \in Payments |-> Paid(payment[k], e)])
  OBVIOUS
<1>5. PICK d : d = Total(MaxPayments, [k \in Payments |-> Paid(payment'[k], e)])
  OBVIOUS
<1>6. /\ a \in Int /\ b \in Int
      /\ b = a + SumOver(Ids, KeptRows(p, e)) + Total(Len(new[p]), KeptNew(p, e))
  BY <1>2, <1>3, RowsGain
<1>7. /\ c \in Int /\ d \in Int
      /\ d = c + Total(MaxPayments, KeptPays(p, e)) + KeptPaid(p, e)
  BY <1>4, <1>5, PaymentsGain
<1>8. Explained(e) = a + c
  BY <1>2, <1>4 DEF Explained
<1>9. Explained(e)' = b + d
  BY <1>3, <1>5 DEF Explained, SumOver, Collected, Contribution, Movement, Paid
<1>10. /\ SumOver(Ids, KeptRows(p, e)) \in Int
       /\ Total(MaxPayments, KeptPays(p, e)) \in Int
       /\ Total(Len(new[p]), KeptNew(p, e)) \in Int
       /\ KeptPaid(p, e) \in Int /\ Kept(p, e) \in Int
       /\ Kept(p, e) = SumOver(Ids, KeptRows(p, e)) + Total(MaxPayments, KeptPays(p, e))
                        + Total(Len(new[p]), KeptNew(p, e)) + KeptPaid(p, e)
  BY <1>1, KeptParts
<1>11. PICK u \in Int : u = SumOver(Ids, KeptRows(p, e))
  BY <1>10
<1>12. PICK v \in Int : v = Total(Len(new[p]), KeptNew(p, e))
  BY <1>10
<1>13. PICK x \in Int : x = Total(MaxPayments, KeptPays(p, e))
  BY <1>10
<1>14. PICK y \in Int : y = KeptPaid(p, e)
  BY <1>10
<1>15. b = a + u + v /\ d = c + x + y /\ Kept(p, e) = u + x + v + y
  BY <1>6, <1>7, <1>10, <1>11, <1>12, <1>13, <1>14
<1>16. b + d = (a + c) + (u + x + v + y)
  BY <1>6, <1>7, <1>15
<1> QED
  BY <1>6, <1>7, <1>8, <1>9, <1>15, <1>16

-----------------------------------------------------------------------------
(* A request that is over, and what a commit does to the books.            *)

Idle(p) ==
  todo[p] = << >> /\ work[p] = NoWork /\ new[p] = << >> /\ newPay[p] = << >>
    /\ touch[p] = Nothing

IdleIsSound == RaceTypes => \A p \in Requests : Idle(p) => Sound(p)

\* A request that is over satisfies what the invariant says of requests.
LEMMA IdleSound == IdleIsSound
<1> SUFFICES ASSUME RaceTypes, NEW p \in Requests, Idle(p) PROVE Sound(p)
  BY DEF IdleIsSound
<1>1. DOMAIN work[p] = {}
  BY DEF Idle, NoWork
<1>2. Imaged(p) /\ Traced(p) /\ AtRest(p)
  BY <1>1 DEF Idle, Imaged, Traced, AtRest, Nothing
<1>3. Once(p)
  BY DEF Idle, Once, Nothing
<1>4. Ordered(p)
  <2>1. Len(todo[p]) = 0
    BY DEF Idle
  <2>2. 1..Len(todo[p]) = {}
    BY <2>1
  <2> QED
    BY <2>2 DEF Ordered
<1>5. Balanced(p)
  <2> SUFFICES ASSUME NEW e \in Entities PROVE Own(p, e) + Due(p, e) = balance[e] + Kept(p, e)
    BY DEF Balanced
  <2>1. Own(p, e) = balance[e]
    BY <1>1 DEF Own, OwnFigure, Committed, Figure
  <2>2. Due(p, e) = 0
    <3>1. todo[p] = << >> /\ todo[p] \in Seq(Statements)
      BY DEF Idle, RaceTypes
    <3> QED
      BY <3>1, DueWeight, WeightEmpty
  <2>3. Kept(p, e) = 0
    BY <1>1, KeptNothing DEF Idle
  <2>4. balance[e] \in Int
    BY RaceTypeParts
  <2> QED
    BY <2>1, <2>2, <2>3, <2>4
<1> QED
  BY <1>2, <1>3, <1>4, <1>5 DEF Sound

\* The same after a step.
LEMMA IdleSoundNext == IdleIsSound'
BY IdleSound, PTL

\* What a request owes when it commits.
LEMMA NothingDue ==
  ASSUME RaceInv, NEW p \in Requests, todo[p] # << >>, Head(todo[p]).do = "commit",
         NEW e \in Entities
  PROVE  Due(p, e) = 0 /\ Tail(todo[p]) = << >>
<1>1. /\ RaceTypes /\ Ordered(p) /\ Imaged(p)
      /\ todo[p] \in Seq(Statements)
  BY Starting
<1>2. Tail(todo[p]) = << >> /\ Head(todo[p]) \in Statements
  BY <1>1, HeadFacts
<1>3. Weights(p, e) \in [Statements -> Int]
  BY <1>1, WeightsType
<1>4. WeightOf(todo[p], Weights(p, e))
        = Weights(p, e)[Head(todo[p])] + WeightOf(Tail(todo[p]), Weights(p, e))
  BY <1>1, <1>3, WeightTail
<1>5. WeightOf(Tail(todo[p]), Weights(p, e)) = 0
  BY <1>2, WeightEmpty
<1>6. Weights(p, e)[Head(todo[p])] = 0
  BY <1>2 DEF Weights, Weigh
<1> QED
  BY <1>1, <1>2, <1>4, <1>5, <1>6, DueWeight

\* The balances after a commit are what the movements say.
LEMMA CommitBalances ==
  ASSUME RaceInv, NEW p \in Requests, Drawn(p), todo[p] # << >>,
         Head(todo[p]).do = "commit", Keep(p), raced' = raced
  PROVE  DamageIsConfined'
<1>1. RaceTypes /\ Imaged(p) /\ Balanced(p)
  BY Starting
<1>2. status' = status
  BY <1>1, KeepBalances
<1> SUFFICES ASSUME NEW e \in Entities \ raced, status[e] = "live"
             PROVE  balance'[e] = base'[e] + Explained(e)'
  BY <1>2 DEF DamageIsConfined
<1>3. balance[e] = base[e] + Explained(e) /\ e \in Entities
  BY DEF RaceInv, DamageIsConfined
<1>4. Due(p, e) = 0
  BY NothingDue
<1>5. Own(p, e) + Due(p, e) = balance[e] + Kept(p, e)
  BY <1>1 DEF Balanced
<1>6. /\ Explained(e) \in Int /\ Explained(e)' \in Int /\ Kept(p, e) \in Int
      /\ Explained(e)' = Explained(e) + Kept(p, e)
  BY KeepExplains
<1>7. balance[e] \in Int /\ base[e] \in Int /\ Own(p, e) \in Int
  BY <1>1, RaceTypeParts, FigureType
<1>8. balance'[e] \in Int /\ base'[e] \in Int
  BY <1>1, KeepBalances
<1>9. PICK x \in Int : x = Explained(e)'
  BY <1>6
<1>10. CASE OwnFigure(p, e).byHand
  <2>1. base'[e] = balance'[e] - Explained(e)
    BY <1>1, <1>10, KeepBalances
  <2>2. Own(p, e) = balance[e]
    BY <1>10 DEF Own
  <2>3. Kept(p, e) = 0
    BY <1>4, <1>5, <1>6, <1>7, <2>2
  <2>4. x = Explained(e)
    BY <1>6, <1>9, <2>3
  <2> QED
    BY <1>6, <1>8, <1>9, <2>1, <2>4
<1>11. CASE ~ OwnFigure(p, e).byHand
  <2>1. base'[e] = base[e] /\ balance'[e] = Own(p, e)
    BY <1>1, <1>11, KeepBalances
  <2>2. balance'[e] = balance[e] + Kept(p, e)
    BY <1>4, <1>5, <1>7, <2>1
  <2>3. x = Explained(e) + Kept(p, e)
    BY <1>6, <1>9
  <2>4. balance'[e] = base'[e] + x
    BY <1>3, <1>6, <1>7, <2>1, <2>2, <2>3
  <2> QED
    BY <1>9, <2>4
<1> QED
  BY <1>10, <1>11

\* The types after a commit.
LEMMA CommitTypes ==
  ASSUME RaceInv, NEW p \in Requests, Drawn(p), Keep(p), Forget(p)
  PROVE  RaceTypes'
<1>1. RaceTypes /\ Imaged(p) /\ Traced(p)
  BY DEF RaceInv, Sound
<1>2. /\ next' = next + Len(new[p]) /\ Len(new[p]) \in Nat
      /\ next + Len(new[p]) <= MaxRecords + 1
      /\ DOMAIN record' = Ids
  BY <1>1, KeepRows
<1>3. /\ \A i \in Ids : record[i] \in Record
      /\ next \in Nat /\ next >= 1 /\ MaxRecords \in Nat
  BY <1>1, RaceTypeParts
<1>4. next' \in 1..(MaxRecords + 1)
  BY <1>2, <1>3
<1>5. \A i \in Ids : record'[i] \in Record
  BY <1>1, <1>3, KeepRows
<1>6. record' \in [Ids -> Record]
  <2>1. record' = [i \in Ids |-> record'[i]]
    BY DEF Keep
  <2> QED
    BY <1>5, <2>1
<1>7. payment' \in [Payments -> Payment]
  BY <1>1, KeepPayments
<1>8. /\ balance' \in [Entities -> Int] /\ base' \in [Entities -> Int]
      /\ completed' \in [Objectives -> BOOLEAN]
      /\ status' = status /\ target' = target /\ rules' = rules
  BY <1>1, KeepBalances
<1>9. TypeOK'
  BY <1>1, <1>4, <1>6, <1>7, <1>8 DEF RaceTypes, TypeOK
<1>10. /\ DOMAIN todo' = Requests /\ DOMAIN work' = Requests /\ DOMAIN touch' = Requests
       /\ new' \in [Requests -> Seq(Draft)] /\ newPay' \in [Requests -> Seq(Payment)]
       /\ asked' \in Nat /\ raced' \subseteq Entities
  BY <1>1 DEF RaceTypes, Forget
<1>11. \A q \in Requests : todo'[q] \in Seq(Statements)
  BY <1>1 DEF RaceTypes, Forget
<1> QED
  BY <1>9, <1>10, <1>11 DEF RaceTypes

\* The rows on file after a commit.
LEMMA CommitFiles ==
  ASSUME RaceInv, NEW p \in Requests, Drawn(p), todo[p] # << >>, Keep(p),
         raced' = raced, asked' = asked
  PROVE  Files'
<1>1. RaceTypes /\ Imaged(p) /\ Traced(p) /\ Files
  BY DEF RaceInv, Sound
<1>2. /\ next' = next + Len(new[p]) /\ Len(new[p]) \in Nat
  BY <1>1, KeepRows
<1>3. next \in Nat
  BY <1>1, RaceTypeParts
<1>4. asked' # 0
  BY <1>1 DEF Files
<1>5. \A i \in Ids : Shaped(record[i]) /\ (i >= next => record[i].state = "none")
  BY <1>1 DEF Files
<1>6. PICK rows : rows = record'
  OBVIOUS
<1>7. ASSUME NEW i \in Ids PROVE (i >= next' => rows[i].state = "none") /\ Shaped(rows[i])
  <2>1. i \in Nat
    BY <1>1, RaceTypeParts DEF Ids
  <2>2. CASE Row(i) \in DOMAIN work[p]
    <3>1. i < next /\ Shaped(record'[i])
      BY <1>1, <2>2, KeepRows
    <3> QED
      BY <1>2, <1>3, <1>6, <2>1, <3>1
  <2>3. CASE i \in next .. (next + Len(new[p]) - 1)
    <3>1. Shaped(record'[i])
      BY <1>1, <2>3, KeepRows
    <3> QED
      BY <1>2, <1>3, <1>6, <2>1, <2>3, <3>1
  <2>4. CASE Row(i) \notin DOMAIN work[p] /\ i \notin next .. (next + Len(new[p]) - 1)
    <3>1. record'[i] = record[i]
      BY <1>1, <2>4, KeepRows
    <3>2. i >= next' => i >= next
      BY <1>2, <1>3, <2>1
    <3> QED
      BY <1>5, <1>6, <3>1, <3>2
  <2> QED
    BY <2>2, <2>3, <2>4
<1>8. \A r : Shaped(r) => Shaped(r)'
  BY DEF Shaped
<1>9. \A i \in Ids : (i >= next' => rows[i].state = "none") /\ Shaped(rows[i])'
  BY <1>7, <1>8
<1> QED
  BY <1>4, <1>6, <1>9 DEF Files

-----------------------------------------------------------------------------
(* What a commit does to the other requests.                               *)

\* The entities a request changes are the entities of its touch.
LEMMA ChangedEntity ==
  ASSUME NEW p, Imaged(p), NEW e, Entity(e) \in DOMAIN work[p]
  PROVE  e \in touch[p].changes
<1>1. PICK image : image = work[p][Entity(e)]
  OBVIOUS
<1>2. GoodImage(p, Entity(e), image)
  BY <1>1, ImagedGood
<1> QED
  BY <1>2, Keys DEF GoodImage

\* A row another request is about stays what it was, unless both are about it; then
\* it explains only balances they may spoil.
LEMMA RowHeld ==
  ASSUME RaceInv, NEW p \in Requests, NEW q \in Requests, p # q, Drawn(p), Keep(p),
         NEW i \in Ids, Row(i) \in touch[q].rows
  PROVE  /\ i < next /\ i < next'
         /\ record'[i].group = record[i].group
         /\ record'[i] = record[i] \/ touch[q].links \subseteq raced
         /\ Linked(record'[i]) \subseteq touch[q].links \cup raced
         /\ \A e \in Entities \ raced : Collected(record'[i], e) = Collected(record[i], e)
<1>1. /\ RaceTypes /\ Imaged(p) /\ Traced(p) /\ Traced(q) /\ Apart(p, q)
  BY DEF RaceInv, Sound
<1>2. Linked(record[i]) \subseteq touch[q].links \cup raced /\ i < next
  BY <1>1, TracedRow
<1>3. next' = next + Len(new[p]) /\ Len(new[p]) \in Nat /\ next \in Nat /\ i \in Nat
  BY <1>1, KeepRows, RaceTypeParts DEF Ids
<1>4. i < next'
  BY <1>2, <1>3
<1>5. CASE Row(i) \in DOMAIN work[p]
  <2>1. /\ Row(i) \in touch[p].rows
        /\ record'[i] \in Record
        /\ record'[i].group = record[i].group
        /\ Linked(record'[i]) \subseteq touch[p].links \cup raced
    BY <1>1, <1>5, KeepRows
  <2>2. touch[p].links \subseteq raced /\ touch[q].links \subseteq raced
    BY <1>1, <2>1 DEF Apart
  <2>3. Linked(record'[i]) \subseteq raced /\ Linked(record[i]) \subseteq raced
    BY <1>2, <2>1, <2>2
  <2>4. record'[i] \in Draft /\ record[i] \in Draft
    BY <1>1, <2>1, RecordDraft, RaceTypeParts
  <2>5. PICK r \in Draft : r = record'[i]
    BY <2>4
  <2>6. \A e \in Entities \ raced : Collected(r, e) = 0 /\ Collected(record[i], e) = 0
    BY <2>3, <2>4, <2>5, DraftCollected
  <2> QED
    BY <1>2, <1>4, <2>1, <2>2, <2>3, <2>5, <2>6
<1>6. CASE Row(i) \notin DOMAIN work[p]
  <2>1. i \notin next .. (next + Len(new[p]) - 1)
    BY <1>2, <1>3
  <2>2. record'[i] = record[i]
    BY <1>1, <1>6, <2>1, KeepRows
  <2> QED
    BY <1>2, <1>4, <2>2
<1> QED
  BY <1>5, <1>6

\* The same of a payment.
LEMMA PaymentHeld ==
  ASSUME RaceInv, NEW p \in Requests, NEW q \in Requests, p # q, Keep(p),
         NEW k \in Payments, Abono(k) \in touch[q].rows
  PROVE  /\ payment'[k].state # "none"
         /\ payment'[k].state = "live" => payment'[k].objective \in touch[q].links \cup raced
         /\ \A e \in Entities \ raced : Paid(payment'[k], e) = Paid(payment[k], e)
<1>1. /\ RaceTypes /\ Imaged(p) /\ Traced(p) /\ Traced(q) /\ Apart(p, q)
  BY DEF RaceInv, Sound
<1>2. /\ payment[k].state # "none"
      /\ payment[k].state = "live" => payment[k].objective \in touch[q].links \cup raced
  BY <1>1, Keys DEF Traced
<1>3. CASE Abono(k) \in DOMAIN work[p]
  <2>1. payment'[k] = NoPayment("deleted") /\ Abono(k) \in touch[p].rows
    BY <1>1, <1>3, KeepPayments
  <2>2. touch[q].links \subseteq raced
    BY <1>1, <2>1 DEF Apart
  <2>3. payment'[k].state = "deleted"
    BY <2>1 DEF NoPayment
  <2>4. \A e \in Entities \ raced : Paid(payment'[k], e) = 0 /\ Paid(payment[k], e) = 0
    BY <1>2, <2>2, <2>3 DEF Paid
  <2> QED
    BY <2>3, <2>4
<1>4. CASE Abono(k) \notin DOMAIN work[p]
  <2>1. payment'[k] = payment[k]
    <3>1. CASE newPay[p] = << >>
      BY <1>1, <1>4, <3>1, KeepPayments
    <3>2. CASE newPay[p] # << >>
      <4>1. PICK l \in Payments :
                /\ payment[l].state = "none"
                /\ \A m \in Payments \ {l} :
                     Abono(m) \notin DOMAIN work[p] => payment'[m] = payment[m]
        BY <1>1, <3>2, KeepPayments
      <4> QED
        BY <1>2, <1>4, <4>1
    <3> QED
      BY <3>1, <3>2
  <2> QED
    BY <1>2, <2>1
<1> QED
  BY <1>3, <1>4

\* What a balance is to a request before and after the commit of another.
LEMMA OwnHeld ==
  ASSUME RaceInv, NEW p \in Requests, NEW q \in Requests, p # q, Keep(p),
         work'[q] = work[q], NEW e \in Entities \ raced
  PROVE  /\ e \in touch[q].changes => balance'[e] = balance[e]
         /\ e \in touch[q].changes => Own(q, e)' = Own(q, e)
         /\ e \notin touch[q].changes =>
              Own(q, e) = balance[e] /\ Own(q, e)' = balance'[e]
<1>1. /\ RaceTypes /\ Imaged(p) /\ Imaged(q) /\ Apart(p, q) /\ e \in Entities
  BY DEF RaceInv, Sound
<1>2. ASSUME e \in touch[q].changes
      PROVE  balance'[e] = balance[e] /\ Own(q, e)' = Own(q, e)
  <2>1. e \notin touch[p].changes
    BY <1>1, <1>2 DEF Apart
  <2>2. Entity(e) \notin DOMAIN work[p]
    BY <1>1, <2>1, ChangedEntity
  <2>3. balance'[e] = balance[e]
    BY <1>1, <2>2, KeepBalances
  <2>4. CASE Entity(e) \in DOMAIN work[q]
    <3>1. PICK f : f = work[q][Entity(e)]
      OBVIOUS
    <3>2. Own(q, e) = IF f.byHand THEN balance[e] ELSE f.balance
      BY <2>4, <3>1 DEF Own, OwnFigure
    <3>3. Own(q, e)' = IF f.byHand THEN balance'[e] ELSE f.balance
      BY <2>4, <3>1 DEF Own, OwnFigure
    <3> QED
      BY <2>3, <3>2, <3>3
  <2>5. CASE Entity(e) \notin DOMAIN work[q]
    <3>1. Own(q, e) = balance[e] /\ Own(q, e)' = balance'[e]
      BY <2>5 DEF Own, OwnFigure, Committed, Figure
    <3> QED
      BY <2>3, <3>1
  <2> QED
    BY <2>3, <2>4, <2>5
<1>3. ASSUME e \notin touch[q].changes
      PROVE  Own(q, e) = balance[e] /\ Own(q, e)' = balance'[e]
  <2>1. Entity(e) \notin DOMAIN work[q]
    BY <1>1, <1>3, ChangedEntity
  <2> QED
    BY <2>1 DEF Own, OwnFigure, Committed, Figure
<1> QED
  BY <1>2, <1>3

\* A statement of a request weighs after the commit of another what it weighed.
LEMMA WeighHeld ==
  ASSUME RaceInv, NEW p \in Requests, NEW q \in Requests, p # q, Drawn(p), Keep(p),
         work'[q] = work[q], NEW e \in Entities \ raced, NEW s, Fit(q, s)
  PROVE  Weigh(q, s, e)' = Weigh(q, s, e)
<1>1. /\ s \in Statements /\ e \in Entities
      /\ Pending(s) \subseteq touch[q].rows /\ ChangesOf(s) \subseteq touch[q].changes
  BY DEF Fit
<1>2. CASE s.do \in {"save", "update", "drop"}
  <2>1. s.id \in Ids /\ Row(s.id) \in touch[q].rows
    BY <1>1, <1>2, StatementParts DEF Pending
  <2>2. Collected(record'[s.id], e) = Collected(record[s.id], e)
    BY <2>1, RowHeld
  <2>3. PICK x : x = Collected(record[s.id], e)
    OBVIOUS
  <2>4. Collected(record[s.id], e)' = x
    BY <2>2, <2>3 DEF Collected, Movement, Contribution
  <2>5. Weigh(q, s, e) = IF s.do = "drop" THEN x ELSE x - Collected(s.row, e)
    BY <1>2, <2>3 DEF Weigh
  <2>6. Weigh(q, s, e)' = IF s.do = "drop" THEN x ELSE x - Collected(s.row, e)
    BY <1>2, <2>4 DEF Weigh
  <2> QED
    BY <2>5, <2>6
<1>3. CASE s.do = "unpay"
  <2>1. s.id \in Payments /\ Abono(s.id) \in touch[q].rows
    BY <1>1, <1>3, StatementParts DEF Pending
  <2>2. Paid(payment'[s.id], e) = Paid(payment[s.id], e)
    BY <2>1, PaymentHeld
  <2>3. Paid(payment[s.id], e)' = Paid(payment'[s.id], e)
    BY DEF Paid
  <2> QED
    BY <1>3, <2>2, <2>3 DEF Weigh
<1>4. CASE s.do = "write"
  <2>1. s.on \in touch[q].changes
    BY <1>1, <1>4 DEF ChangesOf
  <2>2. s.on = e => Own(q, e)' = Own(q, e)
    BY <2>1, OwnHeld
  <2> QED
    BY <1>4, <2>2 DEF Weigh
<1>5. CASE s.do \in {"insert", "pay", "adjust", "commit"}
  BY <1>5 DEF Weigh
<1> QED
  BY <1>1, <1>2, <1>3, <1>4, <1>5, StatementParts

\* What a request would keep is the same after the commit of another.
LEMMA KeptHeld ==
  ASSUME RaceInv, NEW p \in Requests, NEW q \in Requests, p # q, Drawn(p), Keep(p),
         work'[q] = work[q], new'[q] = new[q], newPay'[q] = newPay[q],
         NEW e \in Entities \ raced
  PROVE  Kept(q, e)' = Kept(q, e)
<1>1. RaceTypes /\ Imaged(q) /\ e \in Entities
  BY DEF RaceInv, Sound
<1>2. ASSUME NEW i \in Ids PROVE Moved(q, i, e)' = Moved(q, i, e)
  <2>1. CASE Row(i) \in DOMAIN work[q]
    <3>1. PICK image : image = work[q][Row(i)]
      OBVIOUS
    <3>2. GoodImage(q, Row(i), image)
      BY <1>1, <2>1, <3>1, ImagedGood
    <3>3. Row(i) \in touch[q].rows
      BY <3>2, Keys DEF GoodImage
    <3>4. Collected(record'[i], e) = Collected(record[i], e)
      BY <3>3, RowHeld
    <3>5. Moved(q, i, e) = Collected(image, e) - Collected(record[i], e)
      BY <2>1, <3>1 DEF Moved
    <3>6. Moved(q, i, e)' = Collected(image, e) - Collected(record'[i], e)
      <4>1. Collected(record[i], e)' = Collected(record'[i], e)
        BY DEF Collected, Movement, Contribution
      <4> QED
        BY <2>1, <3>1, <4>1 DEF Moved
    <3> QED
      BY <3>4, <3>5, <3>6
  <2>2. CASE Row(i) \notin DOMAIN work[q]
    BY <2>2 DEF Moved
  <2> QED
    BY <2>1, <2>2
<1>3. ASSUME NEW k \in Payments PROVE Unpaid(q, k, e)' = Unpaid(q, k, e)
  <2>1. CASE Abono(k) \in DOMAIN work[q]
    <3>1. PICK image : image = work[q][Abono(k)]
      OBVIOUS
    <3>2. GoodImage(q, Abono(k), image)
      BY <1>1, <2>1, <3>1, ImagedGood
    <3>3. Abono(k) \in touch[q].rows
      BY <3>2, Keys DEF GoodImage
    <3>4. Paid(payment'[k], e) = Paid(payment[k], e)
      BY <3>3, PaymentHeld
    <3>5. Paid(payment[k], e)' = Paid(payment'[k], e)
      BY DEF Paid
    <3> QED
      BY <2>1, <3>4, <3>5 DEF Unpaid
  <2>2. CASE Abono(k) \notin DOMAIN work[q]
    BY <2>2 DEF Unpaid
  <2> QED
    BY <2>1, <2>2
<1>4. PICK rows : rows = [i \in Ids |-> Moved(q, i, e)]
  OBVIOUS
<1>5. [i \in Ids |-> Moved(q, i, e)'] = rows
  BY <1>2, <1>4
<1>6. PICK pays : pays = [k \in Payments |-> Unpaid(q, k, e)]
  OBVIOUS
<1>7. [k \in Payments |-> Unpaid(q, k, e)'] = pays
  BY <1>3, <1>6
<1>8. PICK x : x = new[q]
  OBVIOUS
<1>9. PICK y : y = newPay[q]
  OBVIOUS
<1>10. Kept(q, e) = SumOver(Ids, rows) + Total(MaxPayments, pays)
         + Total(Len(x), [k \in 1..Len(x) |-> Collected(x[k], e)])
         + (IF y = << >> THEN 0 ELSE Paid(y[1], e))
  BY <1>4, <1>6, <1>8, <1>9 DEF Kept
<1>11. Kept(q, e)' = SumOver(Ids, rows) + Total(MaxPayments, pays)
         + Total(Len(x), [k \in 1..Len(x) |-> Collected(x[k], e)])
         + (IF y = << >> THEN 0 ELSE Paid(y[1], e))
  BY <1>5, <1>7, <1>8, <1>9 DEF Kept
<1> QED
  BY <1>10, <1>11

\* A statement stays fit after the commit of another request.
LEMMA FitHeld ==
  ASSUME RaceInv, NEW p \in Requests, NEW q \in Requests, p # q, Drawn(p), Keep(p),
         touch'[q] = touch[q], raced' = raced, NEW s, Fit(q, s)
  PROVE  Fit(q, s)'
<1>1. \A r : Shaped(r) => Shaped(r)'
  BY DEF Shaped
<1>2. /\ s \in Statements
      /\ Pending(s) \subseteq touch'[q].rows
      /\ ChangesOf(s) \subseteq touch'[q].changes
      /\ s.do = "insert" => s.row.state = "live" /\ Shaped(s.row)'
      /\ s.do = "pay" => s.row.state = "live"
  BY <1>1 DEF Fit
<1>3. s.do \in {"save", "update"} =>
        s.id \in Ids /\ Row(s.id) \in touch[q].rows
  BY <1>2, StatementParts DEF Fit, Pending
<1>4. s.do \in {"save", "update"} =>
        /\ record'[s.id].group = record[s.id].group
        /\ record'[s.id] = record[s.id] \/ touch[q].links \subseteq raced
  BY <1>3, RowHeld
<1>5. s.do \in {"save", "update"} =>
        /\ s.row.state = "live" /\ s.row.group = record'[s.id].group
        /\ Linked(s.row) \subseteq touch'[q].links
        /\ Shaped(s.row)'
  BY <1>1, <1>4 DEF Fit
<1>6. s.do = "update" =>
        /\ \/ touch'[q].links \subseteq raced'
           \/ \A c \in DOMAIN s.row \ s.columns : record'[s.id][c] = s.row[c]
        /\ "state" \in s.columns /\ s.row.type # "expense" => "type" \in s.columns
  BY <1>4 DEF Fit
<1> QED
  BY <1>2, <1>5, <1>6 DEF Fit

\* Everything RaceInv says of a request holds after the commit of another.
LEMMA OthersHeld ==
  ASSUME RaceInv, NEW p \in Requests, NEW q \in Requests, p # q, Drawn(p), Keep(p),
         todo'[q] = todo[q], work'[q] = work[q], new'[q] = new[q],
         newPay'[q] = newPay[q], touch'[q] = touch[q], raced' = raced
  PROVE  Sound(q)'
<1>1. RaceTypes /\ Sound(q) /\ Imaged(q) /\ Imaged(p)
  BY DEF RaceInv, Sound
<1>2. todo[q] \in Seq(Statements)
  BY <1>1 DEF RaceTypes
<1>3. \A k \in 1..Len(todo[q]) : Fit(q, todo[q][k])
  BY <1>1 DEF Sound, Ordered
<1>4. Balanced(q)'
  <2>1. status' = status
    BY <1>1, KeepBalances
  <2> SUFFICES ASSUME NEW e \in Entities \ raced, status[e] = "live"
               PROVE  Own(q, e)' + Due(q, e)' = balance'[e] + Kept(q, e)'
    BY <2>1 DEF Balanced
  <2>2. \A s \in Statements :
          (\E k \in 1..Len(todo'[q]) : s = todo'[q][k]) => Weigh(q, s, e)' = Weigh(q, s, e)
    <3> SUFFICES ASSUME NEW s \in Statements, NEW k \in 1..Len(todo[q]), s = todo[q][k]
                 PROVE  Weigh(q, s, e)' = Weigh(q, s, e)
      OBVIOUS
    <3>1. Fit(q, s)
      BY <1>3
    <3> QED
      BY <3>1, WeighHeld
  <2>3. Due(q, e)' = Due(q, e)
    BY <1>2, <2>2, DueMoves, DueWeight
  <2>4. Kept(q, e)' = Kept(q, e)
    BY KeptHeld
  <2>5. Own(q, e) + Due(q, e) = balance[e] + Kept(q, e)
    BY <1>1 DEF Sound, Balanced
  <2>6. /\ Own(q, e) \in Int /\ balance[e] \in Int /\ balance'[e] \in Int
        /\ Kept(q, e) \in Int
    BY <1>1, FigureType, RaceTypeParts, KeepBalances, KeptParts
  <2>7. Due(q, e) \in Int
    <3>1. Weights(q, e) \in [Statements -> Int]
      BY <1>1, WeightsType
    <3> QED
      BY <1>2, <3>1, WeightInt, DueWeight
  <2>8. PICK x : x = Own(q, e)'
    OBVIOUS
  <2>9. PICK y \in Int : y = Due(q, e)
    BY <2>7
  <2>10. PICK z \in Int : z = Kept(q, e)
    BY <2>6
  <2>11. x + y = balance'[e] + z
    <3>1. CASE e \in touch[q].changes
      <4>1. x = Own(q, e) /\ balance'[e] = balance[e]
        BY <2>8, <3>1, OwnHeld
      <4> QED
        BY <2>5, <2>9, <2>10, <4>1
    <3>2. CASE e \notin touch[q].changes
      <4>1. Own(q, e) = balance[e] /\ x = balance'[e]
        BY <2>8, <3>2, OwnHeld
      <4>2. y = z
        <5>1. PICK b \in Int : b = balance[e]
          BY <2>6
        <5>2. b + y = b + z
          BY <2>5, <2>9, <2>10, <4>1, <5>1
        <5>3. b \in Int /\ y \in Int /\ z \in Int
          BY <2>9, <2>10, <5>1
        <5> QED
          BY <5>2, <5>3
      <4> QED
        BY <4>1, <4>2
    <3> QED
      BY <3>1, <3>2
  <2> QED
    BY <2>3, <2>4, <2>8, <2>9, <2>10, <2>11
<1>5. Once(q)'
  <2>1. \A r : Times(q, r)' = Times(q, r)
    BY <1>2, TimesNow, TimesWeight
  <2> QED
    BY <1>1, <2>1 DEF Sound, Once
<1>6. Ordered(q)'
  <2>2. PICK list \in Seq(Statements) : list = todo[q]
    BY <1>2
  <2>3. ASSUME NEW k \in 1..Len(list) PROVE Fit(q, list[k])'
    <3>1. Fit(q, list[k])
      BY <1>3, <2>2
    <3> QED
      BY <3>1, FitHeld
  <2>4. \A k \in 1..Len(list) :
          LET s == list[k]
          IN  /\ s.do = "commit" <=> k = Len(list)
              /\ s.do = "write" => k = 1 \/ (k = 2 /\ list[1].do = "pay")
              /\ s.do = "pay" => k = 1 /\ newPay'[q] = << >>
              /\ s.do = "write" /\ s.figure.byHand =>
                   k = 1 /\ Len(list) = 2 /\ work'[q] = NoWork
                     /\ new'[q] = << >> /\ newPay'[q] = << >>
    BY <1>1, <2>2 DEF Sound, Ordered
  <2>5. todo'[q] = list
    BY <2>2
  <2> QED
    BY <2>3, <2>4, <2>5 DEF Ordered
<1>7. AtRest(q)'
  BY <1>1 DEF Sound, AtRest
<1>8. Imaged(q)'
  <2>1. ASSUME NEW image, NEW key \in DOMAIN work[q], image = work[q][key]
        PROVE  GoodImage(q, key, image)'
    <3>1. GoodImage(q, key, image)
      BY <1>1, <2>1, ImagedGood
    <3>2. CASE \E i \in Ids :
               /\ key = Row(i) /\ key \in touch[q].rows
               /\ image \in Record /\ image.state \in {"live", "deleted"}
               /\ image.group = record[i].group
               /\ Linked(image) \subseteq touch[q].links \cup raced
               /\ Shaped(image)
      <4>1. PICK i \in Ids :
               /\ key = Row(i) /\ key \in touch[q].rows
               /\ image \in Record /\ image.state \in {"live", "deleted"}
               /\ image.group = record[i].group
               /\ Linked(image) \subseteq touch[q].links \cup raced
               /\ Shaped(image)
        BY <3>2
      <4>2. record'[i].group = record[i].group
        BY <4>1, RowHeld
      <4>3. Shaped(image)'
        BY <4>1 DEF Shaped
      <4> QED
        BY <4>1, <4>2, <4>3 DEF GoodImage
    <3>3. CASE \E k \in Payments :
             key = Abono(k) /\ key \in touch[q].rows /\ image = NoPayment("deleted")
      BY <3>3 DEF GoodImage
    <3>4. CASE \E e \in touch[q].changes :
             /\ key = Entity(e) /\ image \in Figures
             /\ image.byHand =>
                  Len(todo[q]) = 1 /\ DOMAIN work[q] = {key} /\ new[q] = << >> /\ newPay[q] = << >>
      BY <3>4, Zenon DEF GoodImage
    <3> QED
      BY <3>1, <3>2, <3>3, <3>4, Zenon DEF GoodImage
  <2> QED
    BY <2>1, ImagedNow
<1>9. Traced(q)'
  <2>1. touch[q].changes \subseteq touch[q].links /\ touch[q].links \subseteq Entities
    BY <1>1 DEF Sound, Traced
  <2>2. ASSUME NEW r \in touch[q].rows
        PROVE
         \/ \E i \in Ids : /\ r = Row(i) /\ i < next'
                           /\ Linked(record'[i]) \subseteq touch[q].links \cup raced
         \/ \E k \in Payments :
              /\ r = Abono(k) /\ payment'[k].state # "none"
              /\ payment'[k].state = "live" => payment'[k].objective \in touch[q].links \cup raced
    <3>1. CASE \E i \in Ids : r = Row(i)
      <4>1. PICK i \in Ids : r = Row(i)
        BY <3>1
      <4>2. i < next' /\ Linked(record'[i]) \subseteq touch[q].links \cup raced
        BY <2>2, <4>1, RowHeld
      <4> QED
        BY <4>1, <4>2
    <3>2. CASE \E k \in Payments : r = Abono(k)
      <4>1. PICK k \in Payments : r = Abono(k)
        BY <3>2
      <4>2. /\ payment'[k].state # "none"
            /\ payment'[k].state = "live" => payment'[k].objective \in touch[q].links \cup raced
        BY <2>2, <4>1, PaymentHeld
      <4> QED
        BY <4>1, <4>2
    <3>3. \/ \E i \in Ids : r = Row(i)
          \/ \E k \in Payments : r = Abono(k)
      BY <1>1, <2>2 DEF Sound, Traced
    <3> QED
      BY <3>1, <3>2, <3>3
  <2>3. \A r : Linked(r)' = Linked(r)
    BY DEF Linked
  <2> QED
    BY <2>1, <2>2, <2>3 DEF Traced
<1> QED
  BY <1>4, <1>5, <1>6, <1>7, <1>8, <1>9 DEF Sound

\* A request that ends leaves nothing behind in the memory of the process.
LEMMA ForgetFacts ==
  ASSUME RaceTypes, NEW p \in Requests, Forget(p)
  PROVE  /\ Idle(p)' /\ asked' = asked /\ raced' = raced
         /\ \A q \in Requests \ {p} :
              /\ todo'[q] = todo[q] /\ work'[q] = work[q] /\ new'[q] = new[q]
              /\ newPay'[q] = newPay[q] /\ touch'[q] = touch[q]
BY DEF RaceTypes, Forget, Idle

\* No request is entangled with one that is over.
LEMMA ApartEnded ==
  ASSUME RaceInv, NEW p \in Requests, Idle(p)', raced' = raced,
         \A q \in Requests \ {p} : touch'[q] = touch[q]
  PROVE  \A q, r \in Requests : q # r => Apart(q, r)'
<1> SUFFICES ASSUME NEW q \in Requests, NEW r \in Requests, q # r PROVE Apart(q, r)'
  OBVIOUS
<1>1. touch'[p] = [rows |-> {}, changes |-> {}, links |-> {}]
  BY DEF Idle, Nothing
<1>2. CASE q = p
  BY <1>1, <1>2 DEF Apart
<1>3. CASE r = p
  BY <1>1, <1>3 DEF Apart
<1>4. CASE q # p /\ r # p
  <2>1. Apart(q, r) /\ touch'[q] = touch[q] /\ touch'[r] = touch[r]
    BY <1>4 DEF RaceInv
  <2> QED
    BY <2>1 DEF Apart
<1> QED
  BY <1>2, <1>3, <1>4

\* A commit keeps the invariant: the balances written and the movements kept agree,
\* and every other request reads what it did, but for entities in raced.
LEMMA CommitStep ==
  ASSUME RaceInv, NEW p \in Requests, Drawn(p), Commits(p)
  PROVE  RaceInv'
<1>1. /\ todo[p] # << >> /\ Head(todo[p]).do = "commit" /\ Keep(p) /\ Forget(p)
      /\ RaceTypes
  BY DEF Commits, Running, RaceInv
<1>2. /\ Idle(p)' /\ asked' = asked /\ raced' = raced
      /\ \A q \in Requests \ {p} :
           /\ todo'[q] = todo[q] /\ work'[q] = work[q] /\ new'[q] = new[q]
           /\ newPay'[q] = newPay[q] /\ touch'[q] = touch[q]
  BY <1>1, ForgetFacts
<1>3. RaceTypes'
  BY <1>1, CommitTypes
<1>4. Files' /\ DamageIsConfined'
  BY <1>1, <1>2, CommitFiles, CommitBalances
<1>5. Sound(p)'
  BY <1>2, <1>3, IdleSoundNext DEF IdleIsSound
<1>6. \A q \in Requests \ {p} : Sound(q)'
  BY <1>1, <1>2, OthersHeld
<1>7. \A q, r \in Requests : q # r => Apart(q, r)'
  BY <1>2, ApartEnded
<1> QED
  BY <1>3, <1>4, <1>5, <1>6, <1>7 DEF RaceInv

\* A request that is rolled back.
LEMMA ForgetStep ==
  ASSUME RaceInv, NEW p \in Requests, todo[p] # << >>, Forget(p), UNCHANGED vars
  PROVE  RaceInv'
<1>1. RaceTypes /\ Files /\ DamageIsConfined
  BY DEF RaceInv
<1>2. /\ Idle(p)' /\ asked' = asked /\ raced' = raced
      /\ \A q \in Requests \ {p} :
           /\ todo'[q] = todo[q] /\ work'[q] = work[q] /\ new'[q] = new[q]
           /\ newPay'[q] = newPay[q] /\ touch'[q] = touch[q]
  BY <1>1, ForgetFacts
<1>3. RaceTypes'
  <2>1. TypeOK'
    BY <1>1, Unmoved DEF RaceTypes, TypeOK
  <2>2. /\ DOMAIN todo' = Requests /\ DOMAIN work' = Requests /\ DOMAIN touch' = Requests
        /\ new' \in [Requests -> Seq(Draft)] /\ newPay' \in [Requests -> Seq(Payment)]
        /\ asked' \in Nat /\ raced' \subseteq Entities
    BY <1>1 DEF RaceTypes, Forget
  <2>3. \A q \in Requests : todo'[q] \in Seq(Statements)
    BY <1>1 DEF RaceTypes, Forget
  <2> QED
    BY <2>1, <2>2, <2>3 DEF RaceTypes
<1>4. Files'
  <2>1. asked' # 0
    BY <1>1, <1>2 DEF Files
  <2>2. record' = record /\ next' = next
    BY Unmoved
  <2>3. \A i \in Ids : Shaped(record[i]) /\ (i >= next => record[i].state = "none")
    BY <1>1 DEF Files
  <2>4. \A r : Shaped(r) => Shaped(r)'
    BY <1>2 DEF Shaped
  <2>5. PICK rows : rows = record
    OBVIOUS
  <2>6. \A i \in Ids : Shaped(rows[i])' /\ (i >= next' => rows[i].state = "none")
    BY <2>2, <2>3, <2>4, <2>5
  <2>7. rows = record'
    BY <2>2, <2>5
  <2> QED
    BY <2>1, <2>6, <2>7 DEF Files
<1>5. DamageIsConfined'
  BY <1>1, <1>2, Unmoved DEF DamageIsConfined, Explained
<1>6. Sound(p)'
  BY <1>2, <1>3, IdleSoundNext DEF IdleIsSound
<1>7. \A q \in Requests \ {p} : Sound(q)'
  <2> SUFFICES ASSUME NEW q \in Requests \ {p} PROVE Sound(q)'
    OBVIOUS
  <2>1. Sound(q)
    BY DEF RaceInv
  <2> QED
    BY <1>1, <1>2, <2>1, OthersKeep
<1>8. \A q, r \in Requests : q # r => Apart(q, r)'
  BY <1>2, ApartEnded
<1> QED
  BY <1>3, <1>4, <1>5, <1>6, <1>7, <1>8 DEF RaceInv

-----------------------------------------------------------------------------
(* Before the first request.                                               *)

\* Books without movements.
LEMMA NothingExplained ==
  ASSUME RaceTypes, NEW e \in Entities,
         \A i \in Ids : record[i].state = "none",
         \A k \in Payments : payment[k].state = "none"
  PROVE  Explained(e) = 0
<1>1. PICK c : c = [i \in Ids |-> Collected(record[i], e)]
  OBVIOUS
<1>2. PICK d : d = [k \in Payments |-> Paid(payment[k], e)]
  OBVIOUS
<1>3. c \in [Ids -> Int] /\ \A i \in Ids : c[i] = 0
  BY <1>1 DEF Collected
<1>4. d \in [Payments -> Int] /\ \A k \in Payments : d[k] = 0
  BY <1>2 DEF Paid
<1>5. SumOver(Ids, c) = 0
  <2>1. SumOver(Ids, c) = Total(MaxRecords, c)
    BY <1>3, SumOverAll
  <2> QED
    BY <1>3, <2>1, TotalZero, Bounds DEF Ids
<1>6. Total(MaxPayments, d) = 0
  BY <1>4, TotalZero, Bounds DEF Payments
<1> QED
  BY <1>1, <1>2, <1>5, <1>6 DEF Explained

\* Opening an entity before the first request keeps the invariant.
LEMMA OpenStep ==
  ASSUME RaceInv, OpensEntities
  PROVE  RaceInv'
<1>1. RaceTypes /\ Files /\ DamageIsConfined /\ asked = 0
  BY DEF RaceInv, OpensEntities
<1>2. PICK e \in Entities, amount \in Openings, goal \in Targets : Open(e, amount, goal)
  BY DEF OpensEntities
<1>3. /\ todo' = todo /\ work' = work /\ new' = new /\ newPay' = newPay
      /\ asked' = asked /\ touch' = touch /\ raced' = raced
  BY DEF OpensEntities, raceVars
<1>4. /\ record' = record /\ payment' = payment /\ next' = next /\ rules' = rules
      /\ status' = [status EXCEPT ![e] = "live"]
      /\ balance' = [balance EXCEPT ![e] = amount]
      /\ base' = [base EXCEPT ![e] = amount]
  BY <1>2 DEF Open
<1>5. amount \in Int /\ goal \in Int
  BY Values
<1>6. TypeOK'
  <2>1. target' \in [Objectives -> Int] /\ completed' \in [Objectives -> BOOLEAN]
    <3>1. target \in [Objectives -> Int] /\ completed \in [Objectives -> BOOLEAN]
      BY <1>1 DEF RaceTypes, TypeOK
    <3>2. CASE e \in Objectives
      <4>1. /\ target' = [target EXCEPT ![e] = goal]
            /\ completed' = [completed EXCEPT ![e] = amount >= goal]
        BY <1>2, <3>2 DEF Open
      <4>0. (amount >= goal) \in BOOLEAN
        BY <1>5
      <4>2. PICK mark \in BOOLEAN : mark = (amount >= goal)
        BY <4>0
      <4>3. completed' = [completed EXCEPT ![e] = mark]
        BY <4>1, <4>2
      <4>4. completed' \in [Objectives -> BOOLEAN]
        BY <3>1, <4>2, <4>3
      <4> QED
        BY <1>5, <3>1, <4>1, <4>4
    <3>3. CASE e \notin Objectives
      BY <1>2, <3>1, <3>3 DEF Open, goalVars
    <3> QED
      BY <3>2, <3>3
  <2>2. "live" \in States
    BY DEF States
  <2> QED
    BY <1>1, <1>4, <1>5, <2>1, <2>2 DEF RaceTypes, TypeOK
<1>7. RaceTypes'
  BY <1>1, <1>3, <1>6 DEF RaceTypes
<1>8. Files'
  <2>1. /\ \A i \in Ids : Shaped(record[i]) /\ (i >= next => record[i].state = "none")
        /\ next = 1 /\ \A k \in Payments : payment[k].state = "none"
        /\ \A p \in Requests : todo[p] = << >>
    BY <1>1 DEF Files
  <2>2. \A r : Shaped(r) => Shaped(r)'
    BY <1>3 DEF Shaped
  <2>3. PICK rows : rows = record
    OBVIOUS
  <2>4. \A i \in Ids : Shaped(rows[i])' /\ (i >= next' => rows[i].state = "none")
    BY <1>4, <2>1, <2>2, <2>3
  <2>5. rows = record'
    BY <1>4, <2>3
  <2> QED
    BY <1>3, <1>4, <2>1, <2>4, <2>5 DEF Files
<1>9. DamageIsConfined'
  <2>1. /\ \A i \in Ids : record[i].state = "none"
        /\ \A k \in Payments : payment[k].state = "none"
    BY <1>1 DEF Files, Ids
  <2> SUFFICES ASSUME NEW f \in Entities \ raced, status'[f] = "live"
               PROVE  balance'[f] = base'[f] + Explained(f)'
    BY <1>3 DEF DamageIsConfined
  <2>2. Explained(f) = 0
    BY <1>1, <2>1, NothingExplained
  <2>3. Explained(f)' = 0
    BY <1>4, <2>2 DEF Explained
  <2>4. CASE f = e
    <3>1. balance'[f] = amount /\ base'[f] = amount
      BY <1>1, <1>4, <2>4 DEF RaceTypes, TypeOK
    <3> QED
      BY <1>5, <2>3, <3>1
  <2>5. CASE f # e
    <3>1. balance'[f] = balance[f] /\ base'[f] = base[f] /\ status[f] = "live"
      BY <1>1, <1>4, <2>5 DEF RaceTypes, TypeOK
    <3>2. balance[f] = base[f] + 0
      BY <1>1, <2>2, <3>1 DEF DamageIsConfined
    <3> QED
      BY <2>3, <3>1, <3>2
  <2> QED
    BY <2>4, <2>5
<1>10. \A p \in Requests : Sound(p)'
  <2> SUFFICES ASSUME NEW p \in Requests PROVE Sound(p)'
    OBVIOUS
  <2>1. todo[p] = << >>
    BY <1>1 DEF Files
  <2>2. AtRest(p)
    BY DEF RaceInv, Sound
  <2>3. Idle(p)'
    BY <1>3, <2>1, <2>2 DEF AtRest, Idle
  <2> QED
    BY <1>7, <2>3, IdleSoundNext DEF IdleIsSound
<1>11. \A p, q \in Requests : p # q => Apart(p, q)'
  BY <1>3 DEF RaceInv, Apart
<1> QED
  BY <1>7, <1>8, <1>9, <1>10, <1>11 DEF RaceInv

\* The initial states satisfy the invariant.
LEMMA RaceStart ==
  ASSUME RaceInit
  PROVE  RaceInv /\ \A p \in Requests : Drawn(p)
<1>1. Init
  BY DEF RaceInit
<1>2. TypeOK
  BY <1>1, TypeInit
<1>3. \A p \in Requests :
        /\ todo[p] = << >> /\ work[p] = NoWork /\ new[p] = << >> /\ newPay[p] = << >>
        /\ touch[p] = Nothing
  BY DEF RaceInit
<1>4. RaceTypes
  <2>1. /\ DOMAIN todo = Requests /\ DOMAIN work = Requests /\ DOMAIN touch = Requests
        /\ new \in [Requests -> Seq(Draft)] /\ newPay \in [Requests -> Seq(Payment)]
        /\ asked \in Nat /\ raced \subseteq Entities
    BY DEF RaceInit
  <2>3. << >> \in Seq(Statements)
    OBVIOUS
  <2>2. \A p \in Requests : todo[p] \in Seq(Statements)
    BY <1>3, <2>3
  <2> QED
    BY <1>2, <2>1, <2>2 DEF RaceTypes
<1>5. Files
  <2>1. \A i \in Ids : record[i] = Unread("none", 0)
    BY <1>1 DEF Init
  <2>2. Unread("none", 0).state = "none" /\ Unread("none", 0).type = "expense"
    BY DEF Unread
  <2>3. \A i \in Ids : record[i].state = "none" /\ Shaped(record[i])
    BY <2>1, <2>2 DEF Shaped
  <2>4. next = 1 /\ \A k \in Payments : payment[k].state = "none"
    BY <1>1 DEF Init, NoPayment
  <2> QED
    BY <1>3, <2>3, <2>4 DEF Files
<1>6. DamageIsConfined
  BY <1>1 DEF Init, DamageIsConfined
<1>7. \A p \in Requests : Sound(p)
  BY <1>3, <1>4, IdleSound DEF IdleIsSound, Idle
<1>8. \A p, q \in Requests : Apart(p, q)
  BY <1>3 DEF Apart, Nothing
<1>9. \A p \in Requests : Drawn(p)
  BY <1>3 DEF Drawn
<1> QED
  BY <1>4, <1>5, <1>6, <1>7, <1>8, <1>9 DEF RaceInv

-----------------------------------------------------------------------------
(* The rows a request has inserted.                                        *)

\* A statement of a request keeps its new rows rows of the ledger.
LEMMA DrawnExecuting ==
  ASSUME RaceInv, NEW p \in Requests, Execute(p), \A q \in Requests : Drawn(q)
  PROVE  \A q \in Requests : Drawn(q)'
<1> SUFFICES ASSUME NEW q \in Requests PROVE Drawn(q)'
  OBVIOUS
<1>1. /\ todo[p] # << >> /\ raced' = raced /\ new \in [Requests -> Seq(Draft)]
  BY DEF Execute, Running, RaceInv, RaceTypes
<1>2. PICK s \in Statements : s = Head(todo[p]) /\ Fit(p, s)
  BY <1>1, Starting
<1>3. \A r : Shaped(r) => Shaped(r)'
  BY <1>1 DEF Shaped
<1>4. \/ Inserts(p, s)
      \/ new' = new
  BY <1>2 DEF Execute, Compares, Updates, Drops, Reads, Writes, Pays, Unpays
<1>5. CASE new'[q] = new[q]
  <2>1. PICK rows : rows = new[q]
    OBVIOUS
  <2>2. \A k \in 1..Len(rows) : rows[k].state = "live" /\ Shaped(rows[k])'
    BY <1>3, <2>1 DEF Drawn
  <2> QED
    BY <1>5, <2>1, <2>2 DEF Drawn
<1>6. CASE Inserts(p, s) /\ new'[q] # new[q]
  <2>1. q = p /\ new'[p] = Append(new[p], s.row) /\ s.do = "insert"
    BY <1>1, <1>6 DEF Inserts
  <2>2. s.row \in Draft /\ s.row.state = "live" /\ Shaped(s.row)
    BY <1>2, <2>1, StatementParts DEF Fit
  <2>3. PICK rows \in Seq(Draft) : rows = new[p]
    BY <1>1
  <2>4. PICK all : all = Append(rows, s.row)
    OBVIOUS
  <2>5. \A k \in 1..Len(rows) : rows[k].state = "live" /\ Shaped(rows[k])
    BY <2>1, <2>3 DEF Drawn
  <2>6. \A k \in 1..Len(all) : (k \in 1..Len(rows) /\ all[k] = rows[k]) \/ all[k] = s.row
    BY <2>2, <2>3, <2>4
  <2>7. ASSUME NEW k \in 1..Len(all) PROVE all[k].state = "live" /\ Shaped(all[k])
    <3>1. CASE all[k] = s.row
      BY <2>2, <3>1
    <3>2. CASE k \in 1..Len(rows) /\ all[k] = rows[k]
      <4>1. rows[k].state = "live" /\ Shaped(rows[k])
        BY <2>5, <3>2
      <4> QED
        BY <3>2, <4>1
    <3> QED
      BY <2>6, <3>1, <3>2
  <2>8. \A k \in 1..Len(all) : all[k].state = "live" /\ Shaped(all[k])'
    BY <1>3, <2>7
  <2>9. all = new'[q]
    BY <2>1, <2>3, <2>4
  <2> QED
    BY <2>8, <2>9 DEF Drawn
<1> QED
  BY <1>4, <1>5, <1>6

\* New rows are what they were when none is added.
LEMMA DrawnStays ==
  ASSUME raced \subseteq raced', NEW q, Drawn(q), new'[q] = new[q] \/ new'[q] = << >>
  PROVE  Drawn(q)'
<1>1. \A r : Shaped(r) => Shaped(r)'
  BY DEF Shaped
<1>2. CASE new'[q] = << >>
  BY <1>2 DEF Drawn
<1>3. CASE new'[q] = new[q]
  <2>1. PICK rows : rows = new[q]
    OBVIOUS
  <2>2. \A k \in 1..Len(rows) : rows[k].state = "live" /\ Shaped(rows[k])'
    BY <1>1, <2>1 DEF Drawn
  <2> QED
    BY <1>3, <2>1, <2>2 DEF Drawn
<1> QED
  BY <1>2, <1>3

-----------------------------------------------------------------------------
(* The goals of payments.                                                  *)

\* Every payment is of a goal: those on file and those a request is about to make.
Promised(p) ==
  /\ \A k \in 1..Len(newPay[p]) : newPay[p][k].objective \in Objectives
  /\ \A k \in 1..Len(todo[p]) : todo[p][k].do = "pay" => todo[p][k].row.objective \in Objectives

Funded ==
  /\ \A k \in Payments : payment[k].state = "live" => payment[k].objective \in Objectives
  /\ \A p \in Requests : Promised(p)

\* Payments are of goals after a step that registers none.
LEMMA FundedStays ==
  ASSUME Funded, payment' = payment,
         \A q \in Requests :
           /\ newPay'[q] = newPay[q] \/ newPay'[q] = << >>
           /\ todo'[q] = todo[q] \/ todo'[q] = << >>
  PROVE  Funded'
<1>1. ASSUME NEW q \in Requests PROVE Promised(q)'
  <2>1. \A k \in 1..Len(newPay'[q]) : newPay'[q][k].objective \in Objectives
    BY DEF Funded, Promised
  <2>2. \A k \in 1..Len(todo'[q]) :
          todo'[q][k].do = "pay" => todo'[q][k].row.objective \in Objectives
    BY DEF Funded, Promised
  <2> QED
    BY <2>1, <2>2 DEF Promised
<1> QED
  BY <1>1 DEF Funded

\* Payments are of goals after any statement.
LEMMA FundedExecuting ==
  ASSUME RaceInv, Funded, NEW p \in Requests, Execute(p)
  PROVE  Funded'
<1>1. /\ todo[p] # << >> /\ payment' = payment
      /\ newPay \in [Requests -> Seq(Payment)] /\ DOMAIN todo = Requests
  BY DEF Execute, Running, RaceInv, RaceTypes, vars
<1>2. PICK s \in Statements : s = Head(todo[p])
  BY <1>1, Starting
<1>3. PICK list \in Seq(Statements) : list = todo[p] /\ list # << >>
  BY <1>1, Starting
<1>4. PICK rest \in Seq(Statements) : rest = Tail(list)
  BY <1>1, <1>3, Starting
<1>5. \A k \in 1..Len(list) : list[k].do = "pay" => list[k].row.objective \in Objectives
  BY <1>3 DEF Funded, Promised
<1>6. \A k \in 1..Len(rest) : rest[k].do = "pay" => rest[k].row.objective \in Objectives
  <2>1. \A k \in 1..Len(rest) : k + 1 \in 1..Len(list) /\ rest[k] = list[k+1]
    BY <1>3, <1>4
  <2> QED
    BY <1>5, <2>1
<1>7. s.do = "pay" => s.row.objective \in Objectives
  <2>1. 1 \in 1..Len(list) /\ s = list[1]
    BY <1>2, <1>3
  <2> QED
    BY <1>5, <2>1
<1>8. Done(p) \/ \E x : x.do # "pay" /\ Replace(p, x)
  <2>1. ASSUME Compares(p, s), ~ Done(p) PROVE \E x : x.do # "pay" /\ Replace(p, x)
    <3>1. PICK C : Replace(p, [do |-> "update", id |-> s.id, row |-> s.row, columns |-> C])
      BY <2>1 DEF Compares
    <3>2. PICK x : x = [do |-> "update", id |-> s.id, row |-> s.row, columns |-> C]
      OBVIOUS
    <3>3. x.do # "pay"
      BY <3>2
    <3> QED
      BY <3>1, <3>2, <3>3
  <2>2. ASSUME Reads(p, s), ~ Done(p) PROVE \E x : x.do # "pay" /\ Replace(p, x)
    <3>1. PICK f : Replace(p, Write(s.on, f, TRUE))
      BY <2>2 DEF Reads
    <3>2. PICK x : x = Write(s.on, f, TRUE)
      OBVIOUS
    <3>3. x.do # "pay"
      BY <3>2 DEF Write
    <3> QED
      BY <3>1, <3>2, <3>3
  <2>3. \/ Inserts(p, s) \/ Compares(p, s) \/ Updates(p, s) \/ Drops(p, s)
        \/ Reads(p, s) \/ Writes(p, s) \/ Pays(p, s) \/ Unpays(p, s)
    BY <1>2 DEF Execute
  <2>4. Inserts(p, s) \/ Updates(p, s) \/ Drops(p, s) \/ Writes(p, s) \/ Pays(p, s) \/ Unpays(p, s)
          => Done(p)
    BY DEF Inserts, Updates, Drops, Writes, Pays, Unpays
  <2> QED
    BY <2>1, <2>2, <2>3, <2>4
<1>9. ASSUME NEW q \in Requests, q # p PROVE todo'[q] = todo[q]
  BY <1>1, <1>8, <1>9, DoneFacts, ReplaceFacts
<1>10. \A k \in 1..Len(todo'[p]) : todo'[p][k].do = "pay" => todo'[p][k].row.objective \in Objectives
  <2>1. CASE Done(p)
    <3>1. todo'[p] = rest
      BY <1>1, <1>3, <1>4, <2>1, DoneFacts
    <3> QED
      BY <1>6, <3>1
  <2>2. ASSUME NEW x, x.do # "pay", Replace(p, x)
        PROVE  \A k \in 1..Len(todo'[p]) :
                 todo'[p][k].do = "pay" => todo'[p][k].row.objective \in Objectives
    <3>1. todo'[p] = Before(x, rest)
      BY <1>1, <1>3, <1>4, <2>2, ReplaceFacts
    <3>2. PICK S : S = Statements \cup {x}
      OBVIOUS
    <3>3. x \in S /\ rest \in Seq(S)
      BY <1>4, <3>2
    <3>4. PICK all : all = Before(x, rest)
      OBVIOUS
    <3>5. /\ all[1] = x
          /\ \A k \in 1..Len(all) : k # 1 => k - 1 \in 1..Len(rest) /\ all[k] = rest[k-1]
      BY <3>3, <3>4, Prefixed
    <3>6. ASSUME NEW k \in 1..Len(all), all[k].do = "pay" PROVE all[k].row.objective \in Objectives
      <4>1. k # 1
        BY <2>2, <3>5, <3>6
      <4>2. k - 1 \in 1..Len(rest) /\ all[k] = rest[k-1]
        BY <3>5, <4>1, SMTT(30)
      <4> QED
        BY <1>6, <3>6, <4>2
    <3> QED
      BY <3>1, <3>4, <3>6
  <2> QED
    BY <1>8, <2>1, <2>2
<1>11. newPay' = newPay \/ (s.do = "pay" /\ newPay' = [newPay EXCEPT ![p] = Append(@, s.row)])
  BY <1>2 DEF Execute, Inserts, Compares, Updates, Drops, Reads, Writes, Pays, Unpays
<1>12. ASSUME NEW q \in Requests, NEW k \in 1..Len(newPay'[q])
       PROVE  newPay'[q][k].objective \in Objectives
  <2>1. \A j \in 1..Len(newPay[q]) : newPay[q][j].objective \in Objectives
    BY DEF Funded, Promised
  <2>2. CASE newPay'[q] = newPay[q]
    BY <2>1, <2>2
  <2>3. CASE q = p /\ s.do = "pay" /\ newPay'[p] = Append(newPay[p], s.row)
    <3>1. PICK rows \in Seq(Payment) : rows = newPay[p]
      BY <1>1
    <3>2. s.row \in Payment
      BY <1>2, <2>3, StatementParts
    <3>3. newPay'[q][k] = s.row \/ (k \in 1..Len(rows) /\ newPay'[q][k] = rows[k])
      BY <2>3, <3>1, <3>2
    <3> QED
      BY <1>7, <2>1, <2>3, <3>1, <3>3
  <2> QED
    BY <1>1, <1>11, <2>2, <2>3
<1>13. ASSUME NEW q \in Requests PROVE Promised(q)'
  <2>1. \A k \in 1..Len(todo'[q]) :
          todo'[q][k].do = "pay" => todo'[q][k].row.objective \in Objectives
    BY <1>9, <1>10 DEF Funded, Promised
  <2> QED
    BY <1>12, <2>1 DEF Promised
<1> QED
  BY <1>1, <1>13 DEF Funded

\* Payments are of goals after a commit.
LEMMA FundedCommitting ==
  ASSUME RaceInv, Funded, NEW p \in Requests, Commits(p)
  PROVE  Funded'
<1>1. RaceTypes /\ Imaged(p) /\ Traced(p) /\ Keep(p) /\ Forget(p)
  BY DEF RaceInv, Sound, Commits
<1>2. ASSUME NEW q \in Requests PROVE Promised(q)'
  <2>1. /\ newPay'[q] = newPay[q] \/ newPay'[q] = << >>
        /\ todo'[q] = todo[q] \/ todo'[q] = << >>
    <3>1. Idle(p)' /\ (q # p => todo'[q] = todo[q] /\ newPay'[q] = newPay[q])
      BY <1>1, ForgetFacts
    <3> QED
      BY <3>1 DEF Idle
  <2>2. \A k \in 1..Len(newPay'[q]) : newPay'[q][k].objective \in Objectives
    BY <2>1 DEF Funded, Promised
  <2>3. \A k \in 1..Len(todo'[q]) :
          todo'[q][k].do = "pay" => todo'[q][k].row.objective \in Objectives
    BY <2>1 DEF Funded, Promised
  <2> QED
    BY <2>2, <2>3 DEF Promised
<1>3. ASSUME NEW k \in Payments, payment'[k].state = "live"
      PROVE  payment'[k].objective \in Objectives
  <2>1. CASE Abono(k) \in DOMAIN work[p]
    <3>1. payment'[k] = NoPayment("deleted")
      BY <1>1, <2>1, KeepPayments
    <3>2. payment'[k].state = "deleted"
      BY <3>1 DEF NoPayment
    <3> QED
      BY <1>3, <3>2
  <2>2. CASE Abono(k) \notin DOMAIN work[p] /\ payment'[k] = payment[k]
    BY <1>3, <2>2 DEF Funded
  <2>3. CASE Abono(k) \notin DOMAIN work[p] /\ payment'[k] # payment[k]
    <3>1. newPay[p] # << >>
      BY <1>1, <2>3, KeepPayments
    <3>2. payment'[k] = newPay[p][1]
      BY <1>1, <2>3, <3>1, KeepPayments
    <3>3. newPay[p] \in Seq(Payment)
      BY <1>1 DEF RaceTypes
    <3>4. 1 \in 1..Len(newPay[p])
      BY <3>1, <3>3
    <3> QED
      BY <3>2, <3>4 DEF Funded, Promised
  <2> QED
    BY <2>1, <2>2, <2>3
<1> QED
  BY <1>2, <1>3 DEF Funded

-----------------------------------------------------------------------------
(* The start of a request.                                                 *)

\* The statements a handler may begin with.
Proper(list) ==
  \A k \in 1..Len(list) :
    LET s == list[k]
    IN  /\ s.do \in {"insert", "pay", "drop", "unpay", "save", "adjust", "write"}
        /\ s.do = "insert" => s.row.state = "live" /\ Shaped(s.row)
        /\ s.do \in {"save", "drop"} => s.id < next
        /\ s.do = "save" => /\ s.row.state = "live" /\ Shaped(s.row)
                            /\ s.row.group = record[s.id].group
        /\ s.do = "pay" => k = 1 /\ s.row.state = "live"
        /\ s.do = "unpay" =>
             /\ payment[s.id].state # "none"
             /\ payment[s.id].objective \in Touched(list).changes
        /\ s.do = "write" => k = 1 \/ (k = 2 /\ list[1].do = "pay")
        /\ s.do = "write" /\ s.figure.byHand => Len(list) = 1

\* What a list of statements touches is what each of them touches.
LEMMA TouchedParts ==
  ASSUME NEW list \in Seq(Statements)
  PROVE  LET mine == Touched(list)
         IN  /\ \A k \in 1..Len(list) :
                  /\ RowsOf(list[k]) \subseteq mine.rows
                  /\ ChangesOf(list[k]) \subseteq mine.changes
                  /\ LinkedBy(list[k]) \subseteq mine.links
             /\ mine.changes \subseteq mine.links
             /\ mine.links \subseteq Entities
             /\ \A r \in mine.rows : \E k \in 1..Len(list) : r \in RowsOf(list[k])
<1>1. DOMAIN list = 1..Len(list)
  OBVIOUS
<1>2. PICK mine : mine = Touched(list)
  OBVIOUS
<1>3. /\ mine.rows = UNION {RowsOf(list[k]) : k \in 1..Len(list)}
      /\ mine.changes = UNION {ChangesOf(list[k]) : k \in 1..Len(list)}
      /\ mine.links = UNION {ChangesOf(list[k]) \cup LinkedBy(list[k]) : k \in 1..Len(list)}
  BY <1>1, <1>2 DEF Touched
<1>4. \A k \in 1..Len(list) : ChangesOf(list[k]) \subseteq Entities /\ LinkedBy(list[k]) \subseteq Entities
  <2> SUFFICES ASSUME NEW k \in 1..Len(list)
               PROVE ChangesOf(list[k]) \subseteq Entities /\ LinkedBy(list[k]) \subseteq Entities
    OBVIOUS
  <2>1. PICK s \in Statements : s = list[k]
    OBVIOUS
  <2>2. ChangesOf(s) \subseteq Entities
    BY StatementParts DEF ChangesOf
  <2>3. LinkedBy(s) \subseteq Entities
    BY DEF LinkedBy, Linked
  <2> QED
    BY <2>1, <2>2, <2>3
<1>5. \A k \in 1..Len(list) :
        /\ RowsOf(list[k]) \subseteq mine.rows
        /\ ChangesOf(list[k]) \subseteq mine.changes
        /\ LinkedBy(list[k]) \subseteq mine.links
  BY <1>3
<1>6. mine.changes \subseteq mine.links
  BY <1>3
<1>7. mine.links \subseteq Entities
  <2> SUFFICES ASSUME NEW e \in mine.links PROVE e \in Entities
    OBVIOUS
  <2>1. PICK k \in 1..Len(list) : e \in ChangesOf(list[k]) \cup LinkedBy(list[k])
    BY <1>3
  <2> QED
    BY <1>4, <2>1
<1>8. \A r \in mine.rows : \E k \in 1..Len(list) : r \in RowsOf(list[k])
  BY <1>3
<1> QED
  BY <1>2, <1>5, <1>6, <1>7, <1>8

\* Every statement of a proper request is fit for it.
LEMMA AskFits ==
  ASSUME RaceTypes, NEW p \in Requests, NEW list \in Seq(Statements), Proper(list),
         record' = record, touch'[p] = Touched(list), raced \subseteq raced',
         NEW k \in 1..Len(list)
  PROVE  Fit(p, list[k])'
<1>1. PICK s \in Statements : s = list[k]
  OBVIOUS
<1>2. /\ s.do \in {"insert", "pay", "drop", "unpay", "save", "adjust", "write"}
      /\ s.do = "insert" => s.row.state = "live" /\ Shaped(s.row)
      /\ s.do = "save" => /\ s.row.state = "live" /\ Shaped(s.row)
                          /\ s.row.group = record[s.id].group
      /\ s.do = "pay" => s.row.state = "live"
  BY <1>1 DEF Proper
<1>3. PICK mine : mine = Touched(list)
  OBVIOUS
<1>4. /\ RowsOf(s) \subseteq mine.rows /\ ChangesOf(s) \subseteq mine.changes
      /\ LinkedBy(s) \subseteq mine.links
  BY <1>1, <1>3, TouchedParts
<1>5. Pending(s) \subseteq mine.rows
  BY <1>2, <1>4 DEF Pending, RowsOf
<1>6. s.do = "save" => Linked(s.row) \subseteq mine.links
  BY <1>4 DEF LinkedBy
<1>7. \A r : Shaped(r) => Shaped(r)'
  BY DEF Shaped
<1>8. Pending(s)' = Pending(s) /\ ChangesOf(s)' = ChangesOf(s) /\ Linked(s.row)' = Linked(s.row)
  BY DEF Pending, ChangesOf, Linked
<1>9. Fit(p, s)'
  <2>1. /\ s \in Statements
        /\ Pending(s) \subseteq touch'[p].rows
        /\ ChangesOf(s) \subseteq touch'[p].changes
        /\ s.do = "insert" => s.row.state = "live" /\ Shaped(s.row)'
        /\ s.do = "pay" => s.row.state = "live"
    BY <1>2, <1>3, <1>4, <1>5, <1>7
  <2>2. s.do \in {"save", "update"} =>
          /\ s.row.state = "live" /\ s.row.group = record'[s.id].group
          /\ Linked(s.row) \subseteq touch'[p].links
          /\ Shaped(s.row)'
    BY <1>2, <1>3, <1>6, <1>7
  <2>3. s.do # "update"
    BY <1>2
  <2> QED
    BY <2>1, <2>2, <2>3 DEF Fit
<1> QED
  BY <1>1, <1>9

\* The statements of a proper request, and then its commit, are in order.
LEMMA AskOrdered ==
  ASSUME RaceTypes, NEW p \in Requests, NEW list \in Seq(Statements), Proper(list),
         record' = record, touch'[p] = Touched(list), raced \subseteq raced',
         todo'[p] = list \o <<Commit>>, work'[p] = NoWork, new'[p] = << >>, newPay'[p] = << >>
  PROVE  Ordered(p)'
<1>1. PICK n \in Nat : n = Len(list)
  OBVIOUS
<1>2. PICK all : all = list \o <<Commit>>
  OBVIOUS
<1>3. Commit \in Statements /\ Commit.do = "commit"
  BY StatementKinds DEF Commit
<1>4. /\ all \in Seq(Statements) /\ Len(all) = n + 1 /\ all[n+1] = Commit
      /\ \A k \in 1..n : all[k] = list[k]
  BY <1>1, <1>2, <1>3
<1>5. \A k \in 1..n : Fit(p, all[k])'
  <2> SUFFICES ASSUME NEW k \in 1..n PROVE Fit(p, all[k])'
    OBVIOUS
  <2>1. Fit(p, list[k])'
    BY <1>1, AskFits
  <2>2. PICK s : s = list[k]
    OBVIOUS
  <2>3. Fit(p, s)'
    BY <2>1, <2>2
  <2> QED
    BY <1>4, <2>2, <2>3
<1>6. Fit(p, Commit)'
  <2>1. Pending(Commit) = {} /\ ChangesOf(Commit) = {}
    BY DEF Pending, ChangesOf, Commit
  <2> QED
    BY <1>3, <2>1 DEF Fit
<1>7. \A k \in 1..Len(all) : Fit(p, all[k])'
  BY <1>4, <1>5, <1>6
<1>8. ASSUME NEW k \in 1..Len(all)
      PROVE  LET s == all[k]
             IN  /\ s.do = "commit" <=> k = Len(all)
                 /\ s.do = "write" => k = 1 \/ (k = 2 /\ all[1].do = "pay")
                 /\ s.do = "pay" => k = 1
                 /\ s.do = "write" /\ s.figure.byHand => k = 1 /\ Len(all) = 2
  <2>1. CASE k = n + 1
    <3>1. all[k].do = "commit"
      BY <1>3, <1>4, <2>1
    <3> QED
      BY <1>4, <2>1, <3>1
  <2>2. CASE k \in 1..n
    <3>1. PICK s \in Statements : s = list[k]
      BY <1>1, <2>2
    <3>2. /\ s.do # "commit"
          /\ s.do = "write" => k = 1 \/ (k = 2 /\ list[1].do = "pay")
          /\ s.do = "pay" => k = 1
          /\ s.do = "write" /\ s.figure.byHand => n = 1
      BY <1>1, <2>2, <3>1 DEF Proper
    <3>3. all[k] = s /\ all[1] = list[1] /\ k # Len(all)
      <4>1. 1 \in 1..n /\ k # n + 1
        BY <2>2
      <4> QED
        BY <1>4, <2>2, <3>1, <4>1
    <3>4. s.do = "write" /\ s.figure.byHand => k = 1 /\ Len(all) = 2
      BY <1>4, <2>2, <3>2
    <3> QED
      BY <3>2, <3>3, <3>4
  <2> QED
    BY <1>1, <1>4, <2>1, <2>2
<1>9. all = todo'[p]
  BY <1>2
<1> QED
  BY <1>7, <1>8, <1>9 DEF Ordered

\* What a new request changes.
LEMMA AskFacts ==
  ASSUME RaceInv, NEW p \in Requests, NEW op, NEW list, Ask(p, op, list)
  PROVE  /\ Idle(p) /\ UNCHANGED vars /\ record' = record
         /\ work' = work /\ new' = new /\ newPay' = newPay
         /\ asked' = asked + 1 /\ asked' # 0 /\ asked' \in Nat
         /\ DOMAIN todo' = Requests /\ DOMAIN touch' = Requests
         /\ todo'[p] = list \o <<Commit>> /\ touch'[p] = Touched(list)
         /\ raced' = raced \cup
              UNION {Conflict(Touched(list), touch[q]) : q \in {r \in Requests : Running(r)}}
         /\ raced \subseteq raced'
         /\ \A q \in Requests \ {p} : todo'[q] = todo[q] /\ touch'[q] = touch[q]
<1>1. /\ RaceTypes /\ AtRest(p)
      /\ DOMAIN todo = Requests /\ DOMAIN touch = Requests /\ asked \in Nat
  BY DEF RaceInv, RaceTypes, Sound
<1>2. todo[p] = << >>
  BY DEF Ask, Running
<1>3. Idle(p)
  BY <1>1, <1>2 DEF AtRest, Idle
<1>4. /\ todo' = [todo EXCEPT ![p] = list \o <<Commit>>]
      /\ touch' = [touch EXCEPT ![p] = Touched(list)]
      /\ asked' = asked + 1 /\ UNCHANGED <<vars, work, new, newPay>>
      /\ raced' = raced \cup
              UNION {Conflict(Touched(list), touch[q]) : q \in {r \in Requests : Running(r)}}
  BY DEF Ask
<1>5. record' = record
  BY <1>4, Unmoved
<1> QED
  BY <1>1, <1>3, <1>4, <1>5

\* Two requests that overlap from now on are apart but for what Ask notes.
LEMMA AskApart ==
  ASSUME RaceInv, NEW p \in Requests, NEW op, NEW list \in Seq(Statements),
         Ask(p, op, list), NEW q \in Requests, q # p
  PROVE  Apart(p, q)' /\ Apart(q, p)'
<1>1. PICK mine : mine = Touched(list)
  OBVIOUS
<1>2. mine.changes \subseteq mine.links
  BY <1>1, TouchedParts
<1>3. PICK other : other = touch[q]
  OBVIOUS
<1>4. touch'[p] = mine /\ touch'[q] = other
  BY <1>1, <1>3, AskFacts
<1>5. other.changes \subseteq other.links
  BY <1>3 DEF RaceInv, Sound, Traced
<1>6. CASE ~ Running(q)
  <2>1. other = Nothing
    BY <1>3, <1>6 DEF RaceInv, Sound, AtRest, Running
  <2>2. other.rows = {} /\ other.changes = {}
    BY <2>1 DEF Nothing
  <2> QED
    BY <1>4, <2>2 DEF Apart
<1>7. CASE Running(q)
  <2>1. raced' = raced \cup UNION {Conflict(mine, touch[r]) : r \in {r \in Requests : Running(r)}}
    BY <1>1, AskFacts
  <2>2. Conflict(mine, other) \subseteq raced'
    BY <1>3, <1>7, <2>1
  <2>3. CASE mine.rows \cap other.rows # {}
    <3>1. mine.links \subseteq raced' /\ other.links \subseteq raced'
      BY <2>2, <2>3 DEF Conflict
    <3> QED
      BY <1>2, <1>4, <1>5, <3>1 DEF Apart
  <2>4. CASE mine.rows \cap other.rows = {}
    <3>1. mine.changes \cap other.changes \subseteq raced'
      BY <2>2, <2>4 DEF Conflict
    <3> QED
      BY <1>4, <2>4, <3>1 DEF Apart
  <2> QED
    BY <2>3, <2>4
<1> QED
  BY <1>6, <1>7

\* What a new request touches traces the rows and payments it will write.
LEMMA AskTraced ==
  ASSUME RaceTypes, NEW p \in Requests, NEW list \in Seq(Statements), Proper(list),
         UNCHANGED vars, touch'[p] = Touched(list), raced \subseteq raced'
  PROVE  Traced(p)'
<1>1. PICK mine : mine = Touched(list)
  OBVIOUS
<1>2. /\ mine.changes \subseteq mine.links /\ mine.links \subseteq Entities
      /\ \A r \in mine.rows : \E k \in 1..Len(list) : r \in RowsOf(list[k])
      /\ \A k \in 1..Len(list) : LinkedBy(list[k]) \subseteq mine.links
  BY <1>1, TouchedParts
<1>3. record' = record /\ payment' = payment /\ next' = next
  BY Unmoved
<1>4. ASSUME NEW r \in mine.rows
      PROVE
         \/ \E i \in Ids : /\ r = Row(i) /\ i < next
                           /\ Linked(record[i]) \subseteq mine.links
         \/ \E k \in Payments :
              /\ r = Abono(k) /\ payment[k].state # "none"
              /\ payment[k].objective \in mine.links
  <2>1. PICK k \in 1..Len(list) : r \in RowsOf(list[k])
    BY <1>2
  <2>2. PICK s \in Statements : s = list[k]
    OBVIOUS
  <2>3. CASE s.do \in {"save", "drop"}
    <3>1. r = Row(s.id) /\ s.id \in Ids
      BY <2>1, <2>2, <2>3, StatementParts DEF RowsOf
    <3>2. s.id < next
      BY <2>2, <2>3 DEF Proper
    <3>3. Linked(record[s.id]) \subseteq mine.links
      BY <1>2, <2>2, <2>3 DEF LinkedBy
    <3> QED
      BY <3>1, <3>2, <3>3
  <2>4. CASE s.do = "unpay"
    <3>1. r = Abono(s.id) /\ s.id \in Payments
      BY <2>1, <2>2, <2>4, StatementParts DEF RowsOf
    <3>2. payment[s.id].state # "none" /\ payment[s.id].objective \in mine.changes
      BY <1>1, <2>2, <2>4 DEF Proper
    <3> QED
      BY <1>2, <3>1, <3>2
  <2>5. s.do \in {"save", "drop", "unpay"}
    BY <2>1, <2>2 DEF RowsOf
  <2> QED
    BY <2>3, <2>4, <2>5
<1>5. \A r : Linked(r)' = Linked(r)
  BY DEF Linked
<1>6. touch'[p] = mine
  BY <1>1
<1>7. \A r \in mine.rows :
         \/ \E i \in Ids : /\ r = Row(i) /\ i < next'
                           /\ Linked(record'[i]) \subseteq mine.links \cup raced'
         \/ \E k \in Payments :
              /\ r = Abono(k) /\ payment'[k].state # "none"
              /\ payment'[k].state = "live" => payment'[k].objective \in mine.links \cup raced'
  BY <1>3, <1>4
<1> QED
  BY <1>2, <1>6, <1>7, <1>5 DEF Traced

\* A new request keeps the types, the files and the balances.
LEMMA AskTypes ==
  ASSUME RaceInv, NEW p \in Requests, NEW op, NEW list \in Seq(Statements),
         Ask(p, op, list)
  PROVE  RaceTypes' /\ Files' /\ DamageIsConfined'
<1>1. RaceTypes /\ Files /\ DamageIsConfined
  BY DEF RaceInv
<1>2. /\ UNCHANGED vars /\ work' = work /\ new' = new /\ newPay' = newPay
      /\ asked' # 0 /\ asked' \in Nat
      /\ DOMAIN todo' = Requests /\ DOMAIN touch' = Requests
      /\ todo'[p] = list \o <<Commit>>
      /\ raced \subseteq raced'
      /\ \A q \in Requests \ {p} : todo'[q] = todo[q] /\ touch'[q] = touch[q]
  BY AskFacts
<1>3. raced' \subseteq Entities
  <2>1. PICK mine : mine = Touched(list)
    OBVIOUS
  <2>2. mine.links \subseteq Entities /\ mine.changes \subseteq mine.links
    BY <2>1, TouchedParts
  <2>3. \A q \in Requests : Conflict(mine, touch[q]) \subseteq Entities
    <3> SUFFICES ASSUME NEW q \in Requests PROVE Conflict(mine, touch[q]) \subseteq Entities
      OBVIOUS
    <3>1. touch[q].links \subseteq Entities /\ touch[q].changes \subseteq touch[q].links
      BY DEF RaceInv, Sound, Traced
    <3> QED
      BY <2>2, <3>1 DEF Conflict
  <2>4. raced' = raced \cup UNION {Conflict(mine, touch[q]) : q \in {r \in Requests : Running(r)}}
    BY <2>1, AskFacts
  <2>5. raced \subseteq Entities
    BY <1>1 DEF RaceTypes
  <2> QED
    BY <2>3, <2>4, <2>5
<1>4. RaceTypes'
  <2>1. TypeOK'
    BY <1>1, <1>2, Unmoved DEF RaceTypes, TypeOK
  <2>2. todo'[p] \in Seq(Statements)
    <3>1. Commit \in Statements
      BY StatementKinds
    <3> QED
      BY <1>2, <3>1
  <2>3. \A q \in Requests : todo'[q] \in Seq(Statements)
    BY <1>1, <1>2, <2>2 DEF RaceTypes
  <2> QED
    BY <1>1, <1>2, <1>3, <2>1, <2>3 DEF RaceTypes
<1>5. Files'
  <2>1. \A i \in Ids : Shaped(record[i]) /\ (i >= next => record[i].state = "none")
    BY <1>1 DEF Files
  <2>2. \A r : Shaped(r) => Shaped(r)'
    BY <1>2 DEF Shaped
  <2>3. PICK rows : rows = record
    OBVIOUS
  <2>4. record' = record /\ next' = next
    BY <1>2, Unmoved
  <2>5. \A i \in Ids : Shaped(rows[i])' /\ (i >= next' => rows[i].state = "none")
    BY <2>1, <2>2, <2>3, <2>4
  <2>6. rows = record'
    BY <2>3, <2>4
  <2> QED
    BY <1>2, <2>5, <2>6 DEF Files
<1>6. DamageIsConfined'
  <2>1. \A e : Explained(e)' = Explained(e)
    BY <1>2, Unmoved DEF Explained
  <2> QED
    BY <1>1, <1>2, <2>1, Unmoved DEF DamageIsConfined
<1> QED
  BY <1>4, <1>5, <1>6

\* A new request is balanced when its statements weigh nothing together.
LEMMA AskBalanced ==
  ASSUME RaceInv, NEW p \in Requests, NEW op, NEW list \in Seq(Statements),
         Ask(p, op, list), Proper(list),
         \A e \in Entities \ raced' : status[e] = "live" => WeightOf(list, Weights(p, e)) = 0,
         \A r : WeightOf(list, PendingOn(r)) <= 1
  PROVE  Balanced(p)' /\ Once(p)'
<1>1. RaceTypes /\ Imaged(p)
  BY DEF RaceInv, Sound
<1>2. /\ Idle(p) /\ UNCHANGED vars /\ work' = work /\ new' = new /\ newPay' = newPay
      /\ todo'[p] = list \o <<Commit>>
  BY AskFacts
<1>3. Commit \in Statements /\ <<Commit>> \in Seq(Statements)
  BY StatementKinds
<1>4. RaceTypes'
  BY AskTypes
<1>5. DOMAIN work[p] = {}
  BY <1>2 DEF Idle, NoWork
<1>6. todo'[p] \in Seq(Statements)
  BY <1>2, <1>3
<1>7. Balanced(p)'
  <2>1. status' = status /\ balance' = balance
    BY <1>2, Unmoved
  <2> SUFFICES ASSUME NEW e \in Entities \ raced', status[e] = "live"
               PROVE  Own(p, e)' + Due(p, e)' = balance[e] + Kept(p, e)'
    BY <2>1 DEF Balanced
  <2>2. PICK w \in [Statements -> Int] : w = Weights(p, e)
    BY <1>1, WeightsType
  <2>3. Due(p, e)' = WeightOf(todo'[p], w)
    <3>1. \A s \in Statements : Weigh(p, s, e)' = Weigh(p, s, e)
      BY <1>2, WeighStays
    <3> QED
      BY <1>6, <2>2, <3>1, DueMoves
  <2>4. WeightOf(list \o <<Commit>>, w) = WeightOf(list, w) + WeightOf(<<Commit>>, w)
    BY <1>3, <2>2, WeightConcat, ZenonT(60)
  <2>5. WeightOf(<<Commit>>, w) = 0
    <3>1. w[Commit] = 0
      BY <1>3, <2>2 DEF Weights, Weigh, Commit
    <3> QED
      BY <1>3, <2>2, <3>1, WeightOne
  <2>6. WeightOf(list, w) = 0
    BY <2>2
  <2>7. Due(p, e)' = 0
    BY <1>2, <2>3, <2>4, <2>5, <2>6
  <2>8. Kept(p, e) = 0
    BY <1>1, <1>2, <1>5, KeptNothing DEF Idle
  <2>9. Kept(p, e)' = Kept(p, e)
    BY <1>2, KeptStays
  <2>10. Own(p, e) = balance[e]
    BY <1>5 DEF Own, OwnFigure, Committed, Figure
  <2>11. Own(p, e)' = Own(p, e)
    BY <1>2, OwnStays
  <2>12. balance[e] \in Int
    BY <1>1, RaceTypeParts
  <2>13. PICK x : x = Own(p, e)'
    OBVIOUS
  <2>14. PICK y : y = Due(p, e)'
    OBVIOUS
  <2>15. PICK z : z = Kept(p, e)'
    OBVIOUS
  <2>16. x = balance[e] /\ y = 0 /\ z = 0
    BY <2>7, <2>8, <2>9, <2>10, <2>11, <2>13, <2>14, <2>15
  <2> QED
    BY <2>12, <2>13, <2>14, <2>15, <2>16
<1>8. Once(p)'
  <2> SUFFICES ASSUME NEW r
               PROVE  Times(p, r)' + (IF r \in DOMAIN work'[p] THEN 1 ELSE 0) <= 1
    BY DEF Once
  <2>1. PICK w \in [Statements -> Int] : w = PendingOn(r)
    BY PendingType
  <2>2. Times(p, r)' = WeightOf(todo'[p], w)
    BY <1>6, <2>1, TimesNow
  <2>3. WeightOf(list \o <<Commit>>, w) = WeightOf(list, w) + WeightOf(<<Commit>>, w)
    BY <1>3, <2>1, WeightConcat
  <2>4. WeightOf(<<Commit>>, w) = 0
    <3>1. w[Commit] = 0
      BY <1>3, <2>1 DEF PendingOn, Pending, Commit
    <3> QED
      BY <1>3, <2>1, <3>1, WeightOne
  <2>5. WeightOf(list, w) <= 1 /\ WeightOf(list, w) \in Int
    BY <2>1, WeightInt
  <2>6. PICK t : t = Times(p, r)'
    OBVIOUS
  <2>7. t <= 1 /\ t \in Int
    BY <1>2, <2>2, <2>3, <2>4, <2>5, <2>6
  <2> QED
    BY <1>2, <1>5, <2>6, <2>7
<1> QED
  BY <1>7, <1>8

\* A new request of proper statements, which weigh nothing together and are about no
\* row twice, keeps the invariant.
LEMMA AskStep ==
  ASSUME RaceInv, NEW p \in Requests, NEW op, NEW list \in Seq(Statements),
         Ask(p, op, list), Proper(list),
         \A e \in Entities \ raced' : status[e] = "live" => WeightOf(list, Weights(p, e)) = 0,
         \A r : WeightOf(list, PendingOn(r)) <= 1
  PROVE  RaceInv'
<1>1. RaceTypes
  BY DEF RaceInv
<1>2. /\ Idle(p) /\ UNCHANGED vars /\ record' = record
      /\ work' = work /\ new' = new /\ newPay' = newPay
      /\ todo'[p] = list \o <<Commit>> /\ touch'[p] = Touched(list)
      /\ raced \subseteq raced'
      /\ \A q \in Requests \ {p} : todo'[q] = todo[q] /\ touch'[q] = touch[q]
  BY AskFacts
<1>3. /\ work'[p] = NoWork /\ new'[p] = << >> /\ newPay'[p] = << >>
  BY <1>2 DEF Idle
<1>4. RaceTypes' /\ Files' /\ DamageIsConfined'
  BY AskTypes
<1>5. Balanced(p)' /\ Once(p)'
  BY AskBalanced
<1>6. Ordered(p)'
  BY <1>1, <1>2, <1>3, AskOrdered
<1>7. Traced(p)'
  BY <1>1, <1>2, AskTraced
<1>8. Imaged(p)'
  <2>1. DOMAIN work'[p] = {}
    BY <1>3 DEF NoWork
  <2> QED
    BY <2>1 DEF Imaged
<1>9. AtRest(p)'
  <2>1. Commit \in Statements
    BY StatementKinds
  <2>2. Len(list \o <<Commit>>) # 0
    BY <2>1
  <2>3. todo'[p] # << >>
    BY <1>2, <2>2
  <2> QED
    BY <2>3 DEF AtRest
<1>10. Sound(p)'
  BY <1>5, <1>6, <1>7, <1>8, <1>9 DEF Sound
<1>11. ASSUME NEW q \in Requests \ {p} PROVE Sound(q)'
  <2>1. Sound(q)
    BY DEF RaceInv
  <2> QED
    BY <1>1, <1>2, <2>1, OthersKeep
<1>12. ASSUME NEW q \in Requests, NEW r \in Requests, q # r PROVE Apart(q, r)'
  <2>1. CASE q = p \/ r = p
    BY <1>12, <2>1, AskApart
  <2>2. CASE q # p /\ r # p
    <3>1. Apart(q, r)
      BY <1>12 DEF RaceInv
    <3> QED
      BY <1>2, <2>2, <3>1, ApartStays
  <2> QED
    BY <2>1, <2>2
<1> QED
  BY <1>4, <1>10, <1>11, <1>12 DEF RaceInv

-----------------------------------------------------------------------------
(* What the lists of statements weigh.                                     *)

Adjustments == {s \in Statements : s.do = "adjust"}

\* The statements most handlers begin with.
Seeds ==
  {s \in Statements :
     /\ s.do \in {"insert", "drop", "save", "adjust"}
     /\ s.do = "insert" => s.row.state = "live" /\ Shaped(s.row)
     /\ s.do \in {"save", "drop"} => s.id < next
     /\ s.do = "save" => /\ s.row.state = "live" /\ Shaped(s.row)
                         /\ s.row.group = record[s.id].group}

\* A list of elements of a set is a list of elements of a larger one.
LEMMA SeqSubset ==
  ASSUME NEW S, NEW T, S \subseteq T, NEW list \in Seq(S)
  PROVE  list \in Seq(T)
OBVIOUS

\* What the requests about records consist of.
LEMMA SeedKinds ==
  /\ Adjustments \subseteq Seeds /\ Seeds \subseteq Statements
  /\ \A e \in Entities, d \in Int : Adjust(e, d) \in Adjustments
  /\ \A row \in Draft : row.state = "live" /\ Shaped(row) => Insert(row) \in Seeds
  /\ \A i \in Ids : i < next => Drop(i) \in Seeds
  /\ \A i \in Ids, row \in Record, stated \in SUBSET {"amount"} :
       i < next /\ row.state = "live" /\ Shaped(row) /\ row.group = record[i].group
         => Save(i, row, stated) \in Seeds
<1>1. Adjustments \subseteq Seeds /\ Seeds \subseteq Statements
  BY DEF Adjustments, Seeds
<1>2. \A e \in Entities, d \in Int : Adjust(e, d) \in Adjustments
  BY StatementKinds DEF Adjustments, Adjust
<1>3. \A row \in Draft : row.state = "live" /\ Shaped(row) => Insert(row) \in Seeds
  <2> SUFFICES ASSUME NEW row \in Draft, row.state = "live", Shaped(row)
               PROVE  Insert(row) \in Seeds
    OBVIOUS
  <2>1. PICK s \in Statements : s = Insert(row)
    BY StatementKinds
  <2>2. s.do = "insert" /\ s.row = row
    BY <2>1 DEF Insert
  <2> QED
    BY <2>1, <2>2 DEF Seeds
<1>4. \A i \in Ids : i < next => Drop(i) \in Seeds
  <2> SUFFICES ASSUME NEW i \in Ids, i < next PROVE Drop(i) \in Seeds
    OBVIOUS
  <2>1. PICK s \in Statements : s = Drop(i)
    BY StatementKinds
  <2>2. s.do = "drop" /\ s.id = i
    BY <2>1 DEF Drop
  <2> QED
    BY <2>1, <2>2 DEF Seeds
<1>5. \A i \in Ids, row \in Record, stated \in SUBSET {"amount"} :
       i < next /\ row.state = "live" /\ Shaped(row) /\ row.group = record[i].group
         => Save(i, row, stated) \in Seeds
  <2> SUFFICES ASSUME NEW i \in Ids, NEW row \in Record, NEW stated \in SUBSET {"amount"},
                      i < next, row.state = "live", Shaped(row), row.group = record[i].group
               PROVE  Save(i, row, stated) \in Seeds
    OBVIOUS
  <2>1. PICK s \in Statements : s = Save(i, row, stated)
    BY StatementKinds
  <2>2. s.do = "save" /\ s.id = i /\ s.row = row
    BY <2>1 DEF Save
  <2> QED
    BY <2>1, <2>2 DEF Seeds
<1> QED
  BY <1>1, <1>2, <1>3, <1>4, <1>5

\* Statements of these kinds are proper.
LEMMA SeedsProper ==
  ASSUME NEW list \in Seq(Seeds)
  PROVE  list \in Seq(Statements) /\ Proper(list)
<1>1. list \in Seq(Statements)
  BY SeedKinds, SeqSubset
<1>2. ASSUME NEW k \in 1..Len(list)
      PROVE  LET s == list[k]
             IN  /\ s.do \in {"insert", "drop", "save", "adjust"}
                 /\ s.do = "insert" => s.row.state = "live" /\ Shaped(s.row)
                 /\ s.do \in {"save", "drop"} => s.id < next
                 /\ s.do = "save" => /\ s.row.state = "live" /\ Shaped(s.row)
                                     /\ s.row.group = record[s.id].group
  <2>1. PICK s \in Seeds : s = list[k]
    OBVIOUS
  <2> QED
    BY <2>1 DEF Seeds
<1>3. Proper(list)
  BY <1>2 DEF Proper
<1> QED
  BY <1>1, <1>3

\* Adjustments are pending on no row.
LEMMA AdjustmentsFree ==
  ASSUME NEW list \in Seq(Adjustments), NEW r
  PROVE  WeightOf(list, PendingOn(r)) = 0
<1>1. Adjustments \subseteq Statements
  BY DEF Adjustments
<1>2. list \in Seq(Statements)
  BY <1>1, SeqSubset
<1>3. \A k \in 1..Len(list) : PendingOn(r)[list[k]] = 0
  BY <1>1 DEF PendingOn, Pending, Adjustments
<1> QED
  BY <1>2, <1>3, PendingType, WeightZero

\* The weight of single statements.
LEMMA Weighed ==
  ASSUME NEW p, NEW e
  PROVE  /\ \A x \in Entities, d \in Int :
              Weights(p, e)[Adjust(x, d)] = IF x = e THEN d ELSE 0
         /\ \A row \in Draft : Weights(p, e)[Insert(row)] = - Collected(row, e)
         /\ \A i \in Ids : Weights(p, e)[Drop(i)] = Collected(record[i], e)
         /\ \A i \in Ids, row \in Record, stated \in SUBSET {"amount"} :
              Weights(p, e)[Save(i, row, stated)] = Collected(record[i], e) - Collected(row, e)
<1>1. ASSUME NEW x \in Entities, NEW d \in Int
      PROVE  Weights(p, e)[Adjust(x, d)] = IF x = e THEN d ELSE 0
  <2>1. PICK s \in Statements : s = Adjust(x, d)
    BY StatementKinds
  <2>2. s.do = "adjust" /\ s.on = x /\ s.by = d
    BY <2>1 DEF Adjust
  <2> QED
    BY <2>1, <2>2 DEF Weights, Weigh
<1>2. ASSUME NEW row \in Draft
      PROVE  Weights(p, e)[Insert(row)] = - Collected(row, e)
  <2>1. PICK s \in Statements : s = Insert(row)
    BY StatementKinds
  <2>2. s.do = "insert" /\ s.row = row
    BY <2>1 DEF Insert
  <2> QED
    BY <2>1, <2>2 DEF Weights, Weigh
<1>3. ASSUME NEW i \in Ids
      PROVE  Weights(p, e)[Drop(i)] = Collected(record[i], e)
  <2>1. PICK s \in Statements : s = Drop(i)
    BY StatementKinds
  <2>2. s.do = "drop" /\ s.id = i
    BY <2>1 DEF Drop
  <2> QED
    BY <2>1, <2>2 DEF Weights, Weigh
<1>4. ASSUME NEW i \in Ids, NEW row \in Record, NEW stated \in SUBSET {"amount"}
      PROVE  Weights(p, e)[Save(i, row, stated)] = Collected(record[i], e) - Collected(row, e)
  <2>1. PICK s \in Statements : s = Save(i, row, stated)
    BY StatementKinds
  <2>2. s.do = "save" /\ s.id = i /\ s.row = row
    BY <2>1 DEF Save
  <2> QED
    BY <2>1, <2>2 DEF Weights, Weigh
<1> QED
  BY <1>1, <1>2, <1>3, <1>4

\* The same of the rows they lock.
LEMMA Locked ==
  ASSUME NEW r
  PROVE  /\ \A row \in Draft : PendingOn(r)[Insert(row)] = 0
         /\ \A i \in Ids : PendingOn(r)[Drop(i)] = IF r = Row(i) THEN 1 ELSE 0
         /\ \A i \in Ids, row \in Record, stated \in SUBSET {"amount"} :
              PendingOn(r)[Save(i, row, stated)] = IF r = Row(i) THEN 1 ELSE 0
<1>1. ASSUME NEW row \in Draft PROVE PendingOn(r)[Insert(row)] = 0
  <2>1. PICK s \in Statements : s = Insert(row)
    BY StatementKinds
  <2>2. s.do = "insert"
    BY <2>1 DEF Insert
  <2> QED
    BY <2>1, <2>2 DEF PendingOn, Pending
<1>2. ASSUME NEW i \in Ids PROVE PendingOn(r)[Drop(i)] = IF r = Row(i) THEN 1 ELSE 0
  <2>1. PICK s \in Statements : s = Drop(i)
    BY StatementKinds
  <2>2. s.do = "drop" /\ s.id = i
    BY <2>1 DEF Drop
  <2> QED
    BY <2>1, <2>2 DEF PendingOn, Pending
<1>3. ASSUME NEW i \in Ids, NEW row \in Record, NEW stated \in SUBSET {"amount"}
      PROVE  PendingOn(r)[Save(i, row, stated)] = IF r = Row(i) THEN 1 ELSE 0
  <2>1. PICK s \in Statements : s = Save(i, row, stated)
    BY StatementKinds
  <2>2. s.do = "save" /\ s.id = i
    BY <2>1 DEF Save
  <2> QED
    BY <2>1, <2>2 DEF PendingOn, Pending
<1> QED
  BY <1>1, <1>2, <1>3

\* applyLinkAdjustments changes every balance by its net change, once.
LEMMA NetWeight ==
  ASSUME RaceTypes, NEW p \in Requests, Imaged(p), NEW e \in Entities,
         NEW links \in Seq(Entities \cup {None}), NEW delta \in [Entities -> Int],
         delta[e] # 0 => \E k \in 1..Len(links) : links[k] = e
  PROVE  WeightOf(NetAdjustments(links, delta), Weights(p, e)) = delta[e]
<1>1. PICK n \in Nat : n = Len(links)
  OBVIOUS
<1>2. PICK part : part = [k \in 1..n |->
            IF /\ links[k] # None /\ delta[links[k]] # 0
               /\ \A j \in 1..(k-1) : links[j] # links[k]
            THEN <<Adjust(links[k], delta[links[k]])>>
            ELSE << >>]
  OBVIOUS
<1>3. NetAdjustments(links, delta) = Joined(n, part)
  BY <1>1, <1>2 DEF NetAdjustments
<1>4. PICK w \in [Statements -> Int] : w = Weights(p, e)
  BY WeightsType
<1>5. ASSUME NEW k \in 1..n
      PROVE  /\ part[k] \in Seq(Statements)
             /\ WeightOf(part[k], w) =
                  IF links[k] = e /\ (\A j \in 1..(k-1) : links[j] # e) THEN delta[e] ELSE 0
  <2>1. links[k] \in Entities \cup {None}
    BY <1>1
  <2>2. CASE /\ links[k] # None /\ delta[links[k]] # 0
             /\ \A j \in 1..(k-1) : links[j] # links[k]
    <3>1. links[k] \in Entities /\ delta[links[k]] \in Int
      BY <2>1, <2>2
    <3>2. PICK x \in Statements : x = Adjust(links[k], delta[links[k]])
      BY <3>1, StatementKinds
    <3>3. part[k] = <<x>>
      BY <1>2, <2>2, <3>2
    <3>4. WeightOf(<<x>>, w) = w[x]
      BY <1>4, WeightOne
    <3>5. w[x] = IF links[k] = e THEN delta[links[k]] ELSE 0
      BY <1>4, <3>1, <3>2, Weighed
    <3> QED
      BY <2>2, <3>3, <3>4, <3>5
  <2>3. CASE ~ (/\ links[k] # None /\ delta[links[k]] # 0
                /\ \A j \in 1..(k-1) : links[j] # links[k])
    <3>1. part[k] = << >>
      BY <1>2, <2>3
    <3>2. links[k] = e /\ (\A j \in 1..(k-1) : links[j] # e) => delta[e] = 0
      BY <2>3, Kinds
    <3>3. WeightOf(part[k], w) = 0
      BY <3>1, WeightEmpty
    <3> QED
      BY <3>1, <3>2, <3>3
  <2> QED
    BY <2>2, <2>3
<1>6. part \in [1..n -> Seq(Statements)]
  BY <1>2, <1>5
<1>7. PICK lines : lines = PartWeights(n, part, w)
  OBVIOUS
<1>8. lines \in [1..n -> Int] /\ WeightOf(Joined(n, part), w) = Total(n, lines)
  <2>1. WeightOf(Joined(n, part), w) = Total(n, PartWeights(n, part, w))
    BY <1>1, <1>4, <1>6, JoinedWeight
  <2>2. PartWeights(n, part, w) \in [1..n -> Int]
    BY <1>1, <1>4, <1>6, JoinedWeight
  <2> QED
    BY <1>7, <2>1, <2>2
<1>9. \A k \in 1..n :
        lines[k] = IF links[k] = e /\ (\A j \in 1..(k-1) : links[j] # e) THEN delta[e] ELSE 0
  BY <1>5, <1>7 DEF PartWeights
<1>10. Total(n, lines) = delta[e]
  <2>1. CASE delta[e] = 0
    <3>1. \A k \in 1..n : lines[k] = 0
      BY <1>9, <2>1
    <3> QED
      BY <1>8, <2>1, <3>1, TotalZero
  <2>2. CASE delta[e] # 0
    <3>1. PICK T : T = {k \in 1..n : links[k] = e}
      OBVIOUS
    <3>2. T \in SUBSET Nat /\ T # {}
      BY <1>1, <2>2, <3>1
    <3>3. PICK first \in T : \A k \in T : first <= k
      BY <3>2, LeastElement
    <3>4. first \in 1..n /\ links[first] = e
      BY <3>1, <3>3
    <3>5. \A j \in 1..(first-1) : links[j] # e
      BY <3>1, <3>3, <3>4
    <3>6. lines[first] = delta[e]
      BY <1>9, <3>4, <3>5
    <3>7. ASSUME NEW k \in 1..n \ {first} PROVE lines[k] = 0
      <4>1. CASE links[k] = e
        <5>1. first \in 1..(k-1)
          BY <3>1, <3>3, <3>4, <4>1
        <5> QED
          BY <1>9, <3>4, <5>1
      <4> QED
        BY <1>9, <4>1
    <3>8. Total(n, lines) = lines[first]
      BY <1>8, <3>4, <3>7, TotalSingle
    <3> QED
      BY <3>6, <3>8
  <2> QED
    BY <2>1, <2>2
<1> QED
  BY <1>3, <1>4, <1>8, <1>10

\* The net adjustments are adjustments.
LEMMA NetType ==
  ASSUME NEW links \in Seq(Entities \cup {None}), NEW delta \in [Entities -> Int]
  PROVE  NetAdjustments(links, delta) \in Seq(Adjustments)
<1>1. PICK n \in Nat : n = Len(links)
  OBVIOUS
<1>2. PICK part : part = [k \in 1..n |->
            IF /\ links[k] # None /\ delta[links[k]] # 0
               /\ \A j \in 1..(k-1) : links[j] # links[k]
            THEN <<Adjust(links[k], delta[links[k]])>>
            ELSE << >>]
  OBVIOUS
<1>3. NetAdjustments(links, delta) = Joined(n, part)
  BY <1>1, <1>2 DEF NetAdjustments
<1>4. ASSUME NEW k \in 1..n PROVE part[k] \in Seq(Adjustments)
  <2>1. links[k] \in Entities \cup {None}
    BY <1>1
  <2>2. CASE /\ links[k] # None /\ delta[links[k]] # 0
             /\ \A j \in 1..(k-1) : links[j] # links[k]
    <3>1. links[k] \in Entities /\ delta[links[k]] \in Int
      BY <2>1, <2>2
    <3>2. PICK x \in Adjustments : x = Adjust(links[k], delta[links[k]])
      BY <3>1, SeedKinds
    <3> QED
      BY <1>2, <2>2, <3>2
  <2>3. CASE ~ (/\ links[k] # None /\ delta[links[k]] # 0
                /\ \A j \in 1..(k-1) : links[j] # links[k])
    BY <1>2, <2>3
  <2> QED
    BY <2>2, <2>3
<1>5. part \in [1..n -> Seq(Adjustments)]
  BY <1>2, <1>4
<1> QED
  BY <1>3, <1>5, JoinedType

-----------------------------------------------------------------------------
(* What the parts of the handlers weigh.                                   *)

\* The links of a record name every entity it contributes to.
LEMMA LinksHave ==
  ASSUME NEW r \in Draft
  PROVE  /\ LinksOf(r) \in Seq(Entities \cup {None})
         /\ \A e \in Entities :
              Collected(r, e) # 0 => \E k \in 1..Len(LinksOf(r)) : LinksOf(r)[k] = e
<1>1. /\ r.origin \in Entities \cup {None} /\ r.destination \in Entities \cup {None}
      /\ r.objective \in Entities \cup {None} /\ r.patrimony \in Entities \cup {None}
  BY DEF Draft, AccountOrNone, ObjectiveOrNone, PatrimonyOrNone, Entities, Patrimony
<1>2. CASE r.state # "live"
  <2>1. LinksOf(r) = << >>
    BY <1>2 DEF LinksOf
  <2>2. \A e \in Entities : Collected(r, e) = 0
    BY <1>2 DEF Collected
  <2> QED
    BY <2>1, <2>2
<1>3. CASE r.state = "live" /\ r.type = "transfer"
  <2>1. PICK m \in Seq(Entities \cup {None}) : m = <<r.origin, r.destination>>
    <3>1. <<r.origin, r.destination>> \in Seq(Entities \cup {None})
      BY <1>1
    <3> QED
      BY <3>1
  <2>2. PICK o \in Seq(Entities \cup {None}) : o = <<r.objective, r.patrimony>>
    <3>1. <<r.objective, r.patrimony>> \in Seq(Entities \cup {None})
      BY <1>1
    <3> QED
      BY <3>1
  <2>3. PICK l \in Seq(Entities \cup {None}) : l = m \o o
    <3>1. m \o o \in Seq(Entities \cup {None})
      BY <2>1, <2>2
    <3> QED
      BY <3>1
  <2>4. Len(l) = 4 /\ l[1] = r.origin /\ l[2] = r.destination
        /\ l[3] = r.objective /\ l[4] = r.patrimony
    <3>1. Len(m) = 2 /\ m[1] = r.origin /\ m[2] = r.destination
      BY <2>1
    <3>2. Len(o) = 2 /\ o[1] = r.objective /\ o[2] = r.patrimony
      BY <2>2
    <3>3. Len(l) = 4 /\ l[1] = m[1] /\ l[2] = m[2] /\ l[3] = o[1] /\ l[4] = o[2]
      BY <2>1, <2>2, <2>3, <3>1, <3>2
    <3> QED
      BY <3>1, <3>2, <3>3
  <2>7. LinksOf(r) = l
    BY <1>3, <2>1, <2>2, <2>3 DEF LinksOf
  <2>5. ASSUME NEW e \in Entities, Collected(r, e) # 0
        PROVE  e \in {r.origin, r.destination, r.objective, r.patrimony}
    BY <1>3, <2>5 DEF Collected, Movement
  <2>6. ASSUME NEW e \in Entities, Collected(r, e) # 0
        PROVE  \E k \in 1..Len(l) : l[k] = e
    <3>1. 1 \in 1..Len(l) /\ 2 \in 1..Len(l) /\ 3 \in 1..Len(l) /\ 4 \in 1..Len(l)
      BY <2>4
    <3> QED
      BY <2>4, <2>5, <2>6, <3>1
  <2> QED
    BY <2>3, <2>6, <2>7
<1>4. CASE r.state = "live" /\ r.type # "transfer"
  <2>1. PICK l : l = <<r.objective, r.patrimony>>
    OBVIOUS
  <2>2. LinksOf(r) = l
    BY <1>4, <2>1 DEF LinksOf
  <2>3. l \in Seq(Entities \cup {None}) /\ Len(l) = 2
    BY <1>1, <2>1
  <2>4. l[1] = r.objective /\ l[2] = r.patrimony
    BY <2>1
  <2>5. ASSUME NEW e \in Entities, Collected(r, e) # 0
        PROVE  e \in {r.objective, r.patrimony}
    BY <1>4, <2>5 DEF Collected
  <2>6. ASSUME NEW e \in Entities, Collected(r, e) # 0
        PROVE  \E k \in 1..Len(l) : l[k] = e
    <3>1. 1 \in 1..Len(l) /\ 2 \in 1..Len(l)
      BY <2>3
    <3> QED
      BY <2>4, <2>5, <2>6, <3>1
  <2> QED
    BY <2>2, <2>3, <2>6
<1> QED
  BY <1>2, <1>3, <1>4

\* A posting weighs its amount on its entity.
LEMMA PostWeight ==
  ASSUME RaceTypes, NEW p \in Requests, Imaged(p), NEW e \in Entities,
         NEW x \in Entities \cup {None}, NEW d \in Int
  PROVE  /\ Post(x, d) \in Seq(Adjustments)
         /\ WeightOf(Post(x, d), Weights(p, e)) = IF x = e THEN d ELSE 0
<1>1. None \notin Entities
  BY Kinds
<1>2. CASE x = None
  <2>1. Post(x, d) = << >>
    BY <1>2 DEF Post
  <2>2. WeightOf(<< >>, Weights(p, e)) = 0
    BY WeightEmpty
  <2> QED
    BY <1>1, <1>2, <2>1, <2>2
<1>3. CASE x \in Entities
  <2>1. PICK s \in Adjustments : s = Adjust(x, d)
    BY <1>3, SeedKinds
  <2>2. Post(x, d) = <<s>>
    BY <1>1, <1>3, <2>1 DEF Post
  <2>3. PICK w \in [Statements -> Int] : w = Weights(p, e)
    BY WeightsType
  <2>4. s \in Statements
    BY <2>1, SeedKinds
  <2>5. WeightOf(<<s>>, w) = w[s]
    BY <2>3, <2>4, WeightOne
  <2>6. w[s] = IF x = e THEN d ELSE 0
    BY <1>3, <2>1, <2>3, Weighed
  <2> QED
    BY <2>1, <2>2, <2>3, <2>5, <2>6
<1> QED
  BY <1>2, <1>3

\* What applyTransferAdjustment posts for a record.
LEMMA LegWeight ==
  ASSUME RaceTypes, NEW p \in Requests, Imaged(p), NEW e \in Entities,
         NEW r \in Draft, NEW sign \in {1, -1}
  PROVE  /\ LegAdjustments(r, sign) \in Seq(Adjustments)
         /\ Adjusted(r, e) \in Int
         /\ WeightOf(LegAdjustments(r, sign), Weights(p, e)) = sign * Adjusted(r, e)
<1>1. /\ r.origin \in Entities \cup {None} /\ r.destination \in Entities \cup {None}
      /\ r.objective \in Entities \cup {None} /\ r.amount \in Int
  <2>1. r.amount \in Int
    BY Values DEF Draft
  <2>2. /\ r.origin \in Entities \cup {None} /\ r.destination \in Entities \cup {None}
        /\ r.objective \in Entities \cup {None}
    BY DEF Draft, AccountOrNone, ObjectiveOrNone, Entities, Patrimony
  <2> QED
    BY <2>1, <2>2
<1>2. PICK gain \in Int, loss \in Int : gain = sign * r.amount /\ loss = - (sign * r.amount)
  <2>1. sign * r.amount \in Int /\ - (sign * r.amount) \in Int
    BY <1>1
  <2> QED
    BY <2>1
<1>3. PICK a, b, c : a = Post(r.origin, loss) /\ b = Post(r.destination, gain)
                     /\ c = Post(r.objective, gain)
  OBVIOUS
<1>4. PICK w \in [Statements -> Int] : w = Weights(p, e)
  BY WeightsType
<1>5. /\ a \in Seq(Adjustments) /\ b \in Seq(Adjustments) /\ c \in Seq(Adjustments)
      /\ WeightOf(a, w) = IF r.origin = e THEN loss ELSE 0
      /\ WeightOf(b, w) = IF r.destination = e THEN gain ELSE 0
      /\ WeightOf(c, w) = IF r.objective = e THEN gain ELSE 0
  <2>1. \A x \in Entities \cup {None}, d \in Int :
          /\ Post(x, d) \in Seq(Adjustments)
          /\ WeightOf(Post(x, d), w) = IF x = e THEN d ELSE 0
    BY <1>4, PostWeight
  <2> QED
    BY <1>1, <1>2, <1>3, <2>1
<1>6. a \in Seq(Statements) /\ b \in Seq(Statements) /\ c \in Seq(Statements)
  <2>1. Adjustments \subseteq Statements
    BY SeedKinds
  <2> QED
    BY <1>5, <2>1, SeqSubset
<1>7. a \o b \in Seq(Statements) /\ WeightOf(a \o b, w) = WeightOf(a, w) + WeightOf(b, w)
  BY <1>4, <1>6, WeightConcat
<1>8. WeightOf((a \o b) \o c, w) = WeightOf(a \o b, w) + WeightOf(c, w)
  BY <1>4, <1>6, <1>7, WeightConcat
<1>9. LegAdjustments(r, sign) = (a \o b) \o c
  BY <1>2, <1>3 DEF LegAdjustments
<1>10. (a \o b) \o c \in Seq(Adjustments)
  BY <1>5
<1>11. Adjusted(r, e) = (IF r.destination = e THEN r.amount ELSE 0)
          - (IF r.origin = e THEN r.amount ELSE 0) + (IF r.objective = e THEN r.amount ELSE 0)
  BY DEF Adjusted, Movement
<1>12. PICK total \in Int : total = Adjusted(r, e)
  BY <1>1, <1>11
<1>13. WeightOf(LegAdjustments(r, sign), w)
         = (IF r.origin = e THEN loss ELSE 0) + (IF r.destination = e THEN gain ELSE 0)
             + (IF r.objective = e THEN gain ELSE 0)
  BY <1>5, <1>7, <1>8, <1>9
<1>14. WeightOf(LegAdjustments(r, sign), w) = sign * total
  <2>1. CASE sign = 1
    BY <1>1, <1>2, <1>11, <1>12, <1>13, <2>1
  <2>2. CASE sign = -1
    BY <1>1, <1>2, <1>11, <1>12, <1>13, <2>2
  <2> QED
    BY <2>1, <2>2
<1> QED
  BY <1>4, <1>9, <1>10, <1>12, <1>14

\* For a transfer without a patrimony link that is what the record contributes.
LEMMA LegCollects ==
  ASSUME NEW r \in Draft, r.state = "live", r.type = "transfer", Shaped(r),
         NEW e \in Entities \ raced
  PROVE  Adjusted(r, e) = Collected(r, e)
<1>1. r.patrimony # e
  BY Kinds DEF Shaped
<1>2. r.objective = e => e \in Objectives
  BY Kinds DEF Draft, ObjectiveOrNone
<1>3. e \in Objectives => e \notin Liabilities /\ e \notin Accounts
  BY Kinds
<1>4. r.objective = e => Contribution(r, e) = r.amount
  BY <1>2, <1>3 DEF Contribution
<1> QED
  BY <1>1, <1>4 DEF Adjusted, Collected

Chosen(ids, part) == [i \in Ids |-> IF i \in ids THEN part[i] ELSE << >>]

\* A loop over rows is the statements of each, and weighs what each weighs.
LEMMA ForEachType ==
  ASSUME NEW S, NEW ids, NEW part, \A i \in ids \cap Ids : part[i] \in Seq(S)
  PROVE  /\ Chosen(ids, part) \in [Ids -> Seq(S)]
         /\ ForEach(ids, part) = Joined(MaxRecords, Chosen(ids, part))
         /\ ForEach(ids, part) \in Seq(S)
<1>1. Chosen(ids, part) \in [Ids -> Seq(S)]
  <2>1. \A i \in Ids : (IF i \in ids THEN part[i] ELSE << >>) \in Seq(S)
    OBVIOUS
  <2> QED
    BY <2>1 DEF Chosen
<1>2. ForEach(ids, part) = Joined(MaxRecords, Chosen(ids, part))
  BY DEF ForEach, Chosen
<1>3. PICK n \in Nat : n = MaxRecords
  BY Bounds
<1>0. PICK c : c = Chosen(ids, part)
  OBVIOUS
<1>4. c \in [1..n -> Seq(S)]
  BY <1>0, <1>1, <1>3 DEF Ids
<1>5. Joined(n, c) \in Seq(S)
  BY <1>3, <1>4, JoinedType
<1> QED
  BY <1>0, <1>1, <1>0, <1>2, <1>3, <1>5

Turns(S, ids, part) == \A i \in ids \cap Ids : part[i] \in Seq(S)

Weighing(ids, part, w, c) ==
  c \in [Ids -> Int] /\ \A i \in ids \cap Ids : c[i] = WeightOf(part[i], w)

\* A loop over rows weighs what the rows do, each once.
LEMMA ForEachWeight ==
  ASSUME NEW S, NEW ids, NEW part, NEW w, NEW c,
         Turns(S, ids, part), w \in [S -> Int], Weighing(ids, part, w, c)
  PROVE  /\ SumOver(ids, c) \in Int
         /\ WeightOf(ForEach(ids, part), w) = SumOver(ids, c)
<1>a. /\ \A i \in ids \cap Ids : part[i] \in Seq(S)
      /\ c \in [Ids -> Int] /\ \A i \in ids \cap Ids : c[i] = WeightOf(part[i], w)
  BY DEF Turns, Weighing
<1>1. PICK n \in Nat : n = MaxRecords
  BY Bounds
<1>0. PICK l : l = Chosen(ids, part)
  OBVIOUS
<1>2. l \in [1..n -> Seq(S)] /\ ForEach(ids, part) = Joined(n, l)
  BY <1>a, <1>0, <1>1, ForEachType DEF Ids
<1>3. WeightOf(Joined(n, l), w) = Total(n, PartWeights(n, l, w))
  BY <1>0, <1>1, <1>2, JoinedWeight
<1>4. PartWeights(n, l, w) \in [1..n -> Int]
  BY <1>0, <1>1, <1>2, JoinedWeight
<1>5. PICK v : v = PartWeights(n, l, w)
  OBVIOUS
<1>6. PICK u : u = [i \in Ids |-> IF i \in ids THEN c[i] ELSE 0]
  OBVIOUS
<1>7. \A i \in Ids : v[i] = u[i]
  <2> SUFFICES ASSUME NEW i \in Ids PROVE v[i] = u[i]
    OBVIOUS
  <2>1. v[i] = WeightOf(l[i], w)
    BY <1>0, <1>1, <1>5 DEF PartWeights, Ids
  <2>2. CASE i \in ids
    <3>1. l[i] = part[i] /\ u[i] = c[i]
      BY <1>0, <1>1, <1>6, <2>2 DEF Chosen
    <3> QED
      BY <1>a, <2>1, <2>2, <3>1
  <2>3. CASE i \notin ids
    <3>1. l[i] = << >> /\ u[i] = 0
      BY <1>0, <1>1, <1>6, <2>3 DEF Chosen
    <3>2. WeightOf(<< >>, w) = 0
      BY WeightEmpty
    <3> QED
      BY <2>1, <3>1, <3>2
  <2> QED
    BY <2>2, <2>3
<1>8. v \in [Ids -> Int] /\ u \in [Ids -> Int]
  BY <1>a, <1>0, <1>1, <1>4, <1>5, <1>6 DEF Ids
<1>9. v = u
  BY <1>7, <1>8
<1>10. SumOver(ids, c) = Total(n, u)
  BY <1>0, <1>1, <1>6 DEF SumOver
<1>11. Total(n, v) \in Int
  BY <1>0, <1>1, <1>4, <1>5, TotalInt
<1> QED
  BY <1>2, <1>3, <1>5, <1>9, <1>10, <1>11

\* Sums of lines that cancel cancel.
LEMMA SumOverMinus ==
  ASSUME NEW ids, NEW c, NEW d, c \in [Ids -> Int], d \in [Ids -> Int],
         \A i \in ids \cap Ids : d[i] = - c[i]
  PROVE  /\ SumOver(ids, c) \in Int /\ SumOver(ids, d) \in Int
         /\ SumOver(ids, d) = - SumOver(ids, c)
<1>1. PICK n \in Nat : n = MaxRecords
  BY Bounds
<1>2. PICK u : u = [i \in Ids |-> IF i \in ids THEN c[i] ELSE 0]
  OBVIOUS
<1>3. PICK v : v = [i \in Ids |-> IF i \in ids THEN d[i] ELSE 0]
  OBVIOUS
<1>4. u \in [1..n -> Int] /\ v \in [1..n -> Int]
  BY <1>1, <1>2, <1>3 DEF Ids
<1>5. \A i \in 1..n : v[i] = - u[i]
  <2> SUFFICES ASSUME NEW i \in Ids PROVE v[i] = - u[i]
    BY <1>1 DEF Ids
  <2>1. CASE i \in ids
    <3>1. v[i] = d[i] /\ u[i] = c[i] /\ d[i] = - c[i]
      BY <1>2, <1>3, <2>1
    <3> QED
      BY <3>1
  <2>2. CASE i \notin ids
    <3>1. v[i] = 0 /\ u[i] = 0
      BY <1>2, <1>3, <2>2
    <3>2. PICK a \in Int, b \in Int : a = v[i] /\ b = u[i]
      BY <1>1, <1>4 DEF Ids
    <3>3. a + b = 0
      BY <3>1, <3>2
    <3>4. a = - b
      BY <3>2, <3>3
    <3> QED
      BY <3>2, <3>4
  <2> QED
    BY <2>1, <2>2
<1>6. Total(n, v) = - Total(n, u)
  BY <1>1, <1>4, <1>5, TotalMinus
<1>7. SumOver(ids, c) = Total(n, u) /\ SumOver(ids, d) = Total(n, v)
  BY <1>1, <1>2, <1>3 DEF SumOver
<1>8. Total(n, u) \in Int /\ Total(n, v) \in Int
  BY <1>1, <1>4, TotalInt
<1> QED
  BY <1>6, <1>7, <1>8

\* A sum of zeros is zero.
LEMMA SumOverZero ==
  ASSUME NEW ids, NEW c, c \in [Ids -> Int], \A i \in ids \cap Ids : c[i] = 0
  PROVE  SumOver(ids, c) = 0
<1>1. PICK n \in Nat : n = MaxRecords
  BY Bounds
<1>2. PICK u : u = [i \in Ids |-> IF i \in ids THEN c[i] ELSE 0]
  OBVIOUS
<1>3. u \in [1..n -> Int] /\ \A i \in 1..n : u[i] = 0
  BY <1>1, <1>2 DEF Ids
<1>4. Total(n, u) = 0
  BY <1>1, <1>3, TotalZero
<1> QED
  BY <1>1, <1>2, <1>4 DEF SumOver

\* A loop that locks the row it is at locks no row twice.
LEMMA ForEachOnce ==
  ASSUME NEW ids, NEW part, \A i \in ids \cap Ids : part[i] \in Seq(Statements), NEW r,
         \A i \in ids \cap Ids : WeightOf(part[i], PendingOn(r)) = IF r = Row(i) THEN 1 ELSE 0
  PROVE  WeightOf(ForEach(ids, part), PendingOn(r)) \in 0..1
<1>1. PICK n \in Nat : n = MaxRecords
  BY Bounds
<1>2. PICK w \in [Statements -> Int] : w = PendingOn(r)
  BY PendingType
<1>3. PICK c : c = [i \in Ids |-> IF r = Row(i) THEN 1 ELSE 0]
  OBVIOUS
<1>4. c \in [Ids -> Int] /\ \A i \in ids \cap Ids : c[i] = WeightOf(part[i], w)
  BY <1>2, <1>3
<1>5. WeightOf(ForEach(ids, part), w) = SumOver(ids, c)
  <2>1. Turns(Statements, ids, part) /\ Weighing(ids, part, w, c)
    BY <1>4 DEF Turns, Weighing
  <2> QED
    BY <1>2, <2>1, ForEachWeight
<1>6. PICK u : u = [i \in Ids |-> IF i \in ids THEN c[i] ELSE 0]
  OBVIOUS
<1>7. u \in [1..n -> Int] /\ SumOver(ids, c) = Total(n, u)
  BY <1>1, <1>4, <1>6 DEF SumOver, Ids
<1>8. Total(n, u) \in 0..1
  <2>1. CASE \E i \in Ids : r = Row(i)
    <3>1. PICK i \in Ids : r = Row(i)
      BY <2>1
    <3>2. \A j \in Ids \ {i} : r # Row(j)
      BY <3>1, Keys
    <3>3. \A j \in 1..n \ {i} : u[j] = 0
      BY <1>1, <1>3, <1>6, <3>2 DEF Ids
    <3>4. i \in 1..n /\ u[i] \in 0..1
      BY <1>1, <1>3, <1>6, <3>1 DEF Ids
    <3>5. Total(n, u) = u[i]
      BY <1>1, <1>7, <3>3, <3>4, TotalSingle
    <3> QED
      BY <3>4, <3>5
  <2>2. CASE ~ \E i \in Ids : r = Row(i)
    <3>1. \A j \in 1..n : u[j] = 0
      BY <1>1, <1>3, <1>6, <2>2 DEF Ids
    <3>2. Total(n, u) = 0
      BY <1>1, <1>7, <3>1, TotalZero
    <3> QED
      BY <3>2
  <2> QED
    BY <2>1, <2>2
<1> QED
  BY <1>2, <1>5, <1>7, <1>8

\* What one turn of a loop yields, the loop yields.
LEMMA ForEachHas ==
  ASSUME NEW S, NEW ids, NEW part, \A i \in ids \cap Ids : part[i] \in Seq(S),
         NEW i \in ids \cap Ids, NEW k \in 1..Len(part[i])
  PROVE  Has(ForEach(ids, part), part[i][k])
<1>1. PICK n \in Nat : n = MaxRecords
  BY Bounds
<1>0. PICK l : l = Chosen(ids, part)
  OBVIOUS
<1>2. l \in [1..n -> Seq(S)] /\ ForEach(ids, part) = Joined(n, l)
  BY <1>0, <1>1, ForEachType DEF Ids
<1>3. i \in 1..n /\ l[i] = part[i]
  BY <1>0, <1>1 DEF Ids, Chosen
<1>4. Has(Joined(n, l), l[i][k])
  <2>1. k \in 1..Len(l[i])
    BY <1>3
  <2>4. PICK x \in 1..n : x = i
    BY <1>3
  <2>5. k \in 1..Len(l[x])
    BY <2>1, <2>4
  <2>2. PICK y \in 1..Len(l[x]) : y = k
    BY <2>5
  <2>3. Has(Joined(n, l), l[x][y])
    BY <1>1, <1>2, <2>2, <2>4, JoinedHas
  <2> QED
    BY <2>2, <2>3, <2>4
<1> QED
  BY <1>2, <1>3, <1>4

-----------------------------------------------------------------------------
(* Requests that begin.                                                    *)

\* What a step keeps of the invariant and of what it rests on.
Onward ==
  /\ RaceInv'
  /\ Funded => Funded'
  /\ \A q \in Requests : Drawn(q) => Drawn(q)'

\* A new request that keeps RaceInv keeps the rest of the invariant, if its payments
\* are of goals.
LEMMA AskOnward ==
  ASSUME RaceInv, NEW p \in Requests, NEW op, NEW list \in Seq(Statements),
         Ask(p, op, list), RaceInv',
         \A k \in 1..Len(list) : list[k].do = "pay" => list[k].row.objective \in Objectives
  PROVE  Onward
<1>1. /\ newPay' = newPay /\ new' = new /\ payment' = payment /\ raced \subseteq raced'
      /\ todo'[p] = list \o <<Commit>>
      /\ \A q \in Requests \ {p} : todo'[q] = todo[q]
  BY AskFacts, Unmoved
<1>2. \A q \in Requests : Drawn(q) => Drawn(q)'
  BY <1>1, DrawnStays
<1>3. ASSUME Funded PROVE Funded'
  <2>1. ASSUME NEW q \in Requests PROVE Promised(q)'
    <3>1. Promised(q)
      BY <1>3 DEF Funded
    <3>2. CASE q # p
      BY <1>1, <3>1, <3>2 DEF Promised
    <3>3. CASE q = p
      <4>1. PICK done : done = list \o <<Commit>>
        OBVIOUS
      <4>2. ASSUME NEW k \in 1..Len(done), done[k].do = "pay"
            PROVE  done[k].row.objective \in Objectives
        <5>1. (k \in 1..Len(list) /\ done[k] = list[k]) \/ done[k] = Commit
          BY <4>1
        <5>2. Commit.do = "commit"
          BY DEF Commit
        <5> QED
          BY <4>2, <5>1, <5>2
      <4>3. todo'[q] = done
        BY <1>1, <3>3, <4>1
      <4> QED
        BY <1>1, <3>1, <4>2, <4>3 DEF Promised
    <3> QED
      BY <3>2, <3>3
  <2> QED
    BY <1>1, <1>3, <2>1 DEF Funded
<1> QED
  BY <1>2, <1>3 DEF Onward

\* A list of statements that locks no row twice and leaves every balance with
\* what explains it keeps the invariant.
LEMMA AskSeeds ==
  ASSUME RaceInv, NEW p \in Requests, NEW op, NEW list \in Seq(Seeds), Ask(p, op, list),
         \A e \in Entities \ raced : WeightOf(list, Weights(p, e)) = 0,
         \A r : WeightOf(list, PendingOn(r)) <= 1
  PROVE  Onward
<1>1. list \in Seq(Statements) /\ Proper(list)
  BY SeedsProper
<1>2. raced \subseteq raced'
  BY <1>1, AskFacts
<1>3. \A e \in Entities \ raced' : status[e] = "live" => WeightOf(list, Weights(p, e)) = 0
  BY <1>2
<1>4. RaceInv'
  BY <1>1, <1>3, AskStep
<1>5. \A k \in 1..Len(list) : list[k].do # "pay"
  <2> SUFFICES ASSUME NEW k \in 1..Len(list) PROVE list[k].do # "pay"
    OBVIOUS
  <2>1. PICK s \in Seeds : s = list[k]
    OBVIOUS
  <2> QED
    BY <2>1 DEF Seeds
<1> QED
  BY <1>1, <1>4, <1>5, AskOnward

\* A statement that the ones after it make up for.
LEMMA WeightBack ==
  ASSUME NEW S, NEW w, NEW x, NEW t, NEW d,
         w \in [S -> Int], x \in S, t \in Seq(S), d \in Int, w[x] = - d, WeightOf(t, w) = d
  PROVE  WeightOf(<<x>> \o t, w) = 0
<1>1. <<x>> \in Seq(S)
  OBVIOUS
<1>2. WeightOf(<<x>>, w) = w[x]
  BY WeightOne
<1>3. WeightOf(<<x>> \o t, w) = WeightOf(<<x>>, w) + WeightOf(t, w)
  BY <1>1, WeightConcat
<1> QED
  BY <1>2, <1>3

\* One statement on a row and the net changes of its balances: create, clone,
\* update, softDelete.
LEMMA AskOne ==
  ASSUME RaceInv, NEW p \in Requests, NEW op, NEW x \in Seeds,
         NEW links \in Seq(Entities \cup {None}), NEW delta \in [Entities -> Int],
         \A e \in Entities : delta[e] # 0 => \E k \in 1..Len(links) : links[k] = e,
         \A e \in Entities : Weights(p, e)[x] = - delta[e],
         Ask(p, op, <<x>> \o NetAdjustments(links, delta))
  PROVE  Onward
<1>1. RaceTypes /\ Imaged(p)
  BY DEF RaceInv, Sound
<1>2. PICK net \in Seq(Adjustments) : net = NetAdjustments(links, delta)
  BY NetType
<1>3. PICK list : list = <<x>> \o net
  OBVIOUS
<1>4. x \in Statements /\ net \in Seq(Statements) /\ net \in Seq(Seeds) /\ <<x>> \in Seq(Statements)
  <2>1. Adjustments \subseteq Seeds /\ Adjustments \subseteq Statements /\ Seeds \subseteq Statements
    BY SeedKinds
  <2>2. net \in Seq(Statements) /\ net \in Seq(Seeds)
    BY <1>2, <2>1, SeqSubset
  <2> QED
    BY <2>1, <2>2
<1>5. list \in Seq(Seeds)
  BY <1>3, <1>4
<1>6. ASSUME NEW e \in Entities \ raced PROVE WeightOf(list, Weights(p, e)) = 0
  <2>1. PICK w \in [Statements -> Int] : w = Weights(p, e)
    BY <1>1, WeightsType
  <2>2. WeightOf(net, w) = delta[e]
    BY <1>1, <1>2, <2>1, NetWeight, ZenonT(60)
  <2>3. w[x] = - delta[e] /\ delta[e] \in Int
    BY <2>1
  <2>4. WeightOf(<<x>> \o net, w) = 0
    BY <1>4, <2>1, <2>2, <2>3, WeightBack
  <2> QED
    BY <1>3, <2>1, <2>4
<1>7. ASSUME NEW r PROVE WeightOf(list, PendingOn(r)) <= 1
  <2>1. PICK w \in [Statements -> Int] : w = PendingOn(r)
    BY PendingType
  <2>2. WeightOf(net, w) = 0
    BY <1>2, <2>1, AdjustmentsFree
  <2>3. WeightOf(<<x>>, w) = w[x]
    BY <1>4, <2>1, WeightOne
  <2>4. w[x] \in 0..1
    BY <1>4, <2>1 DEF PendingOn
  <2>5. WeightOf(<<x>> \o net, w) = WeightOf(<<x>>, w) + WeightOf(net, w)
    BY <1>4, <2>1, WeightConcat, ZenonT(60)
  <2> QED
    BY <1>3, <2>1, <2>2, <2>3, <2>4, <2>5
<1>8. Ask(p, op, list)
  BY <1>2, <1>3
<1> QED
  BY <1>5, <1>6, <1>7, <1>8, AskSeeds

\* A new row and what it adds to its entities.
LEMMA AskInsert ==
  ASSUME RaceInv, NEW p \in Requests, NEW op, NEW row \in Draft,
         row.state = "live", Shaped(row),
         Ask(p, op,
             <<Insert(row)>> \o NetAdjustments(LinksOf(row), [e \in Entities |-> Collected(row, e)]))
  PROVE  Onward
<1>1. PICK delta : delta = [e \in Entities |-> Collected(row, e)]
  OBVIOUS
<1>2. delta \in [Entities -> Int]
  BY <1>1, DraftCollected
<1>3. PICK x \in Seeds : x = Insert(row)
  BY SeedKinds
<1>4. PICK links \in Seq(Entities \cup {None}) : links = LinksOf(row)
  BY LinksHave
<1>5. \A e \in Entities : delta[e] # 0 => \E k \in 1..Len(links) : links[k] = e
  BY <1>1, <1>4, LinksHave
<1>6. \A e \in Entities : Weights(p, e)[x] = - delta[e]
  BY <1>1, <1>3, Weighed
<1>7. Ask(p, op, <<x>> \o NetAdjustments(links, delta))
  BY <1>1, <1>3, <1>4
<1> QED
  BY <1>2, <1>5, <1>6, <1>7, AskOne

\* What the clients send keeps the shape of a transfer.
LEMMA AllowedShape ==
  ASSUME LegEdits # "any", NEW group, NEW f, Allowed(group, f)
  PROVE  TransferShape(group, f)
BY DEF Allowed

\* POST of a record keeps the invariant: the row inserted and the net adjustments
\* cancel out on every entity.
LEMMA CreateAsked ==
  ASSUME LegEdits # "any", RaceInv, NEW p \in Requests, NEW f \in Fields, AskCreate(p, f)
  PROVE  Onward
<1>1. PICK row \in Draft : row = Plain(f, None)
  BY PlainType, RecordDraft DEF CategoryOrNone
<1>2. /\ row.state = "live" /\ row.group = 0
      /\ row.type = f.type /\ row.patrimony = f.patrimony
  BY <1>1, PlainType DEF CategoryOrNone
<1>3. TransferShape(0, f)
  BY AllowedShape DEF AskCreate
<1>4. Shaped(row)
  BY <1>2, <1>3 DEF Shaped, TransferShape
<1>5. Ask(p, "create",
          <<Insert(row)>> \o NetAdjustments(LinksOf(row), [e \in Entities |-> Collected(row, e)]))
  BY <1>1 DEF AskCreate
<1> QED
  BY <1>2, <1>4, <1>5, AskInsert

\* The clone of a record keeps it.
LEMMA CloneAsked ==
  ASSUME RaceInv, NEW p \in Requests, NEW i \in Ids, NEW amount \in AmountOrNone,
         AskClone(p, i, amount)
  PROVE  Onward
<1>1. TypeOK /\ Shaped(record[i]) /\ record[i].state = "live"
  BY DEF RaceInv, RaceTypes, Files, AskClone, Live
<1>2. PICK row : row = Cloned(i, amount, None, None, None)
  OBVIOUS
<1>3. /\ row \in Record /\ row.state = record[i].state /\ row.group = 0
      /\ row.type = record[i].type /\ row.patrimony = record[i].patrimony
  BY <1>1, <1>2, ClonedType DEF DescriptionOrNone, CategoryOrNone, CompanyOrNone
<1>4. row \in Draft /\ row.state = "live" /\ Shaped(row)
  BY <1>1, <1>3, RecordDraft DEF Shaped
<1>5. Ask(p, "clone",
          <<Insert(row)>> \o NetAdjustments(LinksOf(row), [e \in Entities |-> Collected(row, e)]))
  BY <1>2 DEF AskClone
<1> QED
  BY <1>4, <1>5, AskInsert

\* A live row has drawn its key and keeps its shape.
LEMMA LiveRow ==
  ASSUME RaceInv, NEW i \in Ids, Live(i)
  PROVE  /\ record[i] \in Record /\ record[i] \in Draft /\ record[i].state = "live"
         /\ Shaped(record[i]) /\ i < next
         /\ record[i].group # 0 => record[i].type = "transfer"
<1>1. record[i] \in Record /\ record[i] \in Draft /\ record[i].state = "live" /\ next \in Nat
  BY RaceTypeParts DEF RaceInv, Live
<1>2. Shaped(record[i]) /\ (i >= next => record[i].state = "none")
  BY DEF RaceInv, Files
<1>3. i < next
  BY <1>1, <1>2 DEF Ids
<1> QED
  BY <1>1, <1>2, <1>3 DEF Shaped

\* PATCH of a record keeps it, where one leg of a transfer is not edited at will.
LEMMA UpdateAsked ==
  ASSUME LegEdits # "any", RaceInv, NEW p \in Requests, NEW i \in Ids, NEW f \in Fields,
         AskUpdate(p, i, f)
  PROVE  Onward
<1>0. TypeOK /\ Live(i) /\ Allowed(record[i].group, f)
  BY DEF RaceInv, RaceTypes, AskUpdate
<1>1. PICK old \in Draft : old = record[i]
  BY <1>0, LiveRow
<1>2. PICK row : row = Merged(i, f)
  OBVIOUS
<1>3. /\ row \in Record /\ row.state = "live" /\ row.group = old.group
      /\ row.type = f.type /\ row.patrimony = f.patrimony
  BY <1>0, <1>1, <1>2, MergedType, LiveRow
<1>4. TransferShape(old.group, f)
  BY <1>0, <1>1, AllowedShape
<1>5. row \in Draft /\ Shaped(row)
  BY <1>3, <1>4, RecordDraft DEF Shaped, TransferShape
<1>6. PICK stated \in SUBSET {"amount"} :
        Ask(p, "update",
            <<Save(i, row, stated)>>
              \o NetAdjustments(LinksOf(old) \o LinksOf(row),
                                [e \in Entities |-> Collected(row, e) - Collected(old, e)]))
  BY <1>1, <1>2 DEF AskUpdate
<1>7. PICK x \in Seeds : x = Save(i, row, stated)
  BY <1>0, <1>1, <1>3, <1>5, LiveRow, SeedKinds
<1>8. PICK delta : delta = [e \in Entities |-> Collected(row, e) - Collected(old, e)]
  OBVIOUS
<1>9. delta \in [Entities -> Int]
  <2>1. \A e \in Entities : Collected(row, e) - Collected(old, e) \in Int
    BY <1>5, DraftCollected
  <2> QED
    BY <1>8, <2>1
<1>10. PICK a \in Seq(Entities \cup {None}) : a = LinksOf(old)
  BY LinksHave
<1>11. PICK b \in Seq(Entities \cup {None}) : b = LinksOf(row)
  BY <1>5, LinksHave
<1>12. PICK links \in Seq(Entities \cup {None}) : links = a \o b
  <2>1. a \o b \in Seq(Entities \cup {None})
    OBVIOUS
  <2> QED
    BY <2>1
<1>13. ASSUME NEW e \in Entities, delta[e] # 0
       PROVE  \E k \in 1..Len(links) : links[k] = e
  <2>1. Collected(old, e) \in Int /\ Collected(row, e) \in Int
    BY <1>5, DraftCollected
  <2>2. Collected(old, e) # 0 \/ Collected(row, e) # 0
    BY <1>8, <1>13, <2>1
  <2>3. CASE Collected(old, e) # 0
    <3>1. PICK k \in 1..Len(a) : a[k] = e
      BY <1>10, <2>3, LinksHave
    <3>2. k \in 1..Len(links) /\ links[k] = e
      BY <1>12, <3>1
    <3> QED
      BY <3>2
  <2>4. CASE Collected(row, e) # 0
    <3>1. PICK k \in 1..Len(b) : b[k] = e
      BY <1>5, <1>11, <2>4, LinksHave
    <3>2. Len(a) + k \in 1..Len(links) /\ links[Len(a) + k] = e
      BY <1>12, <3>1
    <3> QED
      BY <3>2
  <2> QED
    BY <2>2, <2>3, <2>4
<1>14. ASSUME NEW e \in Entities PROVE Weights(p, e)[x] = - delta[e]
  <2>1. PICK c \in Int, d \in Int : c = Collected(old, e) /\ d = Collected(row, e)
    BY <1>5, DraftCollected
  <2>2. Weights(p, e)[x] = c - d
    BY <1>1, <1>3, <1>7, <2>1, Weighed
  <2>3. delta[e] = d - c
    BY <1>8, <2>1
  <2> QED
    BY <2>2, <2>3
<1>15. Ask(p, "update", <<x>> \o NetAdjustments(links, delta))
  BY <1>6, <1>7, <1>8, <1>10, <1>11, <1>12
<1> QED
  BY <1>9, <1>13, <1>14, <1>15, AskOne, ZenonT(60)

\* The legs of a transfer are transfers, each with the shape of one.
LEMMA LegRows ==
  ASSUME RaceInv, NEW i \in Ids, IsTransfer(i), NEW j \in Legs(i)
  PROVE  /\ j \in Ids /\ Live(j) /\ record[j].type = "transfer"
<1>1. CASE record[i].group = 0
  BY <1>1 DEF Legs, IsTransfer
<1>2. CASE record[i].group # 0
  <2>1. j \in Ids /\ Live(j) /\ record[j].group # 0
    BY <1>2 DEF Legs
  <2> QED
    BY <2>1, LiveRow
<1> QED
  BY <1>1, <1>2

\* A statement after others.
LEMMA WeightThen ==
  ASSUME NEW S, NEW w, NEW x, NEW t, w \in [S -> Int], x \in S, t \in Seq(S)
  PROVE  WeightOf(t \o <<x>>, w) = WeightOf(t, w) + w[x]
<1>1. <<x>> \in Seq(S)
  OBVIOUS
<1>2. WeightOf(<<x>>, w) = w[x]
  BY WeightOne
<1>3. WeightOf(t \o <<x>>, w) = WeightOf(t, w) + WeightOf(<<x>>, w)
  BY <1>1, WeightConcat
<1> QED
  BY <1>2, <1>3

\* A loop whose turns weigh nothing weighs nothing.
LEMMA ForEachZero ==
  ASSUME NEW S, NEW ids, NEW part, NEW w, Turns(S, ids, part),
         w \in [S -> Int], \A i \in ids \cap Ids : WeightOf(part[i], w) = 0
  PROVE  WeightOf(ForEach(ids, part), w) = 0
<1>1. PICK c : c = [i \in Ids |-> 0]
  OBVIOUS
<1>2. c \in [Ids -> Int] /\ Weighing(ids, part, w, c)
  BY <1>1 DEF Weighing
<1>3. WeightOf(ForEach(ids, part), w) = SumOver(ids, c)
  BY <1>2, ForEachWeight
<1>4. SumOver(ids, c) = 0
  BY <1>1, <1>2, SumOverZero
<1> QED
  BY <1>3, <1>4

\* What a loop over rows does as a whole, when each turn is in balance.
LEMMA AskLoop ==
  ASSUME RaceInv, NEW p \in Requests, NEW op, NEW ids, NEW part,
         \A i \in ids \cap Ids : part[i] \in Seq(Seeds),
         \A i \in ids \cap Ids : \A e \in Entities \ raced :
           WeightOf(part[i], Weights(p, e)) = 0,
         \A i \in ids \cap Ids : \A r :
           WeightOf(part[i], PendingOn(r)) = IF r = Row(i) THEN 1 ELSE 0,
         Ask(p, op, ForEach(ids, part))
  PROVE  Onward
<1>1. RaceTypes /\ Imaged(p)
  BY DEF RaceInv, Sound
<1>2. PICK list \in Seq(Seeds) : list = ForEach(ids, part)
  BY ForEachType
<1>3. /\ \A i \in ids \cap Ids : part[i] \in Seq(Statements)
      /\ Turns(Statements, ids, part)
  BY SeedKinds, SeqSubset DEF Turns
<1>4. ASSUME NEW e \in Entities \ raced PROVE WeightOf(list, Weights(p, e)) = 0
  <2>1. PICK w \in [Statements -> Int] : w = Weights(p, e)
    BY <1>1, WeightsType
  <2>2. \A i \in ids \cap Ids : WeightOf(part[i], w) = 0
    BY <2>1
  <2>3. WeightOf(ForEach(ids, part), w) = 0
    BY <1>3, <2>1, <2>2, ForEachZero
  <2> QED
    BY <1>2, <2>1, <2>3
<1>5. ASSUME NEW r PROVE WeightOf(list, PendingOn(r)) <= 1
  <2>1. WeightOf(ForEach(ids, part), PendingOn(r)) \in 0..1
    BY <1>3, ForEachOnce
  <2> QED
    BY <1>2, <2>1
<1>6. Ask(p, op, list)
  BY <1>2
<1> QED
  BY <1>4, <1>5, <1>6, AskSeeds

\* softDeleteTransfer.
LEMMA UndoneAsked ==
  ASSUME RaceInv, NEW p \in Requests, NEW op, NEW i \in Ids, IsTransfer(i),
         Ask(p, op, Undone(i))
  PROVE  Onward
<1>0. RaceTypes /\ Imaged(p)
  BY DEF RaceInv, Sound
<1>1. PICK part : part = [j \in Ids |-> LegAdjustments(record[j], -1) \o <<Drop(j)>>]
  OBVIOUS
<1>2. PICK ids : ids = Legs(i)
  OBVIOUS
<1>3. Ask(p, op, ForEach(ids, part))
  BY <1>1, <1>2 DEF Undone
<1>4. ASSUME NEW j \in ids \cap Ids
      PROVE  /\ part[j] \in Seq(Seeds)
             /\ \A e \in Entities \ raced : WeightOf(part[j], Weights(p, e)) = 0
             /\ \A r : WeightOf(part[j], PendingOn(r)) = IF r = Row(j) THEN 1 ELSE 0
  <2>1. Live(j) /\ record[j].type = "transfer"
    BY <1>2, LegRows
  <2>2. PICK old \in Draft : /\ old = record[j] /\ old.state = "live"
                             /\ old.type = "transfer" /\ Shaped(old)
    BY <2>1, LiveRow
  <2>3. j < next
    BY <2>1, LiveRow
  <2>4. PICK x \in Seeds : x = Drop(j)
    BY <2>3, SeedKinds
  <2>5. PICK undo : undo = LegAdjustments(old, -1)
    OBVIOUS
  <2>6. undo \in Seq(Adjustments)
    <3>1. CASE Entities = {}
      <4>1. old.origin = None /\ old.destination = None /\ old.objective = None
        BY <3>1 DEF Draft, AccountOrNone, ObjectiveOrNone, Entities, Patrimony
      <4>2. undo = (<< >> \o << >>) \o << >>
        BY <2>5, <4>1 DEF LegAdjustments, Post
      <4> QED
        BY <4>2
    <3>2. CASE Entities # {}
      <4>1. PICK e \in Entities : TRUE
        BY <3>2
      <4> QED
        BY <1>0, <2>5, LegWeight
    <3> QED
      BY <3>1, <3>2
  <2>7. undo \in Seq(Statements) /\ undo \in Seq(Seeds) /\ x \in Statements
        /\ <<x>> \in Seq(Statements)
    <3>1. Adjustments \subseteq Seeds /\ Adjustments \subseteq Statements /\ Seeds \subseteq Statements
      BY SeedKinds
    <3>2. undo \in Seq(Statements) /\ undo \in Seq(Seeds)
      BY <2>6, <3>1, SeqSubset
    <3> QED
      BY <3>1, <3>2
  <2>8. part[j] = undo \o <<x>>
    BY <1>1, <2>2, <2>4, <2>5
  <2>9. part[j] \in Seq(Seeds)
    BY <2>7, <2>8
  <2>10. ASSUME NEW e \in Entities \ raced PROVE WeightOf(part[j], Weights(p, e)) = 0
    <3>1. PICK w \in [Statements -> Int] : w = Weights(p, e)
      BY <1>0, WeightsType
    <3>2. PICK c \in Int : c = Collected(old, e)
      BY <2>2, DraftCollected
    <3>3. Adjusted(old, e) = c
      BY <2>2, <3>2, LegCollects
    <3>4. WeightOf(undo, w) = (-1) * c
      BY <1>0, <2>5, <3>1, <3>3, LegWeight
    <3>5. w[x] = c
      BY <2>2, <2>4, <3>1, <3>2, Weighed
    <3>6. WeightOf(undo \o <<x>>, w) = WeightOf(undo, w) + w[x]
      BY <2>7, <3>1, WeightThen
    <3> QED
      BY <2>8, <3>1, <3>4, <3>5, <3>6
  <2>11. ASSUME NEW r PROVE WeightOf(part[j], PendingOn(r)) = IF r = Row(j) THEN 1 ELSE 0
    <3>1. PICK w \in [Statements -> Int] : w = PendingOn(r)
      BY PendingType
    <3>2. WeightOf(undo, w) = 0
      BY <2>6, <3>1, AdjustmentsFree
    <3>3. w[x] = IF r = Row(j) THEN 1 ELSE 0
      BY <2>4, <3>1, Locked
    <3>4. WeightOf(undo \o <<x>>, w) = WeightOf(undo, w) + w[x]
      BY <2>7, <3>1, WeightThen
    <3> QED
      BY <2>8, <3>1, <3>2, <3>3, <3>4
  <2> QED
    BY <2>9, <2>10, <2>11
<1> QED
  BY <1>3, <1>4, AskLoop

\* DELETE of a record keeps it.
LEMMA RemoveAsked ==
  ASSUME RaceInv, NEW p \in Requests, NEW i \in Ids, AskRemove(p, i)
  PROVE  Onward
<1>0. Live(i)
  BY DEF AskRemove
<1>1. CASE record[i].group # 0 /\ IsTransfer(i) /\ Ask(p, "remove", Undone(i))
  BY <1>1, UndoneAsked
<1>2. CASE Ask(p, "remove",
               <<Drop(i)>> \o NetAdjustments(LinksOf(record[i]),
                                             [e \in Entities |-> - Collected(record[i], e)]))
  <2>1. PICK old \in Draft : old = record[i]
    BY <1>0, LiveRow
  <2>2. PICK x \in Seeds : x = Drop(i)
    BY <1>0, LiveRow, SeedKinds
  <2>3. PICK delta : delta = [e \in Entities |-> - Collected(old, e)]
    OBVIOUS
  <2>4. delta \in [Entities -> Int]
    <3>1. \A e \in Entities : - Collected(old, e) \in Int
      BY DraftCollected
    <3> QED
      BY <2>3, <3>1
  <2>5. PICK links \in Seq(Entities \cup {None}) : links = LinksOf(old)
    BY LinksHave
  <2>6. ASSUME NEW e \in Entities, delta[e] # 0
        PROVE  \E k \in 1..Len(links) : links[k] = e
    <3>1. PICK c \in Int : c = Collected(old, e)
      BY DraftCollected
    <3>2. c # 0
      <4>1. delta[e] = 0 - c
        BY <2>3, <3>1
      <4> QED
        BY <2>6, <4>1
    <3> QED
      BY <2>5, <3>1, <3>2, LinksHave
  <2>7. ASSUME NEW e \in Entities PROVE Weights(p, e)[x] = - delta[e]
    <3>1. PICK c \in Int : c = Collected(old, e)
      BY DraftCollected
    <3>2. Weights(p, e)[x] = c /\ delta[e] = - c
      BY <2>1, <2>2, <2>3, <3>1, Weighed
    <3> QED
      BY <3>2
  <2>8. Ask(p, "remove", <<x>> \o NetAdjustments(links, delta))
    BY <1>2, <2>1, <2>2, <2>3, <2>5
  <2> QED
    BY <2>4, <2>6, <2>7, <2>8, AskOne
<1> QED
  BY <1>1, <1>2 DEF AskRemove

\* WeightConcat, with its weights as a premise.
LEMMA WeightSum ==
  ASSUME NEW S, NEW w, NEW a, NEW b, w \in [S -> Int], a \in Seq(S), b \in Seq(S)
  PROVE  WeightOf(a \o b, w) = WeightOf(a, w) + WeightOf(b, w)
BY WeightConcat

\* Two lists of statements that make up for one another.
LEMMA AskTwo ==
  ASSUME RaceInv, NEW p \in Requests, NEW op, NEW a, NEW b,
         a \in Seq(Seeds), b \in Seq(Seeds), Ask(p, op, a \o b),
         \A e \in Entities \ raced :
           WeightOf(a, Weights(p, e)) + WeightOf(b, Weights(p, e)) = 0,
         \A r : WeightOf(a, PendingOn(r)) + WeightOf(b, PendingOn(r)) <= 1
  PROVE  Onward
<1>1. RaceTypes /\ Imaged(p)
  BY DEF RaceInv, Sound
<1>2. a \in Seq(Statements) /\ b \in Seq(Statements)
  BY SeedKinds, SeqSubset
<1>3. PICK list \in Seq(Seeds) : list = a \o b
  <2>1. a \o b \in Seq(Seeds)
    OBVIOUS
  <2> QED
    BY <2>1
<1>4. ASSUME NEW e \in Entities \ raced PROVE WeightOf(list, Weights(p, e)) = 0
  <2>1. PICK w \in [Statements -> Int] : w = Weights(p, e)
    BY <1>1, WeightsType
  <2>2. WeightOf(a \o b, w) = WeightOf(a, w) + WeightOf(b, w)
    BY <1>2, <2>1, WeightSum
  <2> QED
    BY <1>3, <2>1, <2>2
<1>5. ASSUME NEW r PROVE WeightOf(list, PendingOn(r)) <= 1
  <2>1. PICK w \in [Statements -> Int] : w = PendingOn(r)
    BY PendingType
  <2>2. WeightOf(a \o b, w) = WeightOf(a, w) + WeightOf(b, w)
    BY <1>2, <2>1, WeightSum
  <2> QED
    BY <1>3, <2>1, <2>2
<1>6. Ask(p, op, list)
  BY <1>3
<1> QED
  BY <1>4, <1>5, <1>6, AskSeeds

\* softDeleteMany.
LEMMA RemoveManyAsked ==
  ASSUME RaceInv, NEW p \in Requests, NEW ids \in SUBSET Ids, AskRemoveMany(p, ids)
  PROVE  Onward
<1>0. RaceTypes /\ Imaged(p)
  BY DEF RaceInv, Sound
<1>1. PICK doomed : doomed = Doomed(ids)
  OBVIOUS
<1>2. PICK drops : drops = [i \in Ids |-> <<Drop(i)>>]
  OBVIOUS
<1>3. PICK linked : linked = [i \in Ids |-> LinksOf(record[i])]
  OBVIOUS
<1>4. PICK loss : loss = [e \in Entities |->
                            SumOver(doomed, [i \in Ids |-> - Collected(record[i], e)])]
  OBVIOUS
<1>5. Ask(p, "removeMany",
          ForEach(doomed, drops) \o NetAdjustments(ForEach(doomed, linked), loss))
  BY <1>1, <1>2, <1>3, <1>4 DEF AskRemoveMany
<1>6. \A i \in doomed \cap Ids : Live(i)
  BY <1>1 DEF Doomed
<1>7. \A i \in Ids : record[i] \in Draft
  BY <1>0, RaceTypeParts
<1>8. /\ \A i \in doomed \cap Ids : drops[i] \in Seq(Seeds)
      /\ \A i \in doomed \cap Ids : drops[i] \in Seq(Statements)
      /\ Turns(Statements, doomed, drops)
  <2>1. ASSUME NEW i \in doomed \cap Ids PROVE drops[i] \in Seq(Seeds)
    <3>1. PICK x \in Seeds : x = Drop(i)
      BY <1>6, LiveRow, SeedKinds
    <3>2. drops[i] = <<x>>
      BY <1>2, <3>1
    <3> QED
      BY <3>2
  <2>2. \A i \in doomed \cap Ids : drops[i] \in Seq(Statements)
    BY <2>1, SeedKinds, SeqSubset
  <2> QED
    BY <2>1, <2>2 DEF Turns
<1>9. PICK a \in Seq(Seeds) : a = ForEach(doomed, drops)
  BY <1>8, ForEachType
<1>10. PICK links \in Seq(Entities \cup {None}) : links = ForEach(doomed, linked)
  <2>1. \A i \in doomed \cap Ids : linked[i] \in Seq(Entities \cup {None})
    BY <1>3, <1>7, LinksHave
  <2> QED
    BY <2>1, ForEachType
<1>11. ASSUME NEW e \in Entities, NEW c, c = [i \in Ids |-> Collected(record[i], e)],
              NEW d, d = [i \in Ids |-> - Collected(record[i], e)]
       PROVE  /\ c \in [Ids -> Int] /\ d \in [Ids -> Int]
              /\ \A i \in doomed \cap Ids : d[i] = - c[i]
              /\ SumOver(doomed, c) \in Int /\ SumOver(doomed, d) \in Int
              /\ SumOver(doomed, d) = - SumOver(doomed, c)
              /\ loss[e] = SumOver(doomed, d)
  <2>1. \A i \in Ids : Collected(record[i], e) \in Int /\ - Collected(record[i], e) \in Int
    <3> SUFFICES ASSUME NEW i \in Ids
                 PROVE  Collected(record[i], e) \in Int /\ - Collected(record[i], e) \in Int
      OBVIOUS
    <3>1. PICK x \in Int : x = Collected(record[i], e)
      BY <1>7, DraftCollected
    <3> QED
      BY <3>1
  <2>2. c \in [Ids -> Int] /\ d \in [Ids -> Int] /\ \A i \in doomed \cap Ids : d[i] = - c[i]
    BY <1>11, <2>1
  <2>3. /\ SumOver(doomed, c) \in Int /\ SumOver(doomed, d) \in Int
        /\ SumOver(doomed, d) = - SumOver(doomed, c)
    BY <2>2, SumOverMinus
  <2>4. loss[e] = SumOver(doomed, d)
    BY <1>4, <1>11
  <2> QED
    BY <2>2, <2>3, <2>4
<1>12. loss \in [Entities -> Int]
  <2>1. \A e \in Entities : loss[e] \in Int
    BY <1>11
  <2> QED
    BY <1>4, <2>1
<1>13. ASSUME NEW e \in Entities, loss[e] # 0
       PROVE  \E k \in 1..Len(links) : links[k] = e
  <2>1. PICK d : d = [i \in Ids |-> - Collected(record[i], e)]
    OBVIOUS
  <2>2. d \in [Ids -> Int] /\ loss[e] = SumOver(doomed, d)
    BY <1>11, <2>1
  <2>3. PICK i \in doomed \cap Ids : d[i] # 0
    BY <1>13, <2>2, SumOverZero
  <2>4. Collected(record[i], e) # 0
    <3>1. PICK x \in Int : x = Collected(record[i], e)
      BY <1>7, DraftCollected
    <3>2. d[i] = 0 - x
      BY <2>1, <3>1
    <3> QED
      BY <2>3, <3>1, <3>2
  <2>5. PICK k \in 1..Len(LinksOf(record[i])) : LinksOf(record[i])[k] = e
    BY <1>7, <2>4, LinksHave
  <2>6. k \in 1..Len(linked[i]) /\ linked[i][k] = e
    BY <1>3, <2>5
  <2>7. \A j \in doomed \cap Ids : linked[j] \in Seq(Entities \cup {None})
    BY <1>3, <1>7, LinksHave
  <2>8. Has(ForEach(doomed, linked), linked[i][k])
    BY <2>6, <2>7, ForEachHas
  <2> QED
    BY <1>10, <2>6, <2>8 DEF Has
<1>14. PICK b \in Seq(Adjustments) : b = NetAdjustments(links, loss)
  BY <1>12, NetType
<1>15. b \in Seq(Seeds)
  BY <1>14, SeedKinds, SeqSubset
<1>16. ASSUME NEW e \in Entities \ raced
       PROVE  WeightOf(a, Weights(p, e)) + WeightOf(b, Weights(p, e)) = 0
  <2>1. PICK w \in [Statements -> Int] : w = Weights(p, e)
    BY <1>0, WeightsType
  <2>2. PICK c : c = [i \in Ids |-> Collected(record[i], e)]
    OBVIOUS
  <2>3. PICK d : d = [i \in Ids |-> - Collected(record[i], e)]
    OBVIOUS
  <2>4. WeightOf(b, w) = loss[e]
    BY <1>0, <1>12, <1>13, <1>14, <2>1, NetWeight, ZenonT(60)
  <2>5. /\ c \in [Ids -> Int] /\ SumOver(doomed, c) \in Int
        /\ loss[e] = - SumOver(doomed, c)
    BY <1>11, <2>2, <2>3
  <2>6. ASSUME NEW i \in doomed \cap Ids PROVE c[i] = WeightOf(drops[i], w)
    <3>1. PICK x \in Seeds : x = Drop(i)
      BY <1>6, LiveRow, SeedKinds
    <3>2. x \in Statements
      BY <3>1, SeedKinds
    <3>3. WeightOf(<<x>>, w) = w[x]
      BY <2>1, <3>2, WeightOne
    <3>4. w[x] = Collected(record[i], e)
      BY <2>1, <3>1, Weighed
    <3> QED
      BY <1>2, <2>2, <3>1, <3>3, <3>4
  <2>7. WeightOf(a, w) = SumOver(doomed, c)
    <3>1. Weighing(doomed, drops, w, c)
      BY <2>5, <2>6 DEF Weighing
    <3> QED
      BY <1>8, <1>9, <2>1, <3>1, ForEachWeight
  <2>8. PICK s \in Int : s = SumOver(doomed, c)
    BY <2>5
  <2> QED
    BY <2>1, <2>4, <2>5, <2>7, <2>8
<1>17. ASSUME NEW r PROVE WeightOf(a, PendingOn(r)) + WeightOf(b, PendingOn(r)) <= 1
  <2>1. PICK w \in [Statements -> Int] : w = PendingOn(r)
    BY PendingType
  <2>2. WeightOf(b, w) = 0
    BY <1>14, <2>1, AdjustmentsFree
  <2>3. ASSUME NEW i \in doomed \cap Ids
        PROVE  WeightOf(drops[i], PendingOn(r)) = IF r = Row(i) THEN 1 ELSE 0
    <3>1. PICK x \in Statements : x = Drop(i)
      BY StatementKinds
    <3>2. WeightOf(<<x>>, w) = w[x]
      BY <2>1, WeightOne
    <3>3. w[x] = IF r = Row(i) THEN 1 ELSE 0
      BY <2>1, <3>1, Locked
    <3> QED
      BY <1>2, <2>1, <3>1, <3>2, <3>3
  <2>4. WeightOf(ForEach(doomed, drops), PendingOn(r)) \in 0..1
    BY <1>8, <2>3, ForEachOnce
  <2> QED
    BY <1>9, <2>1, <2>2, <2>4
<1>18. Ask(p, "removeMany", a \o b)
  BY <1>5, <1>9, <1>10, <1>14
<1> QED
  BY <1>9, <1>15, <1>16, <1>17, <1>18, AskTwo

\* createMany.
LEMMA ImportAsked ==
  ASSUME RaceInv, NEW p \in Requests, NEW batch \in Batches, AskImport(p, batch)
  PROVE  Onward
<1>0. RaceTypes /\ Imaged(p)
  BY DEF RaceInv, Sound
<1>1. PICK n \in Nat : n = Len(batch)
  BY BatchType
<1>2. PICK rows : rows = [k \in 1..n |-> Plain(batch[k], None)]
  OBVIOUS
<1>3. ASSUME NEW k \in 1..n
      PROVE  rows[k] \in Draft /\ rows[k].state = "live" /\ Shaped(rows[k])
  <2>1. batch[k] \in Fields /\ batch[k].type \in {"income", "expense"}
    BY <1>1, BatchType
  <2>2. PICK row : row = Plain(batch[k], None)
    OBVIOUS
  <2>3. row \in Record /\ row.state = "live" /\ row.group = 0 /\ row.type = batch[k].type
    BY <2>1, <2>2, PlainType DEF CategoryOrNone
  <2>4. Shaped(row)
    BY <2>1, <2>3 DEF Shaped
  <2> QED
    BY <1>2, <2>2, <2>3, <2>4, RecordDraft
<1>4. PICK inserts : inserts = [k \in 1..n |-> Insert(rows[k])]
  OBVIOUS
<1>5. PICK linked : linked = [k \in 1..n |-> LinksOf(rows[k])]
  OBVIOUS
<1>6. PICK gain : gain = [e \in Entities |-> Total(n, [k \in 1..n |-> Collected(rows[k], e)])]
  OBVIOUS
<1>7. Ask(p, "import", inserts \o NetAdjustments(Joined(n, linked), gain))
  BY <1>1, <1>2, <1>4, <1>5, <1>6 DEF AskImport
<1>8. ASSUME NEW k \in 1..n
      PROVE  inserts[k] \in Seeds /\ inserts[k] \in Statements
  <2>1. PICK x \in Seeds : x = Insert(rows[k])
    BY <1>3, SeedKinds
  <2>2. inserts[k] = x
    BY <1>4, <2>1
  <2> QED
    BY <2>2, SeedKinds
<1>9. /\ inserts \in Seq(Seeds) /\ inserts \in Seq(Statements) /\ Len(inserts) = n
  <2>1. inserts \in [1..n -> Seeds] /\ inserts \in [1..n -> Statements]
    BY <1>4, <1>8
  <2> QED
    BY <2>1, SeqDef, LenProperties
<1>10. linked \in [1..n -> Seq(Entities \cup {None})]
  BY <1>3, <1>5, LinksHave
<1>11. PICK links \in Seq(Entities \cup {None}) : links = Joined(n, linked)
  BY <1>10, JoinedType
<1>12. ASSUME NEW e \in Entities, NEW c, c = [k \in 1..n |-> Collected(rows[k], e)]
       PROVE  c \in [1..n -> Int] /\ Total(n, c) \in Int /\ gain[e] = Total(n, c)
  <2>1. c \in [1..n -> Int]
    BY <1>3, <1>12, DraftCollected
  <2>2. Total(n, c) \in Int
    BY <2>1, TotalInt
  <2> QED
    BY <1>6, <1>12, <2>1, <2>2
<1>13. gain \in [Entities -> Int]
  <2>1. \A e \in Entities : gain[e] \in Int
    BY <1>12
  <2> QED
    BY <1>6, <2>1
<1>14. ASSUME NEW e \in Entities, gain[e] # 0
       PROVE  \E k \in 1..Len(links) : links[k] = e
  <2>1. PICK c : c = [k \in 1..n |-> Collected(rows[k], e)]
    OBVIOUS
  <2>2. c \in [1..n -> Int] /\ gain[e] = Total(n, c)
    BY <1>12, <2>1
  <2>3. PICK k \in 1..n : c[k] # 0
    BY <1>1, <1>14, <2>2, TotalZero
  <2>4. Collected(rows[k], e) # 0
    BY <2>1, <2>3
  <2>5. PICK j \in 1..Len(LinksOf(rows[k])) : LinksOf(rows[k])[j] = e
    BY <1>3, <2>4, LinksHave
  <2>6. PICK l \in 1..Len(linked[k]) : linked[k][l] = e
    BY <1>5, <2>5
  <2>7. Has(Joined(n, linked), linked[k][l])
    BY <1>1, <1>10, JoinedHas
  <2> QED
    BY <1>11, <2>6, <2>7 DEF Has
<1>15. PICK b \in Seq(Adjustments) : b = NetAdjustments(links, gain)
  BY <1>13, NetType
<1>16. b \in Seq(Seeds)
  BY <1>15, SeedKinds, SeqSubset
<1>17. ASSUME NEW e \in Entities \ raced
       PROVE  WeightOf(inserts, Weights(p, e)) + WeightOf(b, Weights(p, e)) = 0
  <2>1. PICK w \in [Statements -> Int] : w = Weights(p, e)
    BY <1>0, WeightsType
  <2>2. PICK c : c = [k \in 1..n |-> Collected(rows[k], e)]
    OBVIOUS
  <2>3. c \in [1..n -> Int] /\ Total(n, c) \in Int /\ gain[e] = Total(n, c)
    BY <1>12, <2>2
  <2>4. WeightOf(b, w) = gain[e]
    BY <1>0, <1>13, <1>14, <1>15, <2>1, NetWeight
  <2>5. PICK d : d = [k \in 1..n |-> w[inserts[k]]]
    OBVIOUS
  <2>6. d \in [1..n -> Int]
    BY <1>8, <2>1, <2>5
  <2>7. \A k \in 1..n : d[k] = - c[k]
    BY <1>3, <1>4, <2>1, <2>2, <2>5, Weighed, ZenonT(60)
  <2>8. Total(n, d) = - Total(n, c)
    BY <1>1, <2>3, <2>6, <2>7, TotalMinus
  <2>9. WeightOf(inserts, w) = Total(n, d)
    BY <1>9, <2>5 DEF WeightOf
  <2>10. PICK t \in Int : t = Total(n, c)
    BY <2>3
  <2> QED
    BY <2>1, <2>3, <2>4, <2>8, <2>9, <2>10
<1>18. ASSUME NEW r PROVE WeightOf(inserts, PendingOn(r)) + WeightOf(b, PendingOn(r)) <= 1
  <2>1. PICK w \in [Statements -> Int] : w = PendingOn(r)
    BY PendingType
  <2>2. WeightOf(b, w) = 0
    BY <1>15, <2>1, AdjustmentsFree
  <2>3. \A k \in 1..Len(inserts) : w[inserts[k]] = 0
    BY <1>3, <1>4, <1>9, <2>1, Locked
  <2>4. WeightOf(inserts, w) = 0
    BY <1>9, <2>1, <2>3, WeightZero
  <2> QED
    BY <2>1, <2>2, <2>4
<1>19. Ask(p, "import", inserts \o b)
  BY <1>7, <1>11, <1>15
<1> QED
  BY <1>9, <1>16, <1>17, <1>18, <1>19, AskTwo

\* The adjustments of a leg as statements.
LEMMA LegSeeds ==
  ASSUME RaceTypes, NEW p \in Requests, Imaged(p), NEW r \in Draft, NEW sign \in {1, -1}
  PROVE  /\ LegAdjustments(r, sign) \in Seq(Adjustments)
         /\ LegAdjustments(r, sign) \in Seq(Seeds)
         /\ LegAdjustments(r, sign) \in Seq(Statements)
<1>1. PICK l : l = LegAdjustments(r, sign)
  OBVIOUS
<1>2. l \in Seq(Adjustments)
  <2>1. CASE Entities = {}
    <3>1. r.origin = None /\ r.destination = None /\ r.objective = None
      BY <2>1 DEF Draft, AccountOrNone, ObjectiveOrNone, Entities, Patrimony
    <3>2. l = (<< >> \o << >>) \o << >>
      BY <1>1, <3>1 DEF LegAdjustments, Post
    <3> QED
      BY <3>2
  <2>2. CASE Entities # {}
    <3>1. PICK e \in Entities : TRUE
      BY <2>2
    <3> QED
      BY <1>1, LegWeight
  <2> QED
    BY <2>1, <2>2
<1>3. Adjustments \subseteq Seeds /\ Adjustments \subseteq Statements
  BY SeedKinds
<1>4. l \in Seq(Seeds) /\ l \in Seq(Statements)
  BY <1>2, <1>3, SeqSubset
<1> QED
  BY <1>1, <1>2, <1>4

\* Two lists of one make a list of two.
LEMMA TwoStatements ==
  ASSUME NEW S, NEW x \in S, NEW y \in S
  PROVE  <<x>> \o <<y>> = <<x, y>>
<1>1. PICK s \in Seq(S) : s = <<x>> \o <<y>>
  <2>1. <<x>> \o <<y>> \in Seq(S)
    OBVIOUS
  <2> QED
    BY <2>1
<1>2. PICK t \in Seq(S) : t = <<x, y>>
  <2>1. <<x, y>> \in Seq(S)
    OBVIOUS
  <2> QED
    BY <2>1
<1>3. Len(s) = 2 /\ s[1] = x /\ s[2] = y
  BY <1>1
<1>4. Len(t) = 2 /\ t[1] = x /\ t[2] = y
  BY <1>2
<1>5. \A k \in 1..Len(s) : s[k] = t[k]
  BY <1>3, <1>4
<1>6. s = t
  BY <1>3, <1>4, <1>5, SeqEqual
<1> QED
  BY <1>1, <1>2, <1>6

\* createTransfer.
LEMMA TransferAsked ==
  ASSUME RaceInv, NEW p \in Requests, NEW source \in Accounts, NEW dest \in Accounts,
         NEW amount \in Amounts, NEW goal \in ObjectiveOrNone,
         AskTransfer(p, source, dest, amount, goal)
  PROVE  Onward
<1>0. RaceTypes /\ Imaged(p)
  BY DEF RaceInv, Sound
<1>1. PICK text \in Descriptions : text = CHOOSE d \in Descriptions : TRUE
  BY LedgerAssumption
<1>2. \A g \in ObjectiveOrNone, x, y \in AccountOrNone :
        LET leg == Leg(amount, g, text, None, x, y)
        IN  leg \in Draft /\ leg.state = "live" /\ leg.type = "transfer" /\ Shaped(leg)
  <2>1. next \in Nat /\ "transfer" \in Types
    BY <1>0, RaceTypeParts, Values
  <2> SUFFICES ASSUME NEW g \in ObjectiveOrNone, NEW x \in AccountOrNone,
                      NEW y \in AccountOrNone
               PROVE  LET leg == Leg(amount, g, text, None, x, y)
                      IN  /\ leg \in Draft /\ leg.state = "live"
                          /\ leg.type = "transfer" /\ Shaped(leg)
    OBVIOUS
  <2>2. PICK leg : leg = Leg(amount, g, text, None, x, y)
    OBVIOUS
  <2>3. leg \in Draft
    BY <2>1, <2>2 DEF Leg, Draft, States, PatrimonyOrNone, CategoryOrNone, CompanyOrNone
  <2>4. leg.state = "live" /\ leg.type = "transfer" /\ leg.patrimony = None
    BY <2>2 DEF Leg
  <2>5. Shaped(leg)
    BY <2>4 DEF Shaped
  <2> QED
    BY <2>2, <2>3, <2>4, <2>5
<1>3. PICK origin \in Draft : /\ origin = Leg(amount, None, text, None, source, None)
                              /\ origin.state = "live" /\ origin.type = "transfer"
                              /\ Shaped(origin)
  BY <1>2 DEF ObjectiveOrNone, AccountOrNone
<1>4. PICK arrival \in Draft : /\ arrival = Leg(amount, goal, text, None, None, dest)
                               /\ arrival.state = "live" /\ arrival.type = "transfer"
                               /\ Shaped(arrival)
  BY <1>2 DEF AccountOrNone
<1>5. PICK x \in Seeds : x = Insert(origin)
  BY <1>3, SeedKinds
<1>6. PICK y \in Seeds : y = Insert(arrival)
  BY <1>4, SeedKinds
<1>7. PICK u : u = LegAdjustments(origin, 1)
  OBVIOUS
<1>8. PICK v : v = LegAdjustments(arrival, 1)
  OBVIOUS
<1>9. Ask(p, "transfer", (<<x, y>> \o u) \o v)
  BY <1>1, <1>3, <1>4, <1>5, <1>6, <1>7, <1>8 DEF AskTransfer
<1>10. /\ u \in Seq(Seeds) /\ v \in Seq(Seeds) /\ u \in Seq(Statements) /\ v \in Seq(Statements)
       /\ u \in Seq(Adjustments) /\ v \in Seq(Adjustments)
  BY <1>0, <1>7, <1>8, LegSeeds
<1>11. PICK one \in Seq(Statements) : one = <<x>>
  <2>1. <<x>> \in Seq(Statements)
    BY SeedKinds
  <2> QED
    BY <2>1
<1>12. x \in Statements /\ y \in Statements /\ one \in Seq(Seeds)
  BY <1>11, SeedKinds
<1>13. PICK two \in Seq(Statements) : two = one \o <<y>>
  <2>1. one \o <<y>> \in Seq(Statements)
    BY <1>12
  <2> QED
    BY <2>1
<1>14. two \in Seq(Seeds) /\ two = <<x, y>>
  BY <1>11, <1>12, <1>13, TwoStatements
<1>15. PICK a \in Seq(Seeds) : a = two \o u
  <2>1. two \o u \in Seq(Seeds)
    BY <1>10, <1>14
  <2> QED
    BY <2>1
<1>16. a \in Seq(Statements)
  BY SeedKinds, SeqSubset
<1>17. ASSUME NEW w, w \in [Statements -> Int]
       PROVE  /\ w[x] \in Int /\ w[y] \in Int
              /\ WeightOf(u, w) \in Int /\ WeightOf(v, w) \in Int
              /\ WeightOf(a, w) = (w[x] + w[y]) + WeightOf(u, w)
  <2>1. WeightOf(one, w) = w[x]
    BY <1>11, <1>12, <1>17, WeightOne
  <2>2. WeightOf(one \o <<y>>, w) = WeightOf(one, w) + w[y]
    BY <1>12, <1>17, WeightThen
  <2>3. WeightOf(two \o u, w) = WeightOf(two, w) + WeightOf(u, w)
    BY <1>10, <1>17, WeightSum
  <2>4. WeightOf(u, w) \in Int /\ WeightOf(v, w) \in Int
    BY <1>10, <1>17, WeightInt
  <2>5. w[x] \in Int /\ w[y] \in Int
    BY <1>12, <1>17
  <2> QED
    BY <1>13, <1>15, <2>1, <2>2, <2>3, <2>4, <2>5
<1>18. ASSUME NEW e \in Entities \ raced
       PROVE  WeightOf(a, Weights(p, e)) + WeightOf(v, Weights(p, e)) = 0
  <2>1. PICK w : w = Weights(p, e) /\ w \in [Statements -> Int]
    BY <1>0, WeightsType
  <2>2. PICK c \in Int, d \in Int : c = Collected(origin, e) /\ d = Collected(arrival, e)
    BY DraftCollected
  <2>3. Adjusted(origin, e) = c /\ Adjusted(arrival, e) = d
    BY <1>3, <1>4, <2>2, LegCollects
  <2>4. WeightOf(u, w) = 1 * c /\ WeightOf(v, w) = 1 * d
    BY <1>0, <1>7, <1>8, <2>1, <2>3, LegWeight
  <2>5. w[x] = - c /\ w[y] = - d
    BY <1>5, <1>6, <2>1, <2>2, Weighed
  <2>6. WeightOf(a, w) = (w[x] + w[y]) + WeightOf(u, w)
    BY <1>17, <2>1
  <2> QED
    BY <2>1, <2>2, <2>4, <2>5, <2>6
<1>19. ASSUME NEW r PROVE WeightOf(a, PendingOn(r)) + WeightOf(v, PendingOn(r)) <= 1
  <2>1. PICK w : w = PendingOn(r) /\ w \in [Statements -> Int]
    BY PendingType
  <2>2. WeightOf(u, w) = 0 /\ WeightOf(v, w) = 0
    BY <1>10, <2>1, AdjustmentsFree
  <2>3. w[x] = 0 /\ w[y] = 0
    BY <1>5, <1>6, <2>1, Locked
  <2>4. WeightOf(a, w) = (w[x] + w[y]) + WeightOf(u, w)
    BY <1>17, <2>1
  <2> QED
    BY <2>1, <2>2, <2>3, <2>4
<1>20. Ask(p, "transfer", a \o v)
  BY <1>9, <1>14, <1>15
<1> QED
  BY <1>10, <1>18, <1>19, <1>20, AskTwo

\* A list weighs what its first element and the others do.
LEMMA WeightFirst ==
  ASSUME NEW S, NEW w, NEW x, NEW t, w \in [S -> Int], x \in S, t \in Seq(S)
  PROVE  WeightOf(<<x>> \o t, w) = w[x] + WeightOf(t, w)
<1>1. <<x>> \in Seq(S)
  OBVIOUS
<1>2. WeightOf(<<x>>, w) = w[x]
  BY WeightOne
<1>3. WeightOf(<<x>> \o t, w) = WeightOf(<<x>>, w) + WeightOf(t, w)
  BY <1>1, WeightConcat
<1> QED
  BY <1>2, <1>3

\* updateTransfer.
LEMMA AmendAsked ==
  ASSUME RaceInv, NEW p \in Requests, NEW i \in Ids, NEW amount \in AmountOrNone,
         NEW relink \in BOOLEAN, NEW goal \in ObjectiveOrNone,
         AskAmend(p, i, amount, relink, goal)
  PROVE  Onward
<1>0. RaceTypes /\ Imaged(p) /\ TypeOK /\ IsTransfer(i)
  BY DEF RaceInv, Sound, RaceTypes, AskAmend
<1>1. PICK row : row = [j \in Ids |-> Amended(j, amount, None, relink, goal)]
  OBVIOUS
<1>2. PICK stated \in SUBSET {"amount"} : stated = IF amount = None THEN {} ELSE {"amount"}
  <2>1. (IF amount = None THEN {} ELSE {"amount"}) \in SUBSET {"amount"}
    OBVIOUS
  <2> QED
    BY <2>1
<1>3. PICK ids : ids = Legs(i)
  OBVIOUS
<1>4. PICK undo : undo = [j \in Ids |-> LegAdjustments(record[j], -1)]
  OBVIOUS
<1>5. PICK redo : redo = [j \in Ids |-> <<Save(j, row[j], stated)>> \o LegAdjustments(row[j], 1)]
  OBVIOUS
<1>6. Ask(p, "amend", ForEach(ids, undo) \o ForEach(ids, redo))
  BY <1>1, <1>2, <1>3, <1>4, <1>5 DEF AskAmend
<1>7. \A j \in Ids : record[j] \in Draft
  BY <1>0, RaceTypeParts
<1>8. ASSUME NEW j \in ids \cap Ids
      PROVE  /\ record[j] \in Draft /\ record[j].state = "live"
             /\ record[j].type = "transfer" /\ Shaped(record[j])
             /\ row[j] \in Draft /\ row[j].state = "live"
             /\ row[j].type = "transfer" /\ Shaped(row[j])
             /\ Save(j, row[j], stated) \in Seeds /\ row[j] \in Record
  <2>1. Live(j) /\ record[j].type = "transfer"
    BY <1>0, <1>3, LegRows
  <2>2. PICK old \in Draft : /\ old = record[j] /\ old.state = "live"
                             /\ old.type = "transfer" /\ Shaped(old) /\ j < next
    BY <2>1, LiveRow
  <2>3. PICK new1 : new1 = Amended(j, amount, None, relink, goal)
    OBVIOUS
  <2>4. /\ new1 \in Record /\ new1.state = old.state /\ new1.group = record[j].group
        /\ new1.type = old.type /\ new1.patrimony = old.patrimony
    BY <1>0, <2>2, <2>3, AmendedType DEF DescriptionOrNone
  <2>5. new1 \in Draft /\ Shaped(new1) /\ new1.state = "live" /\ new1.type = "transfer"
    BY <2>2, <2>4, RecordDraft DEF Shaped
  <2>6. Save(j, new1, stated) \in Seeds
    BY <2>2, <2>4, <2>5, SeedKinds
  <2>7. row[j] = new1
    BY <1>1, <2>3
  <2> QED
    BY <2>2, <2>4, <2>5, <2>6, <2>7
<1>9. /\ \A j \in ids \cap Ids : undo[j] \in Seq(Adjustments)
      /\ \A j \in ids \cap Ids : undo[j] \in Seq(Seeds)
      /\ Turns(Statements, ids, undo)
  BY <1>0, <1>4, <1>7, LegSeeds DEF Turns
<1>10. ASSUME NEW j \in ids \cap Ids
       PROVE  /\ redo[j] \in Seq(Seeds) /\ redo[j] \in Seq(Statements)
              /\ \A w : w \in [Statements -> Int] =>
                   WeightOf(redo[j], w)
                     = w[Save(j, row[j], stated)] + WeightOf(LegAdjustments(row[j], 1), w)
  <2>1. PICK x \in Seeds : x = Save(j, row[j], stated)
    BY <1>8
  <2>2. PICK leg : leg = LegAdjustments(row[j], 1)
    OBVIOUS
  <2>3. leg \in Seq(Seeds) /\ leg \in Seq(Statements)
    BY <1>0, <1>8, <2>2, LegSeeds
  <2>4. PICK one \in Seq(Statements) : one = <<x>>
    <3>1. <<x>> \in Seq(Statements)
      BY SeedKinds
    <3> QED
      BY <3>1
  <2>5. x \in Statements /\ one \in Seq(Seeds)
    BY <2>4, SeedKinds
  <2>6. redo[j] = one \o leg
    BY <1>5, <2>1, <2>2, <2>4
  <2>7. redo[j] \in Seq(Seeds) /\ redo[j] \in Seq(Statements)
    BY <2>3, <2>4, <2>5, <2>6
  <2>8. ASSUME NEW w, w \in [Statements -> Int]
        PROVE  WeightOf(redo[j], w)
                 = w[Save(j, row[j], stated)] + WeightOf(LegAdjustments(row[j], 1), w)
    <3>2. WeightOf(<<x>> \o leg, w) = w[x] + WeightOf(leg, w)
      BY <2>3, <2>5, <2>8, WeightFirst
    <3> QED
      BY <2>1, <2>2, <2>4, <2>6, <3>2
  <2> QED
    BY <2>7, <2>8
<1>11. PICK a \in Seq(Adjustments) : a = ForEach(ids, undo)
  BY <1>9, ForEachType
<1>12. a \in Seq(Seeds)
  BY <1>11, SeedKinds, SeqSubset
<1>13. PICK b \in Seq(Seeds) : b = ForEach(ids, redo)
  <2>1. \A j \in ids \cap Ids : redo[j] \in Seq(Seeds)
    BY <1>10
  <2> QED
    BY <2>1, ForEachType
<1>14. Turns(Statements, ids, redo)
  BY <1>10 DEF Turns
<1>15. ASSUME NEW e \in Entities \ raced
       PROVE  WeightOf(a, Weights(p, e)) + WeightOf(b, Weights(p, e)) = 0
  <2>1. PICK w : w = Weights(p, e) /\ w \in [Statements -> Int]
    BY <1>0, WeightsType
  <2>2. PICK c : c = [j \in Ids |-> Collected(record[j], e)]
    OBVIOUS
  <2>3. PICK d : d = [j \in Ids |-> - Collected(record[j], e)]
    OBVIOUS
  <2>4. c \in [Ids -> Int] /\ d \in [Ids -> Int] /\ \A j \in Ids : d[j] = - c[j]
    <3>1. ASSUME NEW j \in Ids
          PROVE  Collected(record[j], e) \in Int /\ - Collected(record[j], e) \in Int
      <4>1. PICK x \in Int : x = Collected(record[j], e)
        BY <1>7, DraftCollected
      <4> QED
        BY <4>1
    <3> QED
      BY <2>2, <2>3, <3>1
  <2>5. ASSUME NEW j \in ids \cap Ids
        PROVE  d[j] = WeightOf(undo[j], w) /\ c[j] = WeightOf(redo[j], w)
    <3>1. PICK old \in Draft : old = record[j]
      BY <1>8
    <3>2. PICK fresh \in Draft : fresh = row[j]
      BY <1>8
    <3>3. PICK x \in Int, y \in Int : x = Collected(old, e) /\ y = Collected(fresh, e)
      BY DraftCollected
    <3>4. Adjusted(old, e) = x /\ Adjusted(fresh, e) = y
      BY <1>8, <3>1, <3>2, <3>3, LegCollects
    <3>5. WeightOf(LegAdjustments(old, -1), w) = (-1) * x
      BY <1>0, <2>1, <3>4, LegWeight
    <3>6. WeightOf(LegAdjustments(fresh, 1), w) = 1 * y
      BY <1>0, <2>1, <3>4, LegWeight
    <3>7. w[Save(j, fresh, stated)] = x - y
      BY <1>8, <2>1, <3>1, <3>2, <3>3, Weighed, SMTT(30)
    <3>8. WeightOf(redo[j], w) = w[Save(j, fresh, stated)] + WeightOf(LegAdjustments(fresh, 1), w)
      BY <1>10, <2>1, <3>2
    <3>9. WeightOf(undo[j], w) = - x
      BY <1>4, <3>1, <3>5
    <3>10. WeightOf(redo[j], w) = x
      BY <3>3, <3>6, <3>7, <3>8
    <3> QED
      BY <2>2, <2>3, <3>1, <3>3, <3>9, <3>10
  <2>6. Weighing(ids, undo, w, d) /\ Weighing(ids, redo, w, c)
    BY <2>4, <2>5 DEF Weighing
  <2>7. WeightOf(a, w) = SumOver(ids, d)
    BY <1>9, <1>11, <2>1, <2>6, ForEachWeight
  <2>8. WeightOf(b, w) = SumOver(ids, c)
    BY <1>13, <1>14, <2>1, <2>6, ForEachWeight
  <2>9. SumOver(ids, c) \in Int /\ SumOver(ids, d) = - SumOver(ids, c)
    BY <2>4, SumOverMinus
  <2>10. PICK s \in Int : s = SumOver(ids, c)
    BY <2>9
  <2> QED
    BY <2>1, <2>7, <2>8, <2>9, <2>10
<1>16. ASSUME NEW r PROVE WeightOf(a, PendingOn(r)) + WeightOf(b, PendingOn(r)) <= 1
  <2>1. PICK w : w = PendingOn(r) /\ w \in [Statements -> Int]
    BY PendingType
  <2>2. WeightOf(a, w) = 0
    BY <1>11, <2>1, AdjustmentsFree
  <2>3. ASSUME NEW j \in ids \cap Ids
        PROVE  /\ redo[j] \in Seq(Statements)
               /\ WeightOf(redo[j], PendingOn(r)) = IF r = Row(j) THEN 1 ELSE 0
    <3>1. WeightOf(LegAdjustments(row[j], 1), w) = 0
      <4>1. LegAdjustments(row[j], 1) \in Seq(Adjustments)
        BY <1>0, <1>8, LegSeeds
      <4> QED
        BY <2>1, <4>1, AdjustmentsFree
    <3>2. w[Save(j, row[j], stated)] = IF r = Row(j) THEN 1 ELSE 0
      BY <1>8, <2>1, Locked
    <3>3. WeightOf(redo[j], w)
            = w[Save(j, row[j], stated)] + WeightOf(LegAdjustments(row[j], 1), w)
      BY <1>10, <2>1
    <3> QED
      BY <1>10, <2>1, <3>1, <3>2, <3>3
  <2>4. WeightOf(ForEach(ids, redo), PendingOn(r)) \in 0..1
    BY <2>3, ForEachOnce
  <2> QED
    BY <1>13, <2>1, <2>2, <2>4
<1>17. Ask(p, "amend", a \o b)
  BY <1>6, <1>11, <1>13
<1> QED
  BY <1>12, <1>13, <1>15, <1>16, <1>17, AskTwo

\* A request that has written nothing sees what is committed.
LEMMA IdleOwn ==
  ASSUME NEW p, Idle(p), NEW e
  PROVE  OwnFigure(p, e) = Committed(e) /\ Own(p, e) = balance[e]
<1>1. Entity(e) \notin DOMAIN work[p]
  BY DEF Idle, NoWork
<1>2. OwnFigure(p, e) = Committed(e)
  BY <1>1 DEF OwnFigure
<1>3. Committed(e).byHand = FALSE /\ Committed(e).balance = balance[e]
  BY DEF Committed, Figure
<1> QED
  BY <1>2, <1>3 DEF Own

\* The figure a request is about to write.
LEMMA FigureWritten ==
  ASSUME RaceTypes, NEW e \in Entities, NEW amount \in Int, NEW byHand \in BOOLEAN
  PROVE  /\ Figure(amount, Reached(e, amount), byHand) \in Figures
         /\ Figure(amount, Reached(e, amount), byHand).balance = amount
         /\ Figure(amount, Reached(e, amount), byHand).byHand = byHand
<1>1. Reached(e, amount) \in BOOLEAN
  <2>1. CASE e \in Objectives
    <3>1. target[e] \in Int
      BY <2>1 DEF RaceTypes, TypeOK
    <3>2. (amount >= target[e]) \in BOOLEAN
      BY <3>1
    <3> QED
      BY <2>1, <3>2 DEF Reached
  <2>2. CASE e \notin Objectives
    BY <2>2 DEF Reached
  <2> QED
    BY <2>1, <2>2
<1> QED
  BY <1>1 DEF Figure, Figures

\* Two statements of no loop.
LEMMA WeightTwo ==
  ASSUME NEW S, NEW w, NEW x, NEW y, w \in [S -> Int], x \in S, y \in S
  PROVE  WeightOf(<<x, y>>, w) = w[x] + w[y]
<1>1. <<x>> \in Seq(S)
  OBVIOUS
<1>2. WeightOf(<<x>>, w) = w[x]
  BY WeightOne
<1>3. WeightOf(<<x>> \o <<y>>, w) = WeightOf(<<x>>, w) + w[y]
  <2>1. PICK t \in Seq(S) : t = <<x>>
    BY <1>1
  <2>2. PICK u \in Seq(S) : u = <<y>>
    <3>1. <<y>> \in Seq(S)
      OBVIOUS
    <3> QED
      BY <3>1
  <2>3. WeightOf(<<y>>, w) = w[y]
    BY WeightOne
  <2>4. WeightOf(t \o u, w) = WeightOf(t, w) + WeightOf(u, w)
    BY WeightSum
  <2> QED
    BY <2>1, <2>2, <2>3, <2>4
<1>4. <<x>> \o <<y>> = <<x, y>>
  BY TwoStatements
<1> QED
  BY <1>2, <1>3, <1>4

\* A payment to a goal keeps it: the balance is written from what was read.
LEMMA PayAsked ==
  ASSUME RaceInv, NEW p \in Requests, NEW o \in Objectives, NEW amount \in Amounts,
         AskPay(p, o, amount)
  PROVE  Onward
<1>0. RaceTypes /\ Imaged(p) /\ o \in Entities /\ amount \in Int
  BY Values DEF RaceInv, Sound, Entities
<1>1. PICK row \in Payment : row = [state |-> "live", objective |-> o, amount |-> amount]
  <2>1. [state |-> "live", objective |-> o, amount |-> amount] \in Payment
    BY DEF Payment, States, ObjectiveOrNone
  <2> QED
    BY <2>1
<1>2. PICK total \in Int : total = balance[o] + amount
  <2>1. balance[o] \in Int
    BY <1>0, RaceTypeParts
  <2> QED
    BY <1>0, <2>1
<1>3. PICK figure \in Figures : /\ figure = Figure(total, Reached(o, total), FALSE)
                                /\ figure.balance = total /\ figure.byHand = FALSE
  BY <1>0, FigureWritten
<1>4. PICK x \in Statements : x = InsertPay(row)
  BY StatementKinds
<1>5. PICK y \in Statements : y = Write(o, figure, TRUE)
  BY <1>0, StatementKinds
<1>6. /\ x.do = "pay" /\ x.row = row /\ row.state = "live" /\ row.objective = o
      /\ row.amount = amount
      /\ y.do = "write" /\ y.on = o /\ y.figure = figure
  BY <1>1, <1>4, <1>5 DEF InsertPay, Write
<1>7. PICK list \in Seq(Statements) : list = <<x, y>>
  <2>1. <<x, y>> \in Seq(Statements)
    OBVIOUS
  <2> QED
    BY <2>1
<1>8. Len(list) = 2 /\ list[1] = x /\ list[2] = y
  BY <1>7
<1>9. Ask(p, "pay", list)
  BY <1>1, <1>2, <1>3, <1>4, <1>5, <1>7 DEF AskPay
<1>10. Proper(list)
  <2>1. \A k \in 1..Len(list) : k = 1 \/ k = 2
    BY <1>8
  <2>2. \A k \in 1..Len(list) : list[k].do = "pay" => k = 1 /\ list[k].row.state = "live"
    BY <1>6, <1>8, <2>1
  <2>3. \A k \in 1..Len(list) :
          list[k].do = "write" => k = 2 /\ list[1].do = "pay" /\ ~ list[k].figure.byHand
    BY <1>3, <1>6, <1>8, <2>1
  <2>4. \A k \in 1..Len(list) : list[k].do \in {"pay", "write"}
    BY <1>6, <1>8, <2>1
  <2> QED
    BY <2>2, <2>3, <2>4 DEF Proper
<1>11. ASSUME NEW e \in Entities PROVE WeightOf(list, Weights(p, e)) = 0
  <2>1. PICK w : w = Weights(p, e) /\ w \in [Statements -> Int]
    BY <1>0, WeightsType
  <2>2. w[x] = IF o = e THEN - amount ELSE 0
    <3>1. w[x] = - Paid(row, e)
      BY <1>6, <2>1 DEF Weights, Weigh
    <3>2. Paid(row, e) = IF o = e THEN amount ELSE 0
      BY <1>6 DEF Paid
    <3> QED
      BY <1>0, <3>1, <3>2
  <2>3. w[y] = IF o = e THEN amount ELSE 0
    <3>1. w[y] = IF o = e THEN total - Own(p, e) ELSE 0
      BY <1>3, <1>6, <2>1 DEF Weights, Weigh
    <3>2. Own(p, e) = balance[e]
      BY <1>9, AskFacts, IdleOwn
    <3>3. o = e => total - Own(p, e) = amount
      <4>1. PICK b \in Int : b = balance[o]
        BY <1>0, RaceTypeParts
      <4> QED
        BY <1>0, <1>2, <3>2, <4>1
    <3> QED
      BY <3>1, <3>3
  <2>4. WeightOf(list, w) = w[x] + w[y]
    BY <1>7, <2>1, WeightTwo
  <2> QED
    BY <1>0, <2>1, <2>2, <2>3, <2>4
<1>12. ASSUME NEW r PROVE WeightOf(list, PendingOn(r)) <= 1
  <2>1. PICK w : w = PendingOn(r) /\ w \in [Statements -> Int]
    BY PendingType
  <2>2. w[x] = 0 /\ w[y] = 0
    BY <1>6, <2>1 DEF PendingOn, Pending
  <2>3. WeightOf(list, w) = w[x] + w[y]
    BY <1>7, <2>1, WeightTwo
  <2> QED
    BY <2>1, <2>2, <2>3
<1>14. \A k \in 1..Len(list) : list[k].do = "pay" => list[k].row.objective \in Objectives
  <2>1. \A k \in 1..Len(list) : k = 1 \/ k = 2
    BY <1>8
  <2> QED
    BY <1>6, <1>8, <2>1
<1>13. RaceInv'
  BY <1>9, <1>10, <1>11, <1>12, AskStep
<1> QED
  BY <1>9, <1>14, <1>13, AskOnward

\* The deletion of a payment keeps it.
LEMMA UnpayAsked ==
  ASSUME RaceInv, Funded, NEW p \in Requests, NEW k \in Payments, AskUnpay(p, k)
  PROVE  Onward
<1>0. RaceTypes /\ Imaged(p) /\ payment[k].state = "live"
  BY DEF RaceInv, Sound, AskUnpay
<1>1. PICK o \in Entities : o = payment[k].objective
  BY <1>0 DEF Funded, Entities
<1>2. PICK amount \in Int : amount = payment[k].amount
  <2>1. payment[k] \in Payment
    BY <1>0, RaceTypeParts
  <2> QED
    BY <2>1, Values DEF Payment
<1>3. PICK x \in Statements : x = DropPay(k)
  BY StatementKinds
<1>4. PICK y \in Statements : y = Adjust(o, - amount)
  BY StatementKinds
<1>5. x.do = "unpay" /\ x.id = k /\ y.do = "adjust" /\ y.on = o /\ y.by = - amount
  BY <1>3, <1>4 DEF DropPay, Adjust
<1>6. PICK list \in Seq(Statements) : list = <<x, y>>
  <2>1. <<x, y>> \in Seq(Statements)
    OBVIOUS
  <2> QED
    BY <2>1
<1>7. Len(list) = 2 /\ list[1] = x /\ list[2] = y
  BY <1>6
<1>8. Ask(p, "unpay", list)
  BY <1>1, <1>2, <1>3, <1>4, <1>6 DEF AskUnpay
<1>9. Proper(list)
  <2>1. o \in Touched(list).changes
    <3>1. PICK mine : mine = Touched(list)
      OBVIOUS
    <3>2. ChangesOf(list[2]) \subseteq mine.changes
      BY <1>7, <3>1, TouchedParts
    <3>3. ChangesOf(list[2]) = {o}
      BY <1>5, <1>7 DEF ChangesOf
    <3> QED
      BY <3>1, <3>2, <3>3
  <2> QED
    BY <1>0, <1>1, <1>5, <1>7, <2>1 DEF Proper
<1>10. ASSUME NEW e \in Entities PROVE WeightOf(list, Weights(p, e)) = 0
  <2>1. PICK w : w = Weights(p, e) /\ w \in [Statements -> Int]
    BY <1>0, WeightsType
  <2>2. w[x] = IF o = e THEN amount ELSE 0
    <3>1. w[x] = Paid(payment[k], e)
      BY <1>5, <2>1 DEF Weights, Weigh
    <3> QED
      BY <1>0, <1>1, <1>2, <3>1 DEF Paid
  <2>3. w[y] = IF o = e THEN - amount ELSE 0
    BY <1>5, <2>1 DEF Weights, Weigh
  <2>4. WeightOf(list, w) = w[x] + w[y]
    BY <1>6, <2>1, WeightTwo
  <2> QED
    BY <2>1, <2>2, <2>3, <2>4
<1>11. ASSUME NEW r PROVE WeightOf(list, PendingOn(r)) <= 1
  <2>1. PICK w : w = PendingOn(r) /\ w \in [Statements -> Int]
    BY PendingType
  <2>2. w[x] \in 0..1 /\ w[y] = 0
    BY <1>5, <2>1 DEF PendingOn, Pending
  <2>3. WeightOf(list, w) = w[x] + w[y]
    BY <1>6, <2>1, WeightTwo
  <2> QED
    BY <2>1, <2>2, <2>3
<1>13. \A m \in 1..Len(list) : list[m].do # "pay"
  <2>1. \A m \in 1..Len(list) : m = 1 \/ m = 2
    BY <1>7
  <2> QED
    BY <1>5, <1>7, <2>1
<1>12. RaceInv'
  BY <1>8, <1>9, <1>10, <1>11, AskStep
<1> QED
  BY <1>8, <1>13, <1>12, AskOnward

\* PATCH of an entity keeps it: a balance not stated is written as it was read.
LEMMA EditAsked ==
  ASSUME RaceInv, NEW p \in Requests, NEW on \in Entities, NEW amount \in Overrides \cup {None},
         AskEdit(p, on, amount)
  PROVE  Onward
<1>0. RaceTypes /\ Imaged(p)
  BY DEF RaceInv, Sound
<1>1. PICK b \in Int : b = balance[on]
  BY <1>0, RaceTypeParts
<1>2. PICK total \in Int : total = Given(amount, b)
  <2>1. Given(amount, b) \in Int
    BY Values DEF Given
  <2> QED
    BY <2>1
<1>3. PICK stated \in BOOLEAN : stated = (amount # None)
  OBVIOUS
<1>4. PICK figure \in Figures : /\ figure = Figure(total, Reached(on, total), stated)
                                /\ figure.balance = total /\ figure.byHand = stated
  BY <1>0, FigureWritten
<1>5. PICK x \in Statements : x = Write(on, figure, stated)
  BY StatementKinds
<1>6. x.do = "write" /\ x.on = on /\ x.figure = figure
  BY <1>5 DEF Write
<1>7. PICK list \in Seq(Statements) : list = <<x>>
  <2>1. <<x>> \in Seq(Statements)
    OBVIOUS
  <2> QED
    BY <2>1
<1>8. Len(list) = 1 /\ list[1] = x
  BY <1>7
<1>9. Ask(p, "edit", list)
  BY <1>1, <1>2, <1>3, <1>4, <1>5, <1>7 DEF AskEdit
<1>10. Proper(list)
  BY <1>6, <1>8 DEF Proper
<1>11. ASSUME NEW e \in Entities PROVE WeightOf(list, Weights(p, e)) = 0
  <2>1. PICK w : w = Weights(p, e) /\ w \in [Statements -> Int]
    BY <1>0, WeightsType
  <2>2. w[x] = IF on = e /\ ~ stated THEN total - Own(p, e) ELSE 0
    BY <1>4, <1>6, <2>1 DEF Weights, Weigh
  <2>3. Own(p, e) = balance[e]
    BY <1>9, AskFacts, IdleOwn
  <2>4. on = e /\ ~ stated => total - Own(p, e) = 0
    <3>1. ~ stated => amount = None
      BY <1>3, Zenon
    <3>2. amount = None => total = b
      BY <1>2 DEF Given
    <3>3. on = e => Own(p, e) = b
      BY <1>1, <2>3
    <3> QED
      BY <1>1, <3>1, <3>2, <3>3
  <2>5. WeightOf(list, w) = w[x]
    BY <1>7, <2>1, WeightOne
  <2> QED
    BY <2>1, <2>2, <2>4, <2>5
<1>12. ASSUME NEW r PROVE WeightOf(list, PendingOn(r)) <= 1
  <2>1. PICK w : w = PendingOn(r) /\ w \in [Statements -> Int]
    BY PendingType
  <2>2. w[x] = 0
    BY <1>6, <2>1 DEF PendingOn, Pending
  <2>3. WeightOf(list, w) = w[x]
    BY <1>7, <2>1, WeightOne
  <2> QED
    BY <2>1, <2>2, <2>3
<1>14. \A k \in 1..Len(list) : list[k].do # "pay"
  BY <1>6, <1>8
<1>13. RaceInv'
  BY <1>9, <1>10, <1>11, <1>12, AskStep
<1> QED
  BY <1>9, <1>14, <1>13, AskOnward

-----------------------------------------------------------------------------
(* The theorem.                                                            *)

\* The inductive invariant: what each request has done and will do explains the
\* balances it leaves, its new rows are rows of the ledger, and payments are of goals.
RacesHold == RaceInv /\ Funded /\ \A p \in Requests : Drawn(p)

\* Any request about records keeps it.
LEMMA RecordAsked ==
  ASSUME LegEdits # "any", RacesHold, NEW p \in Requests, AskRecord(p)
  PROVE  RacesHold'
<1>1. RaceInv
  BY DEF RacesHold
<1>2. Onward
  <2>1. ASSUME NEW f \in Fields, AskCreate(p, f) PROVE Onward
    BY <1>1, <2>1, CreateAsked
  <2>2. ASSUME NEW batch \in Batches, AskImport(p, batch) PROVE Onward
    BY <1>1, <2>2, ImportAsked
  <2>3. ASSUME NEW i \in Ids, NEW amount \in AmountOrNone, AskClone(p, i, amount)
        PROVE  Onward
    BY <1>1, <2>3, CloneAsked
  <2>4. ASSUME NEW i \in Ids, NEW f \in Fields, AskUpdate(p, i, f) PROVE Onward
    BY <1>1, <2>4, UpdateAsked
  <2>5. ASSUME NEW i \in Ids, AskRemove(p, i) PROVE Onward
    BY <1>1, <2>5, RemoveAsked
  <2>6. ASSUME NEW ids \in SUBSET Ids, AskRemoveMany(p, ids) PROVE Onward
    BY <1>1, <2>6, RemoveManyAsked
  <2> QED
    BY <2>1, <2>2, <2>3, <2>4, <2>5, <2>6 DEF AskRecord
<1> QED
  BY <1>2 DEF Onward, RacesHold

\* Any request about money keeps it.
LEMMA MoneyAsked ==
  ASSUME RacesHold, NEW p \in Requests, AskMoney(p)
  PROVE  RacesHold'
<1>1. RaceInv /\ Funded
  BY DEF RacesHold
<1>2. Onward
  <2>1. ASSUME NEW source \in Accounts, NEW dest \in Accounts, NEW amount \in Amounts,
               NEW goal \in ObjectiveOrNone, AskTransfer(p, source, dest, amount, goal)
        PROVE  Onward
    BY <1>1, <2>1, TransferAsked
  <2>2. ASSUME NEW i \in Ids, NEW amount \in AmountOrNone, NEW relink \in BOOLEAN,
               NEW goal \in ObjectiveOrNone, AskAmend(p, i, amount, relink, goal)
        PROVE  Onward
    BY <1>1, <2>2, AmendAsked
  <2>3. ASSUME NEW i \in Ids, AskRemoveTransfer(p, i) PROVE Onward
    BY <1>1, <2>3, UndoneAsked DEF AskRemoveTransfer
  <2>4. ASSUME NEW o \in Objectives, NEW amount \in Amounts, AskPay(p, o, amount)
        PROVE  Onward
    BY <1>1, <2>4, PayAsked
  <2>5. ASSUME NEW k \in Payments, AskUnpay(p, k) PROVE Onward
    BY <1>1, <2>5, UnpayAsked
  <2>6. ASSUME NEW e \in Entities, NEW amount \in Overrides \cup {None},
               AskEdit(p, e, amount)
        PROVE  Onward
    BY <1>1, <2>6, EditAsked
  <2> QED
    BY <2>1, <2>2, <2>3, <2>4, <2>5, <2>6 DEF AskMoney
<1> QED
  BY <1>1, <1>2 DEF Onward, RacesHold

\* A transaction that is rolled back keeps it.
LEMMA RolledBack ==
  ASSUME RacesHold, NEW p \in Requests, todo[p] # << >>, Forget(p), UNCHANGED vars
  PROVE  RacesHold'
<1>1. RaceInv /\ Funded /\ RaceTypes
  BY DEF RacesHold, RaceInv
<1>2. RaceInv'
  BY <1>1, ForgetStep
<1>3. \A q \in Requests : /\ newPay'[q] = newPay[q] \/ newPay'[q] = << >>
                          /\ todo'[q] = todo[q] \/ todo'[q] = << >>
                          /\ new'[q] = new[q] \/ new'[q] = << >>
  BY <1>1, ForgetFacts DEF Idle
<1>4. Funded'
  <2>1. payment' = payment
    BY DEF vars
  <2> QED
    BY <1>1, <1>3, <2>1, FundedStays
<1>5. ASSUME NEW q \in Requests PROVE Drawn(q)'
  <2>1. raced \subseteq raced'
    BY DEF Forget
  <2>2. Drawn(q)
    BY DEF RacesHold
  <2> QED
    BY <1>3, <2>1, <2>2, DrawnStays
<1> QED
  BY <1>2, <1>4, <1>5 DEF RacesHold

\* Who is in a cycle of waits is running: a lock is awaited by, and held by, nobody
\* who is not.
LEMMA DeadlockedRuns ==
  ASSUME RaceInv, NEW p \in Requests, Deadlocked(p)
  PROVE  todo[p] # << >>
<1>1. PICK S \in SUBSET Requests : p \in S /\ S = UNION {WaitsFor(q) : q \in S}
  BY DEF Deadlocked
<1>2. PICK q \in S : p \in WaitsFor(q)
  BY <1>1
<1>3. Held(p) # {}
  BY <1>2 DEF WaitsFor
<1>4. AtRest(p)
  BY DEF RaceInv, Sound
<1>5. todo[p] = << >> => Held(p) = {}
  BY <1>4 DEF AtRest, Held, NoWork
<1> QED
  BY <1>3, <1>5

\* A commit keeps it.
LEMMA CommittedHolds ==
  ASSUME RacesHold, NEW p \in Requests, Commits(p)
  PROVE  RacesHold'
<1>1. RaceInv /\ Funded /\ RaceTypes /\ Drawn(p)
  BY DEF RacesHold, RaceInv
<1>2. RaceInv'
  BY <1>1, CommitStep
<1>3. Funded'
  BY <1>1, FundedCommitting
<1>4. ASSUME NEW q \in Requests PROVE Drawn(q)'
  <2>0. Forget(p)
    BY DEF Commits
  <2>1. raced \subseteq raced'
    BY <2>0 DEF Forget
  <2>2. Drawn(q)
    BY DEF RacesHold
  <2>3. new'[q] = new[q] \/ new'[q] = << >>
    BY <1>1, <2>0, ForgetFacts DEF Idle
  <2> QED
    BY <2>1, <2>2, <2>3, DrawnStays
<1> QED
  BY <1>2, <1>3, <1>4 DEF RacesHold

\* Entities opened before the first request keep it.
LEMMA OpenedHolds ==
  ASSUME RacesHold, OpensEntities
  PROVE  RacesHold'
<1>1. RaceInv /\ Funded
  BY DEF RacesHold
<1>2. RaceInv'
  BY <1>1, OpenStep
<1>3. UNCHANGED <<todo, new, newPay, raced, payment>>
  BY DEF OpensEntities, raceVars, Open
<1>4. Funded'
  BY <1>1, <1>3, FundedStays
<1>5. ASSUME NEW q \in Requests PROVE Drawn(q)'
  <2>1. Drawn(q)
    BY DEF RacesHold
  <2> QED
    BY <1>3, <2>1, DrawnStays
<1> QED
  BY <1>2, <1>4, <1>5 DEF RacesHold

\* A state that does not change keeps it.
LEMMA StillHolds ==
  ASSUME RacesHold, UNCHANGED allVars
  PROVE  RacesHold'
<1>1. RaceTypes /\ Files /\ DamageIsConfined /\ Funded
  BY DEF RacesHold, RaceInv
<1>2. /\ UNCHANGED vars /\ todo' = todo /\ work' = work /\ new' = new
      /\ newPay' = newPay /\ asked' = asked /\ touch' = touch /\ raced' = raced
  BY DEF allVars, raceVars
<1>3. RaceTypes'
  <2>1. TypeOK'
    BY <1>1, <1>2, Unmoved DEF RaceTypes, TypeOK
  <2> QED
    BY <1>1, <1>2, <2>1 DEF RaceTypes
<1>4. Files'
  <2>1. \A r : Shaped(r) => Shaped(r)'
    BY <1>2 DEF Shaped
  <2>2. record' = record /\ payment' = payment /\ next' = next
    BY <1>2, Unmoved
  <2>3. \A i \in Ids : /\ i >= next' => record'[i].state = "none"
                       /\ Shaped(record[i])'
    BY <1>1, <2>1, <2>2 DEF Files
  <2>5. asked' = 0 =>
          /\ next' = 1 /\ \A k \in Payments : payment'[k].state = "none"
          /\ \A p \in Requests : todo'[p] = << >>
    BY <1>1, <1>2, <2>2 DEF Files
  <2> QED
    BY <2>2, <2>3, <2>5 DEF Files, Shaped
<1>5. DamageIsConfined'
  BY <1>1, <1>2, Unmoved DEF DamageIsConfined, Explained
<1>6. ASSUME NEW q \in Requests PROVE Sound(q)' /\ Drawn(q)'
  <2>1. Sound(q) /\ Drawn(q)
    BY DEF RacesHold, RaceInv
  <2>2. Sound(q)'
    BY <1>1, <1>2, <2>1, OthersKeep
  <2>3. Drawn(q)'
    BY <1>2, <2>1, DrawnStays
  <2> QED
    BY <2>2, <2>3
<1>7. \A q, r \in Requests : q # r => Apart(q, r)'
  BY <1>2 DEF RacesHold, RaceInv, Apart
<1>8. Funded'
  BY <1>1, <1>2, Unmoved, FundedStays
<1> QED
  BY <1>3, <1>4, <1>5, <1>6, <1>7, <1>8 DEF RaceInv, RacesHold

\* The initial states have it.
LEMMA RacesStart == RaceInit => RacesHold
<1> SUFFICES ASSUME RaceInit PROVE RacesHold
  OBVIOUS
<1>1. RaceInv /\ \A p \in Requests : Drawn(p)
  BY RaceStart
<1>2. Funded
  <2>1. \A k \in Payments : payment[k].state = "none"
    BY DEF RaceInit, Init, NoPayment
  <2>2. ASSUME NEW p \in Requests PROVE Promised(p)
    <3>1. todo[p] = << >> /\ newPay[p] = << >>
      BY DEF RaceInit
    <3> QED
      BY <3>1 DEF Promised
  <2> QED
    BY <2>1, <2>2 DEF Funded
<1> QED
  BY <1>1, <1>2 DEF RacesHold

\* Every step keeps it.
LEMMA RacesNext == LegEdits # "any" /\ RacesHold /\ [RaceNext]_allVars => RacesHold'
<1> SUFFICES ASSUME LegEdits # "any", RacesHold, [RaceNext]_allVars PROVE RacesHold'
  OBVIOUS
<1>1. CASE OpensEntities
  BY <1>1, OpenedHolds
<1>2. ASSUME NEW p \in Requests, AskRecord(p) PROVE RacesHold'
  BY <1>2, RecordAsked
<1>3. ASSUME NEW p \in Requests, AskMoney(p) PROVE RacesHold'
  BY <1>3, MoneyAsked
<1>4. ASSUME NEW p \in Requests, Execute(p) PROVE RacesHold'
  <2>1. RaceInv /\ Funded /\ \A q \in Requests : Drawn(q)
    BY DEF RacesHold
  <2>2. RaceInv'
    BY <1>4, <2>1, ExecuteStep
  <2>3. Funded'
    BY <1>4, <2>1, FundedExecuting
  <2>4. \A q \in Requests : Drawn(q)'
    BY <1>4, <2>1, DrawnExecuting
  <2> QED
    BY <2>2, <2>3, <2>4 DEF RacesHold
<1>5. ASSUME NEW p \in Requests, Commits(p) PROVE RacesHold'
  BY <1>5, CommittedHolds
<1>6. ASSUME NEW p \in Requests, Fail(p) PROVE RacesHold'
  BY <1>6, RolledBack DEF Fail, Running
<1>7. ASSUME NEW p \in Requests, BreakDeadlock(p) PROVE RacesHold'
  <2>1. todo[p] # << >>
    BY <1>7, DeadlockedRuns DEF BreakDeadlock, RacesHold
  <2> QED
    BY <1>7, <2>1, RolledBack DEF BreakDeadlock
<1>8. CASE UNCHANGED allVars
  BY <1>8, StillHolds
<1> QED
  BY <1>1, <1>2, <1>3, <1>4, <1>5, <1>6, <1>7, <1>8 DEF RaceNext

\* Whatever requests overlap, in whatever order their statements run, fail, are
\* rolled back or are chosen by the deadlock detector, and where the fields of one
\* leg of a transfer cannot be edited at will: only the balances of entities that two
\* requests changed at the same time, or of a row both changed, can differ from what
\* the committed movements explain.
THEOREM DamageConfined ==
  ASSUME LegEdits # "any"
  PROVE  RaceSpec => []DamageIsConfined
<1>1. RaceInit => RacesHold
  BY RacesStart
<1>2. RacesHold /\ [RaceNext]_allVars => RacesHold'
  BY RacesNext
<1>3. RacesHold => DamageIsConfined
  BY DEF RacesHold, RaceInv
<1> QED
  BY <1>1, <1>2, <1>3, PTL DEF RaceSpec

-----------------------------------------------------------------------------
(* Halves of transfers: HalvesAreConfined.                                 *)

\* The statements p has left.
Left(p) == {todo[p][k] : k \in 1..Len(todo[p])}

\* p deletes the row i, or has deleted it.
Gone(p, i) ==
  \/ \E s \in Left(p) : s.do = "drop" /\ s.id = i
  \/ Row(i) \in DOMAIN work[p] /\ work[p][Row(i)].state = "deleted"

\* What an overlap may damage of p is all it is about.
Spoilt(p) == touch[p].links \subseteq raced

\* The accounts of a row.
Ends(r) == {r.origin, r.destination} \cap Accounts

\* A row keeps its accounts.
SameEnds(r, old) == r.origin = old.origin /\ r.destination = old.destination

\* A row was live when p read it: if it is not, another request deleted it since.
Stale(p) == \A i \in Ids : Row(i) \in touch[p].rows /\ record[i].state # "live" => Spoilt(p)

\* No request moves a record to other accounts.
KeepsEnds(p) ==
  \/ Spoilt(p)
  \/ /\ \A s \in Left(p) :
          s.do \in {"save", "update"} => SameEnds(s.row, record[s.id])
     /\ \A i \in Ids : Row(i) \in DOMAIN work[p] /\ work[p][Row(i)].state = "live" =>
                         SameEnds(work[p][Row(i)], record[i])

\* Who deletes one leg deletes the other, if it is not confined already.
Whole(p) ==
  \A i, j \in Ids :
    /\ record[i].group # 0 /\ record[j].group = record[i].group
    /\ Gone(p, i) /\ record[j].state = "live"
    => Gone(p, j) \/ Ends(record[j]) \subseteq raced

\* What the other requests know of the halves p may leave.
Halved(p) == Stale(p) /\ KeepsEnds(p) /\ Whole(p)

\* The invariant of the halves.
HalvesHold ==
  /\ RacesHold /\ Fresh /\ HalvesAreConfined
  /\ \A p \in Requests : Halved(p)

\* What an overlap has spoilt of p stays so.
LEMMA SpoiltStays ==
  ASSUME NEW p, touch'[p] = touch[p], raced \subseteq raced', Spoilt(p)
  PROVE  Spoilt(p)'
BY DEF Spoilt

\* A request that does not move, in a database that does not.
LEMMA HalvedStays ==
  ASSUME NEW p, Halved(p), record' = record, touch'[p] = touch[p], todo'[p] = todo[p],
         work'[p] = work[p], raced \subseteq raced'
  PROVE  Halved(p)'
<1>0. Left(p)' = Left(p)
  BY DEF Left
<1>1. Stale(p)'
  BY SpoiltStays DEF Halved, Stale
<1>2. KeepsEnds(p)'
  BY <1>0, SpoiltStays DEF Halved, KeepsEnds, SameEnds
<1>3. \A i : Gone(p, i)' <=> Gone(p, i)
  BY <1>0 DEF Gone
<1>4. Whole(p)'
  BY <1>3 DEF Halved, Whole, Ends
<1> QED
  BY <1>1, <1>2, <1>4 DEF Halved

\* A request that is over halves nothing.
LEMMA HalvedIdle ==
  ASSUME NEW p, todo'[p] = << >>, work'[p] = NoWork, touch'[p] = Nothing
  PROVE  Halved(p)'
<1>1. Spoilt(p)'
  BY DEF Spoilt, Nothing
<1>2. DOMAIN work'[p] = {} /\ Left(p)' = {}
  BY DEF NoWork, Left
<1>3. \A i : ~ Gone(p, i)'
  BY <1>2 DEF Gone
<1> QED
  BY <1>1, <1>3 DEF Halved, Stale, KeepsEnds, Whole

\* The accounts of a row are entities linked to it.
LEMMA EndsLinked == \A r : Ends(r) \subseteq Linked(r)
<1>1. Accounts \subseteq Entities
  BY DEF Entities, Patrimony
<1> QED
  BY <1>1 DEF Ends, Linked

-----------------------------------------------------------------------------
(* A commit.                                                               *)

\* The rows a commit files are live, and grouped under a key that was free.
LEMMA FiledLive ==
  ASSUME RaceTypes, NEW p \in Requests, Imaged(p), Traced(p), Drawn(p), Keep(p),
         NEW i \in Ids, i \in next .. (next + Len(new[p]) - 1)
  PROVE  record'[i].state = "live" /\ record'[i].group \in {0, next}
<1>1. Row(i) \notin DOMAIN work[p] /\ i - next + 1 \in 1..Len(new[p])
  BY KeepRows
<1>2. new[p] \in Seq(Draft)
  BY DEF RaceTypes
<1>3. PICK r \in Draft : r = new[p][i - next + 1]
  BY <1>1, <1>2
<1>4. r.state = "live"
  BY <1>1, <1>3 DEF Drawn
<1>5. record'[i] = FiledRow(p, i)
  BY <1>1 DEF Keep, FiledRow
<1>6. PICK g \in {0, next} : g = IF r.group = 0 THEN 0 ELSE next
  OBVIOUS
<1>7. record'[i] = [r EXCEPT !.group = g]
  BY <1>3, <1>5, <1>6 DEF FiledRow
<1> QED
  BY <1>4, <1>6, <1>7 DEF Draft

\* A row that p leaves live has the accounts it had, where these are confined.
LEMMA EndsKept ==
  ASSUME RaceTypes, NEW p \in Requests, Imaged(p), Traced(p), Drawn(p), Keep(p), Halved(p),
         NEW i \in Ids, Row(i) \in DOMAIN work[p], record'[i].state = "live",
         record[i].state = "live" => Ends(record[i]) \subseteq raced
  PROVE  Ends(record'[i]) \subseteq raced
<1>1. /\ record'[i] = work[p][Row(i)] /\ Row(i) \in touch[p].rows
      /\ Linked(record'[i]) \subseteq touch[p].links \cup raced
  BY KeepRows
<1>2. Spoilt(p) => Ends(record'[i]) \subseteq raced
  BY <1>1, EndsLinked DEF Spoilt
<1>3. record[i].state # "live" => Spoilt(p)
  BY <1>1 DEF Halved, Stale
<1>4. Spoilt(p) \/ SameEnds(record'[i], record[i])
  BY <1>1 DEF Halved, KeepsEnds
<1>5. SameEnds(record'[i], record[i]) => Ends(record'[i]) = Ends(record[i])
  BY DEF SameEnds, Ends
<1> QED
  BY <1>2, <1>3, <1>4, <1>5

\* Keys stay fresh.
LEMMA FreshCommitted ==
  ASSUME RaceTypes, NEW p \in Requests, Imaged(p), Traced(p), Drawn(p), Keep(p), Fresh
  PROVE  Fresh'
<1>1. /\ next' = next + Len(new[p]) /\ Len(new[p]) \in Nat /\ next \in Nat
  BY KeepRows, RaceTypeParts
<1>2. PICK rows : rows = record'
  OBVIOUS
<1>3. ASSUME NEW i \in Ids
      PROVE  /\ rows[i].group < next'
             /\ i >= next' => rows[i].state = "none" /\ rows[i].group = 0
  <2>0. i \in Nat /\ record[i].group \in Nat
    BY RaceTypeParts DEF Ids, Draft
  <2>1. CASE Row(i) \in DOMAIN work[p]
    <3>1. i < next /\ rows[i].group = record[i].group
      BY <1>2, <2>1, KeepRows
    <3> QED
      BY <1>1, <2>0, <3>1 DEF Fresh
  <2>2. CASE i \in next .. (next + Len(new[p]) - 1)
    <3>1. rows[i].group \in {0, next}
      BY <1>2, <2>2, FiledLive
    <3> QED
      BY <1>1, <2>0, <2>2, <3>1
  <2>3. CASE Row(i) \notin DOMAIN work[p] /\ i \notin next .. (next + Len(new[p]) - 1)
    <3>1. rows[i] = record[i]
      BY <1>2, <2>3, KeepRows
    <3> QED
      BY <1>1, <2>0, <3>1 DEF Fresh
  <2> QED
    BY <2>1, <2>2, <2>3
<1> QED
  BY <1>2, <1>3 DEF Fresh

\* What a commit leaves of a transfer is whole, or confined.
LEMMA HalvesCommitted ==
  ASSUME RaceInv, NEW p \in Requests, Drawn(p), Halved(p), Fresh, HalvesAreConfined,
         todo[p] # << >>, Head(todo[p]).do = "commit", Keep(p), raced' = raced
  PROVE  HalvesAreConfined'
<1>1. RaceTypes /\ Imaged(p) /\ Traced(p) /\ Ordered(p)
  BY DEF RaceInv, Sound
<1>2. \A s \in Left(p) : s.do # "drop"
  <2>1. Len(todo[p]) \in Nat /\ Head(todo[p]) = todo[p][1] /\ 1 \in 1..Len(todo[p])
    BY <1>1, HeadFacts
  <2>2. 1 = Len(todo[p])
    BY <1>1, <2>1 DEF Ordered
  <2>3. \A k \in 1..Len(todo[p]) : k = 1
    <3>1. PICK n \in Nat : n = Len(todo[p])
      BY <2>1
    <3>2. n = 1
      BY <2>2, <3>1
    <3>3. \A k \in 1..n : k = 1
      BY <3>2
    <3> QED
      BY <3>1, <3>3
  <2>4. \A s \in Left(p) : s = Head(todo[p])
    BY <2>1, <2>3 DEF Left
  <2>5. Head(todo[p]).do # "drop"
    OBVIOUS
  <2> QED
    BY <2>4, <2>5
<1>3. PICK fresh : fresh = next .. (next + Len(new[p]) - 1)
  OBVIOUS
<1>4. PICK rows : rows = record'
  OBVIOUS
<1>5. ASSUME NEW i \in Ids, NEW j \in Ids, rows[i].group # 0, rows[i].group = rows[j].group,
             rows[i].state = "live", rows[j].state # "live"
      PROVE  Ends(rows[i]) \subseteq raced
  <2>1. j \notin fresh
    BY <1>1, <1>3, <1>4, <1>5, FiledLive
  <2>2. \A k \in Ids \ fresh : rows[k].group = record[k].group
    BY <1>1, <1>3, <1>4, KeepRows
  <2>3. rows[j].group < next /\ rows[j].group # next
    <3>1. next \in Nat /\ record[j].group \in Nat
      BY <1>1, RaceTypeParts DEF Draft
    <3> QED
      BY <2>1, <2>2, <3>1 DEF Fresh
  <2>4. i \notin fresh
    BY <1>1, <1>3, <1>4, <1>5, <2>3, FiledLive
  <2>5. record[i].group # 0 /\ record[j].group = record[i].group
    BY <1>5, <2>1, <2>2, <2>4
  <2>6. record[i].state = "live" => Ends(record[i]) \subseteq raced
    <3> SUFFICES ASSUME record[i].state = "live" PROVE Ends(record[i]) \subseteq raced
      OBVIOUS
    <3>1. CASE Row(j) \in DOMAIN work[p]
      <4>1. work[p][Row(j)].state = "deleted"
        BY <1>1, <1>4, <1>5, <3>1, KeepRows
      <4>2. Gone(p, j)
        BY <3>1, <4>1 DEF Gone
      <4>3. ~ Gone(p, i)
        <5>1. Row(i) \in DOMAIN work[p] => work[p][Row(i)].state = "live"
          BY <1>1, <1>4, <1>5, KeepRows
        <5> QED
          BY <1>2, <5>1 DEF Gone
      <4> QED
        BY <2>5, <4>2, <4>3 DEF Halved, Whole
    <3>2. CASE Row(j) \notin DOMAIN work[p]
      <4>1. record[j].state # "live"
        BY <1>1, <1>3, <1>4, <1>5, <2>1, <3>2, KeepRows
      <4> QED
        BY <2>5, <4>1 DEF HalvesAreConfined, Ends
    <3> QED
      BY <3>1, <3>2
  <2>7. CASE Row(i) \in DOMAIN work[p]
    BY <1>1, <1>4, <1>5, <2>6, <2>7, EndsKept
  <2>8. CASE Row(i) \notin DOMAIN work[p]
    <3>1. rows[i] = record[i]
      BY <1>1, <1>3, <1>4, <2>4, <2>8, KeepRows
    <3> QED
      BY <1>5, <2>6, <3>1
  <2> QED
    BY <2>7, <2>8
<1> QED
  BY <1>4, <1>5 DEF HalvesAreConfined, Ends

\* The commit of one request leaves what is said of the halves in the hands of
\* another.
LEMMA HalvedHeld ==
  ASSUME RaceInv, Fresh, HalvesAreConfined, NEW p \in Requests, NEW q \in Requests, p # q,
         Drawn(p), Halved(p), Halved(q), Keep(p),
         todo'[q] = todo[q], work'[q] = work[q], touch'[q] = touch[q], raced' = raced
  PROVE  Halved(q)'
<1>1. /\ RaceTypes /\ Imaged(p) /\ Traced(p) /\ Imaged(q) /\ Ordered(q)
  BY DEF RaceInv, Sound
<1>2. PICK rows : rows = record'
  OBVIOUS
<1>3. Left(q)' = Left(q) /\ \A i : Gone(q, i)' <=> Gone(q, i)
  BY DEF Left, Gone
<1>4. /\ \A s \in Left(q) : s.do \in {"save", "update", "drop"} =>
              s.id \in Ids /\ Row(s.id) \in touch[q].rows
      /\ \A i \in Ids : Row(i) \in DOMAIN work[q] => Row(i) \in touch[q].rows
  <2>1. ASSUME NEW s \in Left(q), s.do \in {"save", "update", "drop"}
        PROVE  s.id \in Ids /\ Row(s.id) \in touch[q].rows
    <3>1. PICK k \in 1..Len(todo[q]) : s = todo[q][k]
      BY DEF Left
    <3>2. Fit(q, s)
      BY <1>1, <3>1 DEF Ordered
    <3>3. s \in Statements /\ Pending(s) \subseteq touch[q].rows
      BY <3>2 DEF Fit
    <3> QED
      BY <2>1, <3>3, StatementParts DEF Pending
  <2>2. ASSUME NEW i \in Ids, Row(i) \in DOMAIN work[q] PROVE Row(i) \in touch[q].rows
    BY <1>1, <2>2, Keys DEF Imaged
  <2> QED
    BY <2>1, <2>2
<1>5. ASSUME NEW i \in Ids, Row(i) \in touch[q].rows
      PROVE  rows[i].group = record[i].group /\ (rows[i] = record[i] \/ Spoilt(q))
  BY <1>2, <1>5, RowHeld DEF Spoilt
<1>6. Spoilt(q)' <=> Spoilt(q)
  BY DEF Spoilt
<1>7. Stale(q)'
  <2>1. \A i \in Ids : Row(i) \in touch[q].rows /\ rows[i].state # "live" => Spoilt(q)
    BY <1>5 DEF Halved, Stale
  <2> QED
    BY <1>2, <1>6, <2>1 DEF Stale
<1>8. KeepsEnds(q)'
  <2>1. CASE Spoilt(q)
    BY <1>6, <2>1 DEF KeepsEnds
  <2>2. CASE ~ Spoilt(q)
    <3>1. /\ \A s \in Left(q) :
               s.do \in {"save", "update"} => SameEnds(s.row, rows[s.id])
          /\ \A i \in Ids : Row(i) \in DOMAIN work[q] /\ work[q][Row(i)].state = "live" =>
               SameEnds(work[q][Row(i)], rows[i])
      BY <1>4, <1>5, <2>2 DEF Halved, KeepsEnds
    <3> QED
      BY <1>2, <1>3, <3>1 DEF KeepsEnds, SameEnds
  <2> QED
    BY <2>1, <2>2
<1>9. PICK fresh : fresh = next .. (next + Len(new[p]) - 1)
  OBVIOUS
<1>10. ASSUME NEW i \in Ids, NEW j \in Ids, rows[i].group # 0, rows[j].group = rows[i].group,
              Gone(q, i), rows[j].state = "live", ~ Gone(q, j)
       PROVE  Ends(rows[j]) \subseteq raced
  <2>1. Row(i) \in touch[q].rows
    BY <1>4, <1>10 DEF Gone
  <2>2. rows[i].group = record[i].group
    BY <1>5, <2>1
  <2>3. record[i].group < next /\ next \in Nat /\ record[i].group \in Nat
    BY <1>1, RaceTypeParts DEF Draft, Fresh
  <2>4. j \notin fresh
    BY <1>1, <1>2, <1>9, <1>10, <2>2, <2>3, FiledLive
  <2>5. rows[j].group = record[j].group
    BY <1>1, <1>2, <1>9, <2>4, KeepRows
  <2>6. record[j].state = "live" => Ends(record[j]) \subseteq raced
    BY <1>10, <2>2, <2>5 DEF Halved, Whole
  <2>7. CASE Row(j) \in DOMAIN work[p]
    BY <1>1, <1>2, <1>10, <2>6, <2>7, EndsKept
  <2>8. CASE Row(j) \notin DOMAIN work[p]
    <3>1. rows[j] = record[j]
      BY <1>1, <1>2, <1>9, <2>4, <2>8, KeepRows
    <3> QED
      BY <1>10, <2>6, <3>1
  <2> QED
    BY <2>7, <2>8
<1>11. Whole(q)'
  <2>1. \A i, j \in Ids :
          /\ rows[i].group # 0 /\ rows[j].group = rows[i].group
          /\ Gone(q, i) /\ rows[j].state = "live"
          => Gone(q, j) \/ Ends(rows[j]) \subseteq raced
    BY <1>10
  <2>2. \A r : Ends(r)' = Ends(r)
    BY DEF Ends
  <2> QED
    BY <1>2, <1>3, <2>1 DEF Whole, Ends
<1> QED
  BY <1>7, <1>8, <1>11 DEF Halved

-----------------------------------------------------------------------------
(* A statement.                                                            *)

\* What is left when a statement is done.
LEMMA LeftDone ==
  ASSUME NEW p \in Requests, RaceTypes, Ordered(p), todo[p] # << >>, todo'[p] = Tail(todo[p])
  PROVE  /\ Left(p)' \subseteq Left(p)
         /\ Left(p) \subseteq {Head(todo[p])} \cup Left(p)'
<1>1. PICK list \in Seq(Statements) : list = todo[p]
  BY DEF RaceTypes
<1>2. PICK rest : rest = Tail(list)
  OBVIOUS
<1>3. /\ rest \in Seq(Statements) /\ Len(rest) = Len(list) - 1 /\ Len(list) \in Nat
      /\ \A k \in 1..Len(rest) : k + 1 \in 1..Len(list) /\ rest[k] = list[k+1]
      /\ Head(list) = list[1]
  BY <1>1, <1>2, HeadFacts
<1>4. \A k \in 1..Len(list) : k = 1 \/ (k - 1 \in 1..Len(rest) /\ rest[k-1] = list[k])
  <2> SUFFICES ASSUME NEW k \in 1..Len(list), k # 1
               PROVE  k - 1 \in 1..Len(rest) /\ rest[k-1] = list[k]
    OBVIOUS
  <2>1. k - 1 \in 1..Len(rest)
    BY <1>3
  <2> QED
    BY <1>3, <2>1
<1>5. Left(p) = {list[k] : k \in 1..Len(list)} /\ Left(p)' = {rest[k] : k \in 1..Len(rest)}
  BY <1>1, <1>2 DEF Left
<1>6. {rest[k] : k \in 1..Len(rest)} \subseteq {list[k] : k \in 1..Len(list)}
  BY <1>3
<1>7. ASSUME NEW k \in 1..Len(list)
      PROVE  list[k] = Head(list) \/ list[k] \in {rest[m] : m \in 1..Len(rest)}
  BY <1>3, <1>4
<1> QED
  BY <1>1, <1>5, <1>6, <1>7

\* What is left when it is replaced.
LEMMA LeftReplaced ==
  ASSUME NEW p \in Requests, RaceTypes, Ordered(p), todo[p] # << >>,
         NEW x \in Statements, todo'[p] = Before(x, Tail(todo[p]))
  PROVE  /\ Left(p)' \subseteq {x} \cup Left(p)
         /\ Left(p) \subseteq {Head(todo[p])} \cup Left(p)'
<1>1. PICK list \in Seq(Statements) : list = todo[p]
  BY DEF RaceTypes
<1>2. PICK rest : rest = Tail(list)
  OBVIOUS
<1>3. /\ rest \in Seq(Statements) /\ Len(rest) = Len(list) - 1 /\ Len(list) \in Nat
      /\ \A k \in 1..Len(rest) : k + 1 \in 1..Len(list) /\ rest[k] = list[k+1]
      /\ Head(list) = list[1] /\ 1 \in 1..Len(list)
  BY <1>1, <1>2, HeadFacts
<1>4. PICK now \in Seq(Statements) : now = <<x>> \o rest
  <2>1. <<x>> \o rest \in Seq(Statements)
    BY <1>3
  <2> QED
    BY <2>1
<1>5. Len(now) = Len(list) /\ now[1] = x /\ \A k \in 2..Len(list) : now[k] = list[k]
  <2>1. Len(now) = Len(list) /\ now[1] = x /\ \A k \in 1..Len(rest) : now[k+1] = rest[k]
    BY <1>3, <1>4
  <2>2. ASSUME NEW k \in 2..Len(list) PROVE now[k] = list[k]
    <3>1. k - 1 \in 1..Len(rest) /\ (k - 1) + 1 = k
      BY <1>3
    <3> QED
      BY <1>3, <2>1, <3>1
  <2> QED
    BY <2>1, <2>2
<1>6. Left(p) = {list[k] : k \in 1..Len(list)} /\ Left(p)' = {now[k] : k \in 1..Len(now)}
  BY <1>1, <1>2, <1>4 DEF Left, Before
<1>7. \A k \in 1..Len(list) : k = 1 \/ k \in 2..Len(list)
  BY <1>3
<1> QED
  BY <1>1, <1>3, <1>5, <1>6, <1>7

\* A statement keeps what is said of the halves in the hands of its request if it saves
\* no other rows, and what it writes of a row has its accounts, or blanks it where
\* it is dropped or was not live.
LEMMA HalvedMoved ==
  ASSUME NEW p, Halved(p), HalvesAreConfined, record' = record, touch'[p] = touch[p], raced' = raced,
         \A s \in Left(p)' : s.do \in {"save", "update"} =>
           \E t \in Left(p) : t.do \in {"save", "update"} /\ t.id = s.id /\ t.row = s.row,
         \A i \in Ids : Row(i) \in DOMAIN work'[p] /\ work'[p][Row(i)].state = "live" =>
           Spoilt(p) \/ SameEnds(work'[p][Row(i)], record[i]),
         \A i \in Ids : Gone(p, i) => Gone(p, i)',
         \A i \in Ids : Gone(p, i)' => Gone(p, i) \/ record[i].state # "live"
  PROVE  Halved(p)'
<1>1. Spoilt(p)' <=> Spoilt(p)
  BY DEF Spoilt
<1>2. Stale(p)'
  BY <1>1 DEF Halved, Stale
<1>3. KeepsEnds(p)'
  <2>1. CASE Spoilt(p)
    BY <1>1, <2>1 DEF KeepsEnds
  <2>2. CASE ~ Spoilt(p)
    <3>1. \A s \in Left(p)' : s.do \in {"save", "update"} => SameEnds(s.row, record[s.id])
      BY <2>2 DEF Halved, KeepsEnds
    <3>2. \A i \in Ids : Row(i) \in DOMAIN work'[p] /\ work'[p][Row(i)].state = "live" =>
            SameEnds(work'[p][Row(i)], record[i])
      BY <2>2
    <3> QED
      BY <3>1, <3>2 DEF KeepsEnds, SameEnds
  <2> QED
    BY <2>1, <2>2
<1>4. Whole(p)'
  <2>1. ASSUME NEW i \in Ids, NEW j \in Ids, record[i].group # 0, record[j].group = record[i].group,
               Gone(p, i)', record[j].state = "live"
        PROVE  Gone(p, j)' \/ Ends(record[j]) \subseteq raced
    <3>1. CASE Gone(p, i)
      BY <2>1, <3>1 DEF Halved, Whole
    <3>2. CASE record[i].state # "live"
      BY <2>1, <3>2 DEF HalvesAreConfined, Ends
    <3> QED
      BY <2>1, <3>1, <3>2
  <2> QED
    BY <2>1 DEF Whole, Ends
<1> QED
  BY <1>2, <1>3, <1>4 DEF Halved

\* A statement changes what its request has in hand, and nothing else.
LEMMA ExecuteMoves ==
  ASSUME RaceInv, NEW p \in Requests, Execute(p)
  PROVE  Executing(p)
<1> DEFINE s == Head(todo[p])
<1>1. /\ todo[p] # << >> /\ UNCHANGED <<vars, asked, touch, raced>>
      /\ \/ Inserts(p, s) \/ Compares(p, s) \/ Updates(p, s) \/ Drops(p, s)
         \/ Reads(p, s) \/ Writes(p, s) \/ Pays(p, s) \/ Unpays(p, s)
  BY DEF Execute, Running
<1>2. DOMAIN todo = Requests /\ DOMAIN work = Requests
      /\ new \in [Requests -> Seq(Draft)] /\ newPay \in [Requests -> Seq(Payment)]
  BY <1>1, Starting
<1>3. s.do # "commit"
  BY <1>1 DEF Inserts, Compares, Updates, Drops, Reads, Writes, Pays, Unpays
<1>4. \A x : Replace(p, x) => \A q \in Requests \ {p} : todo'[q] = todo[q]
  BY <1>2, ReplaceFacts
<1>5. Done(p) => \A q \in Requests \ {p} : todo'[q] = todo[q]
  BY <1>2, DoneFacts
<1>6. \A key, value : Lock(p, key, value) => \A q \in Requests \ {p} : work'[q] = work[q]
  BY <1>2, LockFacts
<1>7. \A q \in Requests \ {p} : todo'[q] = todo[q]
  BY <1>1, <1>4, <1>5 DEF Inserts, Compares, Updates, Drops, Reads, Writes, Pays, Unpays
<1>8. \A q \in Requests \ {p} : work'[q] = work[q]
  BY <1>1, <1>6 DEF Inserts, Compares, Updates, Drops, Reads, Writes, Pays, Unpays
<1>9. \A q \in Requests \ {p} : new'[q] = new[q] /\ newPay'[q] = newPay[q]
  BY <1>1, <1>2 DEF Inserts, Compares, Updates, Drops, Reads, Writes, Pays, Unpays
<1> QED
  BY <1>1, <1>3, <1>7, <1>8, <1>9 DEF Executing

\* A statement that writes no row and is no deletion.
LEMMA HalvedAside ==
  ASSUME RaceInv, NEW p \in Requests, Executing(p), Halved(p), HalvesAreConfined,
         Head(todo[p]).do # "drop",
         \/ todo'[p] = Tail(todo[p])
         \/ \E x \in Statements : /\ todo'[p] = Before(x, Tail(todo[p]))
                                  /\ x.do # "drop"
                                  /\ x.do \in {"save", "update"} =>
                                       /\ Head(todo[p]).do = "save"
                                       /\ x.id = Head(todo[p]).id /\ x.row = Head(todo[p]).row,
         \A i \in Ids : /\ Row(i) \in DOMAIN work'[p] <=> Row(i) \in DOMAIN work[p]
                        /\ Row(i) \in DOMAIN work[p] => work'[p][Row(i)] = work[p][Row(i)]
  PROVE  Halved(p)'
<1>1. /\ RaceTypes /\ Ordered(p) /\ todo[p] # << >>
      /\ record' = record /\ touch'[p] = touch[p] /\ raced' = raced
  BY Starting, Unmoved DEF Executing
<1>2. PICK s : s = Head(todo[p])
  OBVIOUS
<1>3. s \in Left(p)
  <2>1. s = todo[p][1] /\ 1 \in 1..Len(todo[p])
    BY <1>1, <1>2, HeadFacts
  <2> QED
    BY <2>1 DEF Left
<1>4. /\ Left(p) \subseteq {s} \cup Left(p)'
      /\ \A t \in Left(p)' : t \in Left(p) \/ (/\ t.do # "drop"
                                               /\ t.do \in {"save", "update"} =>
                                                    s.do = "save" /\ t.id = s.id /\ t.row = s.row)
  <2>1. CASE todo'[p] = Tail(todo[p])
    BY <1>1, <1>2, <2>1, LeftDone
  <2>2. CASE todo'[p] # Tail(todo[p])
    <3>1. PICK x \in Statements :
              /\ todo'[p] = Before(x, Tail(todo[p]))
              /\ x.do # "drop"
              /\ x.do \in {"save", "update"} => s.do = "save" /\ x.id = s.id /\ x.row = s.row
      BY <1>2, <2>2
    <3>2. Left(p)' \subseteq {x} \cup Left(p) /\ Left(p) \subseteq {s} \cup Left(p)'
      BY <1>1, <1>2, <3>1, LeftReplaced
    <3> QED
      BY <3>1, <3>2
  <2> QED
    BY <2>1, <2>2
<1>5. \A t \in Left(p)' : t.do \in {"save", "update"} =>
        \E u \in Left(p) : u.do \in {"save", "update"} /\ u.id = t.id /\ u.row = t.row
  BY <1>3, <1>4
<1>6. \A i \in Ids : Row(i) \in DOMAIN work'[p] /\ work'[p][Row(i)].state = "live" =>
        Spoilt(p) \/ SameEnds(work'[p][Row(i)], record[i])
  BY DEF Halved, KeepsEnds
<1>7. \A i \in Ids : Gone(p, i)' <=> Gone(p, i)
  <2>1. \A t \in Left(p) : t.do = "drop" => t \in Left(p)'
    BY <1>2, <1>4
  <2>2. \A t \in Left(p)' : t.do = "drop" => t \in Left(p)
    BY <1>4
  <2> QED
    BY <2>1, <2>2 DEF Gone
<1> QED
  BY <1>1, <1>5, <1>6, <1>7, HalvedMoved

\* A statement that writes one row: what it writes of a live row has its accounts, and
\* it blanks the row only where it drops it or where it is not live.
LEMMA HalvedWritten ==
  ASSUME RaceInv, NEW p \in Requests, Executing(p), Halved(p), HalvesAreConfined,
         NEW i \in Ids, NEW image,
         Row(i) \notin DOMAIN work[p], Lock(p, Row(i), image), todo'[p] = Tail(todo[p]),
         image.state = "live" => Spoilt(p) \/ SameEnds(image, record[i]),
         Head(todo[p]).do = "drop" => Head(todo[p]).id = i /\ image.state = "deleted",
         image.state = "deleted" => Head(todo[p]).do = "drop" \/ record[i].state # "live"
  PROVE  Halved(p)'
<1>1. /\ RaceTypes /\ Ordered(p) /\ todo[p] # << >> /\ DOMAIN work = Requests
      /\ record' = record /\ touch'[p] = touch[p] /\ raced' = raced
  BY Starting, Unmoved DEF Executing
<1>2. PICK s : s = Head(todo[p])
  OBVIOUS
<1>3. s \in Left(p)
  <2>1. s = todo[p][1] /\ 1 \in 1..Len(todo[p])
    BY <1>1, <1>2, HeadFacts
  <2> QED
    BY <2>1 DEF Left
<1>4. Left(p) \subseteq {s} \cup Left(p)' /\ Left(p)' \subseteq Left(p)
  BY <1>1, <1>2, LeftDone
<1>5. PICK now : now = work'[p]
  OBVIOUS
<1>6. /\ DOMAIN now = DOMAIN work[p] \cup {Row(i)}
      /\ now[Row(i)] = image
      /\ \A k \in DOMAIN work[p] : now[k] = work[p][k]
  BY <1>1, <1>5, LockFacts
<1>7. ASSUME NEW j \in Ids, Row(j) \in DOMAIN now, now[Row(j)].state = "live"
      PROVE  Spoilt(p) \/ SameEnds(now[Row(j)], record[j])
  <2>1. CASE j = i
    BY <1>6, <1>7, <2>1
  <2>2. CASE j # i
    BY <1>6, <1>7, <2>2, Keys DEF Halved, KeepsEnds
  <2> QED
    BY <2>1, <2>2
<1>8. ASSUME NEW j \in Ids, Gone(p, j) PROVE Gone(p, j)'
  <2>1. CASE Row(j) \in DOMAIN work[p] /\ work[p][Row(j)].state = "deleted"
    BY <1>5, <1>6, <2>1 DEF Gone
  <2>2. CASE \E t \in Left(p) : t.do = "drop" /\ t.id = j
    <3>1. PICK t \in Left(p) : t.do = "drop" /\ t.id = j
      BY <2>2
    <3>2. CASE t \in Left(p)'
      BY <3>1, <3>2 DEF Gone
    <3>3. CASE t = s
      <4>1. j = i /\ image.state = "deleted"
        BY <1>2, <3>1, <3>3
      <4> QED
        BY <1>5, <1>6, <4>1 DEF Gone
    <3> QED
      BY <1>4, <3>2, <3>3
  <2> QED
    BY <1>8, <2>1, <2>2 DEF Gone
<1>9. ASSUME NEW j \in Ids, Gone(p, j)' PROVE Gone(p, j) \/ record[j].state # "live"
  <2>1. CASE \E t \in Left(p)' : t.do = "drop" /\ t.id = j
    BY <1>4, <2>1 DEF Gone
  <2>2. CASE Row(j) \in DOMAIN now /\ now[Row(j)].state = "deleted"
    <3>1. CASE j # i
      BY <1>6, <2>2, <3>1, Keys DEF Gone
    <3>2. CASE j = i /\ s.do = "drop"
      BY <1>2, <1>3, <3>2 DEF Gone
    <3>3. CASE j = i /\ record[i].state # "live"
      BY <3>3
    <3> QED
      BY <1>2, <1>6, <2>2, <3>1, <3>2, <3>3
  <2> QED
    BY <1>5, <1>9, <2>1, <2>2 DEF Gone
<1> QED
  BY <1>1, <1>4, <1>5, <1>7, <1>8, <1>9, HalvedMoved

\* A saved row has the accounts it had.
LEMMA HalvedUpdated ==
  ASSUME RaceInv, NEW p \in Requests, Executing(p), Halved(p), HalvesAreConfined,
         Updates(p, Head(todo[p]))
  PROVE  Halved(p)'
<1>1. /\ RaceTypes /\ Ordered(p) /\ Once(p) /\ todo[p] # << >> /\ DOMAIN todo = Requests
  BY Starting DEF Executing
<1>2. PICK s \in Statements : s = Head(todo[p]) /\ Fit(p, s)
  BY <1>1, Starting
<1>3. s.do = "update" /\ s \in Left(p)
  <2>1. s = todo[p][1] /\ 1 \in 1..Len(todo[p])
    BY <1>1, <1>2, HeadFacts
  <2> QED
    BY <1>2, <2>1 DEF Left, Updates
<1>4. PICK i \in Ids, r \in Record : i = s.id /\ r = s.row
  BY <1>2, <1>3, StatementParts
<1>5. PICK old \in Record : old = record[i]
  BY <1>1, RaceTypeParts
<1>6. Row(i) \notin DOMAIN work[p] /\ OwnRecord(p, i) = old
  <2>1. Row(i) \in Pending(Head(todo[p]))
    BY <1>2, <1>3, <1>4 DEF Pending
  <2>2. Row(i) \notin DOMAIN work[p]
    BY <1>1, <2>1, HeadPending
  <2> QED
    BY <1>5, <2>2 DEF OwnRecord
<1>7. PICK row : row = [c \in DOMAIN old |-> IF c \in s.columns THEN r[c] ELSE old[c]]
  OBVIOUS
<1>8. PICK image : image = IF row.state = "live" THEN row ELSE Unread("deleted", row.group)
  OBVIOUS
<1>9. Lock(p, Row(i), image) /\ todo'[p] = Tail(todo[p])
  <2>1. Lock(p, Row(i), image) /\ Done(p)
    BY <1>2, <1>4, <1>6, <1>7, <1>8 DEF Updates
  <2> QED
    BY <1>1, <2>1, DoneFacts
<1>10. /\ row.state = IF "state" \in s.columns THEN r.state ELSE old.state
       /\ row.origin = IF "origin" \in s.columns THEN r.origin ELSE old.origin
       /\ row.destination = IF "destination" \in s.columns THEN r.destination ELSE old.destination
  <2>1. "state" \in DOMAIN r /\ "origin" \in DOMAIN r /\ "destination" \in DOMAIN r
    BY DEF Record
  <2>2. \A c \in DOMAIN r : row[c] = IF c \in s.columns THEN r[c] ELSE old[c]
    BY <1>7, MixedRow
  <2> QED
    BY <2>1, <2>2
<1>11. r.state = "live"
  BY <1>2, <1>3, <1>4 DEF Fit
<1>12. image.state = "live" => Spoilt(p) \/ SameEnds(image, record[i])
  <2>1. Spoilt(p) \/ SameEnds(r, old)
    BY <1>3, <1>4, <1>5 DEF Halved, KeepsEnds
  <2>2. Unread("deleted", row.group).state # "live"
    BY DEF Unread
  <2>3. SameEnds(r, old) => SameEnds(row, old)
    BY <1>10 DEF SameEnds
  <2> QED
    BY <1>5, <1>8, <2>1, <2>2, <2>3
<1>13. image.state = "deleted" => record[i].state # "live"
  BY <1>5, <1>8, <1>10, <1>11
<1>14. Head(todo[p]).do # "drop"
  BY <1>2, <1>3
<1> QED
  BY <1>6, <1>9, <1>12, <1>13, <1>14, HalvedWritten

\* A deleted row.
LEMMA HalvedDropped ==
  ASSUME RaceInv, NEW p \in Requests, Executing(p), Halved(p), HalvesAreConfined,
         Drops(p, Head(todo[p]))
  PROVE  Halved(p)'
<1>1. /\ RaceTypes /\ Ordered(p) /\ Once(p) /\ todo[p] # << >> /\ DOMAIN todo = Requests
  BY Starting DEF Executing
<1>2. PICK s \in Statements : s = Head(todo[p])
  BY <1>1, Starting
<1>3. s.do = "drop"
  BY <1>2 DEF Drops
<1>4. PICK i \in Ids : i = s.id
  BY <1>2, <1>3, StatementParts
<1>5. Row(i) \notin DOMAIN work[p]
  <2>1. Row(i) \in Pending(Head(todo[p]))
    BY <1>2, <1>3, <1>4 DEF Pending
  <2> QED
    BY <1>1, <2>1, HeadPending
<1>6. PICK image : image = Unread("deleted", OwnRecord(p, i).group)
  OBVIOUS
<1>7. Lock(p, Row(i), image) /\ todo'[p] = Tail(todo[p])
  <2>1. Lock(p, Row(i), image) /\ Done(p)
    BY <1>2, <1>4, <1>6 DEF Drops
  <2> QED
    BY <1>1, <2>1, DoneFacts
<1>8. image.state = "deleted"
  BY <1>6 DEF Unread
<1> QED
  BY <1>2, <1>3, <1>4, <1>5, <1>7, <1>8, HalvedWritten

\* A lock of something else leaves the rows as they are.
LEMMA RowsAside ==
  ASSUME NEW p \in Requests, DOMAIN work = Requests, NEW key, NEW value, Lock(p, key, value),
         \A i \in Ids : key # Row(i)
  PROVE  \A i \in Ids : /\ Row(i) \in DOMAIN work'[p] <=> Row(i) \in DOMAIN work[p]
                        /\ Row(i) \in DOMAIN work[p] => work'[p][Row(i)] = work[p][Row(i)]
<1>1. PICK now : now = work'[p]
  OBVIOUS
<1>2. /\ DOMAIN now = DOMAIN work[p] \cup {key}
      /\ \A k \in DOMAIN work[p] : k # key => now[k] = work[p][k]
  BY <1>1, LockFacts
<1> QED
  BY <1>1, <1>2

\* Any statement.
LEMMA HalvedExecuting ==
  ASSUME RaceInv, NEW p \in Requests, Execute(p), Halved(p), HalvesAreConfined
  PROVE  Halved(p)'
<1>1. /\ todo[p] # << >> /\ UNCHANGED <<vars, asked, touch, raced>>
      /\ DOMAIN todo = Requests /\ DOMAIN work = Requests
      /\ new \in [Requests -> Seq(Draft)] /\ newPay \in [Requests -> Seq(Payment)]
  BY Starting DEF Execute, Running
<1>2. PICK s : s = Head(todo[p])
  OBVIOUS
<1>3. \/ Inserts(p, s) \/ Compares(p, s) \/ Updates(p, s) \/ Drops(p, s)
      \/ Reads(p, s) \/ Writes(p, s) \/ Pays(p, s) \/ Unpays(p, s)
  BY <1>2 DEF Execute
<1>4. Executing(p)
  BY ExecuteMoves
<1>5. CASE Updates(p, s)
  BY <1>2, <1>4, <1>5, HalvedUpdated
<1>6. CASE Drops(p, s)
  BY <1>2, <1>4, <1>6, HalvedDropped
<1>7. CASE Inserts(p, s) \/ Pays(p, s)
  <2>1. todo'[p] = Tail(todo[p]) /\ work' = work /\ s.do # "drop"
    BY <1>1, <1>7, DoneFacts DEF Inserts, Pays
  <2> QED
    BY <1>2, <1>4, <2>1, HalvedAside
<1>8. CASE Unpays(p, s)
  <2>1. todo'[p] = Tail(todo[p]) /\ s.do = "unpay" /\ Lock(p, Abono(s.id), NoPayment("deleted"))
    BY <1>1, <1>8, DoneFacts DEF Unpays
  <2>2. \A i \in Ids : /\ Row(i) \in DOMAIN work'[p] <=> Row(i) \in DOMAIN work[p]
                       /\ Row(i) \in DOMAIN work[p] => work'[p][Row(i)] = work[p][Row(i)]
    <3>1. \A i \in Ids : Abono(s.id) # Row(i)
      BY Keys
    <3> QED
      BY <1>1, <2>1, <3>1, RowsAside
  <2> QED
    BY <1>2, <1>4, <2>1, <2>2, HalvedAside
<1>9. CASE Writes(p, s)
  <2>1. todo'[p] = Tail(todo[p]) /\ s.do = "write"
    BY <1>1, <1>9, DoneFacts DEF Writes
  <2>2. work' = work \/ Lock(p, Entity(s.on), s.figure)
    BY <1>9 DEF Writes
  <2>3. \A i \in Ids : /\ Row(i) \in DOMAIN work'[p] <=> Row(i) \in DOMAIN work[p]
                       /\ Row(i) \in DOMAIN work[p] => work'[p][Row(i)] = work[p][Row(i)]
    <3>1. \A i \in Ids : Entity(s.on) # Row(i)
      BY Keys
    <3> QED
      BY <1>1, <2>2, <3>1, RowsAside
  <2> QED
    BY <1>2, <1>4, <2>1, <2>3, HalvedAside
<1>10. CASE Reads(p, s)
  <2>0. s \in Statements /\ s.do = "adjust" /\ work' = work
    BY <1>1, <1>2, <1>10, Starting DEF Reads
  <2>1. PICK x : x = Write(s.on, Figure(OwnFigure(p, s.on).balance + s.by,
                       Reached(s.on, OwnFigure(p, s.on).balance + s.by), FALSE), TRUE)
    OBVIOUS
  <2>2. todo'[p] = Tail(todo[p]) \/ todo'[p] = Before(x, Tail(todo[p]))
    <3>1. Done(p) \/ Replace(p, x)
      BY <1>10, <2>1 DEF Reads
    <3> QED
      BY <1>1, <3>1, DoneFacts, ReplaceFacts
  <2>3. x \in Statements /\ x.do = "write"
    <3>1. s.on \in Entities /\ s.by \in Int
      BY <2>0, StatementParts
    <3>2. OwnFigure(p, s.on) \in Figures
      BY <1>1, <3>1, Starting, FigureType
    <3>3. PICK total \in Int : total = OwnFigure(p, s.on).balance + s.by
      BY <3>1, <3>2 DEF Figures
    <3>4. Figure(total, Reached(s.on, total), FALSE) \in Figures
      <4>1. Reached(s.on, total) \in BOOLEAN
        BY DEF Reached
      <4> QED
        BY <3>3, <4>1 DEF Figure, Figures
    <3>5. PICK f \in Figures : f = Figure(total, Reached(s.on, total), FALSE)
      BY <3>4
    <3>6. x = [do |-> "write", on |-> s.on, figure |-> f, counted |-> TRUE]
      BY <2>1, <3>3, <3>5 DEF Write
    <3> QED
      BY <3>1, <3>6 DEF Statements
  <2> QED
    BY <1>2, <1>4, <2>0, <2>2, <2>3, HalvedAside
<1>11. CASE Compares(p, s)
  <2>1. s.do = "save" /\ work' = work
    BY <1>11 DEF Compares
  <2>2. PICK C : C = s.stated \cup {c \in DOMAIN s.row : s.row[c] # OwnRecord(p, s.id)[c]}
    OBVIOUS
  <2>3. PICK x : x = [do |-> "update", id |-> s.id, row |-> s.row, columns |-> C]
    OBVIOUS
  <2>4. todo'[p] = Tail(todo[p]) \/ todo'[p] = Before(x, Tail(todo[p]))
    <3>1. Done(p) \/ Replace(p, x)
      BY <1>11, <2>2, <2>3 DEF Compares
    <3> QED
      BY <1>1, <3>1, DoneFacts, ReplaceFacts
  <2>5. x \in Statements
    <3>1. RaceTypes /\ Files /\ Ordered(p) /\ Once(p) /\ s \in Statements /\ Fit(p, s)
      BY <1>1, <1>2, Starting DEF RaceInv
    <3>2. Row(s.id) \in Pending(Head(todo[p]))
      BY <1>2, <2>1 DEF Pending
    <3>3. OwnRecord(p, s.id) = record[s.id]
      BY <1>1, <3>1, <3>2, HeadPending DEF OwnRecord
    <3>4. C = s.stated \cup {c \in DOMAIN s.row : s.row[c] # record[s.id][c]}
      BY <2>2, <3>3
    <3> QED
      BY <2>1, <2>3, <3>1, <3>4, CompareFit
  <2> QED
    BY <1>2, <1>4, <2>1, <2>3, <2>4, <2>5, HalvedAside
<1> QED
  BY <1>3, <1>5, <1>6, <1>7, <1>8, <1>9, <1>10, <1>11

-----------------------------------------------------------------------------
(* A request that begins.                                                  *)

\* Rows are saved and dropped where they were found live, and saved with the accounts
\* they have.
Careful(s) ==
  /\ s.do # "update"
  /\ s.do \in {"save", "drop"} => s.id \in Ids /\ record[s.id].state = "live"
  /\ s.do = "save" => SameEnds(s.row, record[s.id])

\* A statement that keeps accounts and drops nothing.
Plainly(s) == Careful(s) /\ s.do # "drop"

\* A list of statements deletes record i.
Dropped(list, i) == \E k \in 1..Len(list) : list[k].do = "drop" /\ list[k].id = i

\* Who drops a leg drops the other.
Pairwise(list) ==
  \A i, j \in Ids :
    /\ record[i].group # 0 /\ record[j].group = record[i].group
    /\ Dropped(list, i) /\ record[j].state = "live"
    => Dropped(list, j)

\* What a careful request leaves in its hands.
LEMMA AskCareful ==
  ASSUME RaceInv, NEW p \in Requests, NEW op, NEW S, NEW list \in Seq(S),
         \A s \in S : Careful(s), Pairwise(list), Ask(p, op, list)
  PROVE  Halved(p)'
<1>1. /\ record' = record /\ work' = work /\ work[p] = NoWork
      /\ todo'[p] = list \o <<Commit>> /\ touch'[p] = Touched(list)
  BY AskFacts DEF Idle
<1>2. PICK done : done = list \o <<Commit>>
  OBVIOUS
<1>3. PICK n \in Nat : n = Len(list)
  OBVIOUS
<1>4. /\ Len(done) = n + 1 /\ done[n+1] = Commit /\ \A k \in 1..n : done[k] = list[k]
  BY <1>2, <1>3
<1>5. Commit.do = "commit"
  BY DEF Commit
<1>6. Left(p)' = {done[k] : k \in 1..Len(done)}
  BY <1>1, <1>2 DEF Left
<1>7. \A k \in 1..n : list[k] \in S /\ Careful(list[k])
  BY <1>3
<1>8. \A s \in Left(p)' : s = Commit \/ \E k \in 1..n : s = list[k]
  <2> SUFFICES ASSUME NEW k \in 1..n+1 PROVE done[k] = Commit \/ \E m \in 1..n : done[k] = list[m]
    BY <1>4, <1>6
  <2>1. CASE k = n + 1
    BY <1>4, <2>1
  <2>2. CASE k # n + 1
    <3>1. k \in 1..n
      BY <2>2
    <3> QED
      BY <1>4, <3>1
  <2> QED
    BY <2>1, <2>2
<1>9. DOMAIN work'[p] = {}
  BY <1>1 DEF NoWork
<1>10. Stale(p)'
  <2> SUFFICES ASSUME NEW i \in Ids, Row(i) \in touch'[p].rows PROVE record[i].state = "live"
    BY <1>1 DEF Stale
  <2>1. touch'[p].rows = UNION {RowsOf(list[k]) : k \in DOMAIN list}
    BY <1>1 DEF Touched
  <2>2. PICK k \in 1..n : Row(i) \in RowsOf(list[k])
    BY <1>3, <2>1
  <2>3. list[k].do \in {"save", "drop"} /\ list[k].id = i
    BY <2>2, Keys DEF RowsOf
  <2> QED
    BY <1>7, <2>3 DEF Careful
<1>11. KeepsEnds(p)'
  <2>1. \A s \in Left(p)' : s.do \in {"save", "update"} => SameEnds(s.row, record[s.id])
    <3> SUFFICES ASSUME NEW s \in Left(p)', s.do \in {"save", "update"}
                 PROVE  SameEnds(s.row, record[s.id])
      OBVIOUS
    <3>1. PICK k \in 1..n : s = list[k]
      BY <1>5, <1>8
    <3> QED
      BY <1>7, <3>1 DEF Careful
  <2> QED
    BY <1>1, <1>9, <2>1 DEF KeepsEnds, SameEnds
<1>12. \A i : Gone(p, i)' <=> Dropped(list, i)
  <2> SUFFICES ASSUME NEW i PROVE Gone(p, i)' <=> Dropped(list, i)
    OBVIOUS
  <2>1. ASSUME Gone(p, i)' PROVE Dropped(list, i)
    <3>1. PICK s \in Left(p)' : s.do = "drop" /\ s.id = i
      BY <1>9, <2>1 DEF Gone
    <3>2. PICK k \in 1..n : s = list[k]
      BY <1>5, <1>8, <3>1
    <3> QED
      BY <1>3, <3>1, <3>2 DEF Dropped
  <2>2. ASSUME Dropped(list, i) PROVE Gone(p, i)'
    <3>1. PICK k \in 1..n : list[k].do = "drop" /\ list[k].id = i
      BY <1>3, <2>2 DEF Dropped
    <3>2. done[k] \in Left(p)'
      BY <1>4, <1>6
    <3>3. done[k].do = "drop" /\ done[k].id = i
      BY <1>4, <3>1
    <3> QED
      BY <3>2, <3>3 DEF Gone
  <2> QED
    BY <2>1, <2>2
<1>13. Whole(p)'
  BY <1>1, <1>12 DEF Whole, Pairwise
<1> QED
  BY <1>10, <1>11, <1>13 DEF Halved

\* A request that drops nothing.
LEMMA AskPlainly ==
  ASSUME RaceInv, NEW p \in Requests, NEW op, NEW S, NEW list \in Seq(S),
         \A s \in S : Plainly(s), Ask(p, op, list)
  PROVE  Halved(p)'
<1>1. \A i : ~ Dropped(list, i)
  <2>1. \A k \in 1..Len(list) : list[k] \in S
    OBVIOUS
  <2> QED
    BY <2>1 DEF Dropped, Plainly
<1>2. Pairwise(list)
  BY <1>1 DEF Pairwise
<1> QED
  BY <1>2, AskCareful DEF Plainly

\* One list after another.
LEMMA Followed ==
  ASSUME NEW A, NEW B, NEW a \in Seq(A), NEW b \in Seq(B)
  PROVE  a \o b \in Seq(A \cup B)
<1>1. a \in Seq(A \cup B) /\ b \in Seq(A \cup B)
  OBVIOUS
<1> QED
  BY <1>1

\* The balances are adjusted.
Posts(delta) == {Adjust(e, delta[e]) : e \in Entities \cup {None}}

\* Net adjustments only post to balances.
LEMMA NetPosts ==
  ASSUME NEW links \in Seq(Entities \cup {None}), NEW delta
  PROVE  NetAdjustments(links, delta) \in Seq(Posts(delta)) /\ \A s \in Posts(delta) : Plainly(s)
<1>1. PICK n \in Nat : n = Len(links)
  OBVIOUS
<1>2. PICK S : S = Posts(delta)
  OBVIOUS
<1>3. PICK part : part = [k \in 1..n |->
            IF /\ links[k] # None /\ delta[links[k]] # 0
               /\ \A j \in 1..(k-1) : links[j] # links[k]
            THEN <<Adjust(links[k], delta[links[k]])>>
            ELSE << >>]
  OBVIOUS
<1>4. NetAdjustments(links, delta) = Joined(n, part)
  BY <1>1, <1>3 DEF NetAdjustments
<1>5. ASSUME NEW k \in 1..n PROVE part[k] \in Seq(S)
  <2>1. PICK e \in Entities \cup {None} : e = links[k]
    BY <1>1
  <2>2. PICK x \in S : x = Adjust(e, delta[e])
    <3>1. Adjust(e, delta[e]) \in S
      BY <1>2 DEF Posts
    <3> QED
      BY <3>1
  <2>3. part[k] = <<x>> \/ part[k] = << >>
    BY <1>3, <2>1, <2>2
  <2>4. <<x>> \in Seq(S) /\ << >> \in Seq(S)
    BY <2>2
  <2> QED
    BY <2>3, <2>4
<1>6. part \in [1..n -> Seq(S)]
  BY <1>3, <1>5
<1>7. Joined(n, part) \in Seq(S)
  BY <1>6, JoinedType
<1>8. \A s \in Posts(delta) : Plainly(s)
  BY DEF Posts, Adjust, Plainly, Careful
<1> QED
  BY <1>2, <1>4, <1>7, <1>8

\* One statement and the net changes it brings.
LEMMA AskOneThen ==
  ASSUME RaceInv, NEW p \in Requests, NEW op, NEW x, Careful(x),
         x.do = "drop" => record[x.id].group = 0,
         NEW links \in Seq(Entities \cup {None}), NEW delta,
         Ask(p, op, <<x>> \o NetAdjustments(links, delta))
  PROVE  Halved(p)'
<1>1. PICK net \in Seq(Posts(delta)) : net = NetAdjustments(links, delta)
  BY NetPosts
<1>2. PICK S : S = {x} \cup Posts(delta)
  OBVIOUS
<1>3. PICK list \in Seq(S) : list = <<x>> \o net
  <2>1. <<x>> \in Seq({x})
    OBVIOUS
  <2>2. <<x>> \o net \in Seq(S)
    BY <1>2, <2>1, Followed
  <2> QED
    BY <2>2
<1>4. \A s \in S : Careful(s) /\ (s.do = "drop" => s = x)
  BY <1>2, NetPosts DEF Plainly
<1>5. Pairwise(list)
  <2> SUFFICES ASSUME NEW i \in Ids, Dropped(list, i) PROVE record[i].group = 0
    BY DEF Pairwise
  <2>1. PICK k \in 1..Len(list) : list[k].do = "drop" /\ list[k].id = i
    BY DEF Dropped
  <2>2. list[k] = x
    BY <1>4, <2>1
  <2> QED
    BY <2>1, <2>2
<1> QED
  BY <1>1, <1>3, <1>4, <1>5, AskCareful

\* Create and clone.
LEMMA HalvedInserted ==
  ASSUME RaceInv, NEW p \in Requests, NEW op, NEW row \in Draft, NEW delta,
         Ask(p, op, <<Insert(row)>> \o NetAdjustments(LinksOf(row), delta))
  PROVE  Halved(p)'
<1>1. PICK x : x = Insert(row)
  OBVIOUS
<1>2. Careful(x) /\ x.do # "drop"
  BY <1>1 DEF Careful, Insert
<1>3. PICK links \in Seq(Entities \cup {None}) : links = LinksOf(row)
  BY LinksHave
<1>4. Ask(p, op, <<x>> \o NetAdjustments(links, delta))
  BY <1>1, <1>3
<1> QED
  BY <1>2, <1>4, AskOneThen

\* A request that creates a record.
LEMMA HalvedCreate ==
  ASSUME RaceInv, NEW p \in Requests, NEW f \in Fields, AskCreate(p, f)
  PROVE  Halved(p)'
<1>1. PICK row \in Draft : row = Plain(f, None)
  BY PlainType, RecordDraft DEF CategoryOrNone
<1>2. PICK delta : delta = [e \in Entities |-> Collected(row, e)]
  OBVIOUS
<1>3. Ask(p, "create", <<Insert(row)>> \o NetAdjustments(LinksOf(row), delta))
  BY <1>1, <1>2 DEF AskCreate
<1> QED
  BY <1>3, HalvedInserted

\* A request that clones a record.
LEMMA HalvedClone ==
  ASSUME RaceInv, NEW p \in Requests, NEW i \in Ids, NEW amount \in AmountOrNone,
         AskClone(p, i, amount)
  PROVE  Halved(p)'
<1>0. TypeOK /\ Live(i)
  BY DEF RaceInv, RaceTypes, AskClone
<1>1. PICK row \in Draft : row = Cloned(i, amount, None, None, None)
  BY <1>0, ClonedType, RecordDraft DEF DescriptionOrNone, CategoryOrNone, CompanyOrNone
<1>2. PICK delta : delta = [e \in Entities |-> Collected(row, e)]
  OBVIOUS
<1>3. Ask(p, "clone", <<Insert(row)>> \o NetAdjustments(LinksOf(row), delta))
  BY <1>1, <1>2 DEF AskClone
<1> QED
  BY <1>3, HalvedInserted

\* An edited record keeps its accounts.
LEMMA HalvedUpdate ==
  ASSUME RaceInv, NEW p \in Requests, NEW i \in Ids, NEW f \in Fields, AskUpdate(p, i, f)
  PROVE  Halved(p)'
<1>0. TypeOK /\ Live(i) /\ record[i] \in Record
  BY LiveRow DEF RaceInv, RaceTypes, AskUpdate
<1>1. PICK old \in Record : old = record[i]
  BY <1>0
<1>2. PICK row : row = Merged(i, f)
  OBVIOUS
<1>3. row \in Record /\ SameEnds(row, old)
  <2>1. row \in Record
    BY <1>0, <1>2, MergedType
  <2>2. row.origin = old.origin /\ row.destination = old.destination
    BY <1>1, <1>2 DEF Merged, Record
  <2> QED
    BY <2>1, <2>2 DEF SameEnds
<1>4. PICK delta : delta = [e \in Entities |-> Collected(row, e) - Collected(record[i], e)]
  OBVIOUS
<1>5. PICK links \in Seq(Entities \cup {None}) : links = LinksOf(old) \o LinksOf(row)
  <2>1. LinksOf(old) \in Seq(Entities \cup {None}) /\ LinksOf(row) \in Seq(Entities \cup {None})
    BY <1>3, RecordDraft, LinksHave
  <2>2. LinksOf(old) \o LinksOf(row) \in Seq(Entities \cup {None})
    BY <2>1
  <2> QED
    BY <2>2
<1>6. PICK stated : Ask(p, "update", <<Save(i, row, stated)>> \o NetAdjustments(links, delta))
  BY <1>1, <1>2, <1>4, <1>5 DEF AskUpdate
<1>7. PICK x : x = Save(i, row, stated)
  OBVIOUS
<1>8. Careful(x) /\ x.do # "drop"
  <2>1. x.do = "save" /\ x.id = i /\ x.row = row
    BY <1>7 DEF Save
  <2> QED
    BY <1>0, <1>1, <1>3, <2>1 DEF Careful, Live
<1>9. Ask(p, "update", <<x>> \o NetAdjustments(links, delta))
  BY <1>6, <1>7
<1> QED
  BY <1>8, <1>9, AskOneThen

\* An import.
LEMMA HalvedImport ==
  ASSUME RaceInv, NEW p \in Requests, NEW batch \in Batches, AskImport(p, batch)
  PROVE  Halved(p)'
<1>1. PICK n \in Nat : n = Len(batch)
  BY BatchType
<1>2. PICK rows : rows = [k \in 1..n |-> Plain(batch[k], None)]
  OBVIOUS
<1>3. ASSUME NEW k \in 1..n PROVE rows[k] \in Draft
  <2>1. batch[k] \in Fields
    BY <1>1, BatchType
  <2> QED
    BY <1>2, <2>1, PlainType, RecordDraft DEF CategoryOrNone
<1>4. PICK part : part = [k \in 1..n |-> LinksOf(rows[k])]
  OBVIOUS
<1>5. part \in [1..n -> Seq(Entities \cup {None})]
  BY <1>3, <1>4, LinksHave
<1>6. PICK links \in Seq(Entities \cup {None}) : links = Joined(n, part)
  BY <1>5, JoinedType
<1>7. PICK gain : gain = [e \in Entities |->
        Total(Len(batch), [k \in 1..Len(batch) |-> Collected(rows[k], e)])]
  OBVIOUS
<1>8. PICK inserts : inserts = [k \in 1..n |-> Insert(rows[k])]
  OBVIOUS
<1>9. PICK I : I = {Insert(rows[k]) : k \in 1..n}
  OBVIOUS
<1>10. inserts \in Seq(I)
  <2>1. \A k \in 1..n : inserts[k] \in I
    BY <1>8, <1>9
  <2>2. inserts \in [1..n -> I]
    BY <1>8, <2>1
  <2> QED
    BY <2>2, SeqDef
<1>11. PICK net \in Seq(Posts(gain)) : net = NetAdjustments(links, gain)
  BY NetPosts
<1>12. PICK list \in Seq(I \cup Posts(gain)) : list = inserts \o net
  BY <1>10, Followed
<1>13. Ask(p, "import", list)
  BY <1>1, <1>2, <1>4, <1>6, <1>7, <1>8, <1>11, <1>12 DEF AskImport
<1>14. \A s \in I \cup Posts(gain) : Plainly(s)
  <2>1. \A row : Insert(row).do = "insert"
    BY DEF Insert
  <2>2. \A s \in I : s.do = "insert"
    BY <1>9, <2>1
  <2>3. \A s \in I : Plainly(s)
    BY <2>2 DEF Plainly, Careful
  <2>4. \A s \in Posts(gain) : Plainly(s)
    BY NetPosts
  <2> QED
    BY <2>3, <2>4
<1> QED
  BY <1>13, <1>14, AskPlainly

\* The legs of a transfer are removed together.
LEMMA HalvedUndone ==
  ASSUME RaceInv, NEW p \in Requests, NEW op, NEW i \in Ids, IsTransfer(i),
         Ask(p, op, Undone(i))
  PROVE  Halved(p)'
<1>0. RaceTypes /\ Imaged(p)
  BY DEF RaceInv, Sound
<1>1. PICK part : part = [j \in Ids |-> LegAdjustments(record[j], -1) \o <<Drop(j)>>]
  OBVIOUS
<1>2. PICK ids : ids = Legs(i)
  OBVIOUS
<1>3. PICK S : S = Adjustments \cup {Drop(j) : j \in ids \cap Ids}
  OBVIOUS
<1>4. ASSUME NEW j \in ids \cap Ids
      PROVE  /\ part[j] \in Seq(S)
             /\ \E k \in 1..Len(part[j]) : part[j][k] = Drop(j)
  <2>1. record[j] \in Draft
    BY <1>0, RaceTypeParts
  <2>2. PICK undo \in Seq(Adjustments) : undo = LegAdjustments(record[j], -1)
    BY <1>0, <2>1, LegSeeds
  <2>3. PICK x \in S : x = Drop(j)
    BY <1>3
  <2>4. part[j] = undo \o <<x>>
    BY <1>1, <2>2, <2>3
  <2>5. undo \in Seq(S)
    BY <1>3, <2>2, SeqSubset
  <2>6. undo \o <<x>> \in Seq(S) /\ Len(undo \o <<x>>) = Len(undo) + 1
        /\ (undo \o <<x>>)[Len(undo) + 1] = x /\ Len(undo) \in Nat
    BY <2>5
  <2> QED
    BY <2>3, <2>4, <2>6
<1>5. PICK list \in Seq(S) : list = ForEach(ids, part)
  BY <1>4, ForEachType
<1>6. Ask(p, op, list)
  BY <1>1, <1>2, <1>5 DEF Undone
<1>7. \A j \in ids : j \in Ids /\ Live(j)
  BY <1>2, LegRows
<1>8. \A s \in S : Careful(s) /\ (s.do = "drop" => s.id \in ids)
  <2>1. \A s \in Adjustments : s.do = "adjust"
    BY DEF Adjustments
  <2>2. \A j : Drop(j).do = "drop" /\ Drop(j).id = j
    BY DEF Drop
  <2> QED
    BY <1>3, <1>7, <2>1, <2>2 DEF Careful, Live
<1>9. Pairwise(list)
  <2> SUFFICES ASSUME NEW j \in Ids, NEW k \in Ids, record[j].group # 0,
                      record[k].group = record[j].group, Dropped(list, j),
                      record[k].state = "live"
               PROVE  Dropped(list, k)
    BY DEF Pairwise
  <2>1. j \in ids
    BY <1>8 DEF Dropped
  <2>2. k \in ids
    BY <1>2, <2>1 DEF Legs, Live
  <2>3. PICK m \in 1..Len(part[k]) : part[k][m] = Drop(k)
    BY <1>4, <2>2
  <2>4. Has(list, Drop(k))
    BY <1>4, <1>5, <2>2, <2>3, ForEachHas
  <2> QED
    BY <2>4 DEF Has, Dropped, Drop
<1> QED
  BY <1>6, <1>8, <1>9, AskCareful

\* A request that removes a record.
LEMMA HalvedRemove ==
  ASSUME RaceInv, NEW p \in Requests, NEW i \in Ids, AskRemove(p, i)
  PROVE  Halved(p)'
<1>0. Live(i)
  BY DEF AskRemove
<1>1. CASE record[i].group # 0 /\ IsTransfer(i) /\ Ask(p, "remove", Undone(i))
  BY <1>1, HalvedUndone
<1>2. CASE /\ record[i].group = 0
           /\ Ask(p, "remove",
               <<Drop(i)>> \o NetAdjustments(LinksOf(record[i]),
                                             [e \in Entities |-> - Collected(record[i], e)]))
  <2>1. PICK links \in Seq(Entities \cup {None}) : links = LinksOf(record[i])
    BY <1>0, LiveRow, LinksHave
  <2>2. PICK delta : delta = [e \in Entities |-> - Collected(record[i], e)]
    OBVIOUS
  <2>3. PICK x : x = Drop(i)
    OBVIOUS
  <2>4. Careful(x) /\ (x.do = "drop" => record[x.id].group = 0)
    BY <1>0, <1>2, <2>3 DEF Careful, Drop, Live
  <2>5. Ask(p, "remove", <<x>> \o NetAdjustments(links, delta))
    BY <1>2, <2>1, <2>2, <2>3
  <2> QED
    BY <2>4, <2>5, AskOneThen
<1> QED
  BY <1>1, <1>2 DEF AskRemove

\* A bulk removal takes whole groups.
LEMMA HalvedRemoveMany ==
  ASSUME RaceInv, NEW p \in Requests, NEW ids \in SUBSET Ids, AskRemoveMany(p, ids)
  PROVE  Halved(p)'
<1>1. PICK doomed : doomed = Doomed(ids)
  OBVIOUS
<1>2. PICK drops : drops = [i \in Ids |-> <<Drop(i)>>]
  OBVIOUS
<1>3. PICK linked : linked = [i \in Ids |-> LinksOf(record[i])]
  OBVIOUS
<1>4. PICK loss : loss = [e \in Entities |->
                            SumOver(doomed, [i \in Ids |-> - Collected(record[i], e)])]
  OBVIOUS
<1>5. /\ \A i \in doomed : i \in Ids /\ Live(i)
      /\ \A i, j \in Ids :
           i \in doomed /\ record[i].group # 0 /\ record[j].group = record[i].group
             /\ record[j].state = "live" => j \in doomed
  <2>1. PICK chosen : chosen = {i \in ids : Live(i)}
    OBVIOUS
  <2>2. PICK groups : groups = {record[i].group : i \in chosen} \ {0}
    OBVIOUS
  <2>3. doomed = IF groups = {} THEN chosen
                 ELSE {i \in Ids : Live(i) /\ record[i].group \in groups}
    BY <1>1, <2>1, <2>2 DEF Doomed
  <2>4. CASE groups = {}
    <3>1. \A i \in chosen : record[i].group = 0
      BY <2>2, <2>4
    <3>2. \A i \in doomed : i \in Ids /\ Live(i) /\ record[i].group = 0
      BY <2>1, <2>3, <2>4, <3>1
    <3> QED
      BY <3>2
  <2>5. CASE groups # {}
    <3>1. doomed = {i \in Ids : Live(i) /\ record[i].group \in groups}
      BY <2>3, <2>5
    <3>2. \A i \in doomed : i \in Ids /\ Live(i) /\ record[i].group \in groups
      BY <3>1
    <3>3. \A j \in Ids : record[j].state = "live" /\ record[j].group \in groups => j \in doomed
      BY <3>1 DEF Live
    <3> QED
      BY <3>2, <3>3
  <2> QED
    BY <2>4, <2>5
<1>6. PICK D : D = {Drop(i) : i \in doomed}
  OBVIOUS
<1>7. ASSUME NEW i \in doomed \cap Ids
      PROVE  /\ drops[i] \in Seq(D) /\ drops[i][1] = Drop(i) /\ 1 \in 1..Len(drops[i])
             /\ linked[i] \in Seq(Entities \cup {None})
  <2>1. PICK x \in D : x = Drop(i)
    BY <1>6
  <2>2. drops[i] = <<x>>
    BY <1>2, <2>1
  <2>3. linked[i] \in Seq(Entities \cup {None})
    BY <1>3, <1>5, LiveRow, LinksHave
  <2> QED
    BY <2>1, <2>2, <2>3
<1>8. PICK removals \in Seq(D) : removals = ForEach(doomed, drops)
  BY <1>7, ForEachType
<1>9. PICK links \in Seq(Entities \cup {None}) : links = ForEach(doomed, linked)
  BY <1>7, ForEachType
<1>10. PICK net \in Seq(Posts(loss)) : net = NetAdjustments(links, loss)
  BY NetPosts
<1>11. PICK list \in Seq(D \cup Posts(loss)) : list = removals \o net
  BY Followed
<1>12. Ask(p, "removeMany", list)
  BY <1>1, <1>2, <1>3, <1>4, <1>8, <1>9, <1>10, <1>11 DEF AskRemoveMany
<1>13. \A s \in D \cup Posts(loss) : Careful(s) /\ (s.do = "drop" => s.id \in doomed)
  <2>1. \A j : Drop(j).do = "drop" /\ Drop(j).id = j
    BY DEF Drop
  <2> QED
    <3>1. \A s \in D : s.do = "drop" /\ s.id \in doomed
      BY <1>6, <2>1
    <3>2. \A s \in D : Careful(s)
      BY <1>5, <3>1 DEF Careful, Live
    <3>3. \A s \in Posts(loss) : Careful(s) /\ s.do # "drop"
      BY NetPosts DEF Plainly
    <3> QED
      BY <3>1, <3>2, <3>3
<1>14. Pairwise(list)
  <2> SUFFICES ASSUME NEW j \in Ids, NEW k \in Ids, record[j].group # 0,
                      record[k].group = record[j].group, Dropped(list, j),
                      record[k].state = "live"
               PROVE  Dropped(list, k)
    BY DEF Pairwise
  <2>1. j \in doomed
    BY <1>13 DEF Dropped
  <2>2. k \in doomed \cap Ids
    BY <1>5, <2>1
  <2>3. Has(removals, Drop(k))
    BY <1>7, <1>8, <2>2, ForEachHas
  <2>4. PICK m \in 1..Len(removals) : removals[m] = Drop(k)
    BY <2>3 DEF Has
  <2>5. m \in 1..Len(list) /\ list[m] = removals[m]
    BY <1>11
  <2> QED
    BY <2>4, <2>5 DEF Dropped, Drop
<1> QED
  BY <1>12, <1>13, <1>14, AskCareful

\* A new transfer.
LEMMA HalvedTransfer ==
  ASSUME RaceInv, NEW p \in Requests, NEW source \in Accounts, NEW dest \in Accounts,
         NEW amount \in Amounts, NEW goal \in ObjectiveOrNone,
         AskTransfer(p, source, dest, amount, goal)
  PROVE  Halved(p)'
<1>0. RaceTypes /\ Imaged(p)
  BY DEF RaceInv, Sound
<1>1. PICK text \in Descriptions : text = CHOOSE d \in Descriptions : TRUE
  BY LedgerAssumption
<1>2. \A g \in ObjectiveOrNone, x, y \in AccountOrNone :
        Leg(amount, g, text, None, x, y) \in Draft
  <2>1. next \in Nat /\ "transfer" \in Types
    BY <1>0, RaceTypeParts, Values
  <2> QED
    BY <2>1 DEF Leg, Draft, States, PatrimonyOrNone, CategoryOrNone, CompanyOrNone
<1>3. PICK origin \in Draft, arrival \in Draft :
         /\ origin = Leg(amount, None, text, None, source, None)
         /\ arrival = Leg(amount, goal, text, None, None, dest)
  BY <1>2 DEF ObjectiveOrNone, AccountOrNone
<1>4. PICK out \in Seq(Adjustments) : out = LegAdjustments(origin, 1)
  BY <1>0, LegSeeds
<1>5. PICK in \in Seq(Adjustments) : in = LegAdjustments(arrival, 1)
  BY <1>0, LegSeeds
<1>6. PICK I : I = {Insert(origin), Insert(arrival)}
  OBVIOUS
<1>7. PICK both \in Seq(I) : both = <<Insert(origin), Insert(arrival)>>
  <2>1. <<Insert(origin), Insert(arrival)>> \in Seq(I)
    BY <1>6
  <2> QED
    BY <2>1
<1>8. PICK list \in Seq((I \cup Adjustments) \cup Adjustments) : list = (both \o out) \o in
  <2>1. both \o out \in Seq(I \cup Adjustments)
    BY Followed
  <2> QED
    BY <2>1, Followed
<1>9. Ask(p, "transfer", list)
  BY <1>1, <1>3, <1>4, <1>5, <1>7, <1>8 DEF AskTransfer
<1>10. \A s \in (I \cup Adjustments) \cup Adjustments : Plainly(s)
  BY <1>6 DEF Adjustments, Plainly, Careful, Insert
<1> QED
  BY <1>9, <1>10, AskPlainly

\* An amended transfer keeps its accounts.
LEMMA HalvedAmend ==
  ASSUME RaceInv, NEW p \in Requests, NEW i \in Ids, NEW amount \in AmountOrNone,
         NEW relink \in BOOLEAN, NEW goal \in ObjectiveOrNone,
         AskAmend(p, i, amount, relink, goal)
  PROVE  Halved(p)'
<1>0. RaceTypes /\ Imaged(p) /\ TypeOK /\ IsTransfer(i)
  BY DEF RaceInv, Sound, RaceTypes, AskAmend
<1>1. PICK row : row = [j \in Ids |-> Amended(j, amount, None, relink, goal)]
  OBVIOUS
<1>2. PICK stated : stated = IF amount = None THEN {} ELSE {"amount"}
  OBVIOUS
<1>3. PICK ids : ids = Legs(i)
  OBVIOUS
<1>4. PICK undo : undo = [j \in Ids |-> LegAdjustments(record[j], -1)]
  OBVIOUS
<1>5. PICK redo : redo = [j \in Ids |-> <<Save(j, row[j], stated)>> \o LegAdjustments(row[j], 1)]
  OBVIOUS
<1>6. PICK S : S = {Save(j, row[j], stated) : j \in ids \cap Ids}
  OBVIOUS
<1>7. ASSUME NEW j \in ids \cap Ids
      PROVE  /\ undo[j] \in Seq(Adjustments) /\ redo[j] \in Seq(S \cup Adjustments)
             /\ record[j].state = "live" /\ SameEnds(row[j], record[j])
  <2>1. Live(j)
    BY <1>0, <1>3, LegRows
  <2>2. PICK old \in Record : old = record[j]
    BY <2>1, LiveRow
  <2>3. row[j] = Amended(j, amount, None, relink, goal) /\ row[j] \in Draft
    BY <1>0, <1>1, AmendedType, RecordDraft DEF DescriptionOrNone
  <2>4. SameEnds(row[j], old)
    BY <2>2, <2>3 DEF Amended, Record, SameEnds
  <2>5. undo[j] \in Seq(Adjustments)
    BY <1>0, <1>4, <2>1, LiveRow, LegSeeds
  <2>6. LegAdjustments(row[j], 1) \in Seq(Adjustments)
    BY <1>0, <2>3, LegSeeds
  <2>7. <<Save(j, row[j], stated)>> \in Seq(S)
    BY <1>6
  <2>8. redo[j] \in Seq(S \cup Adjustments)
    BY <1>5, <2>6, <2>7, Followed
  <2> QED
    BY <2>1, <2>2, <2>4, <2>5, <2>8 DEF Live
<1>8. PICK first \in Seq(Adjustments) : first = ForEach(ids, undo)
  BY <1>7, ForEachType
<1>9. PICK second \in Seq(S \cup Adjustments) : second = ForEach(ids, redo)
  BY <1>7, ForEachType
<1>10. PICK list \in Seq(Adjustments \cup (S \cup Adjustments)) : list = first \o second
  BY Followed
<1>11. Ask(p, "amend", list)
  BY <1>1, <1>2, <1>3, <1>4, <1>5, <1>8, <1>9, <1>10 DEF AskAmend
<1>12. \A s \in Adjustments \cup (S \cup Adjustments) : Plainly(s)
  <2>1. \A j : LET s == Save(j, row[j], stated) IN s.do = "save" /\ s.id = j /\ s.row = row[j]
    BY DEF Save
  <2>2. \A s \in S : Plainly(s)
    <3> SUFFICES ASSUME NEW s \in S PROVE Plainly(s)
      OBVIOUS
    <3>1. PICK j \in ids \cap Ids : s = Save(j, row[j], stated)
      BY <1>6
    <3>2. s.do = "save" /\ s.id = j /\ s.row = row[j]
      BY <2>1, <3>1
    <3> QED
      BY <1>7, <3>2 DEF Plainly, Careful
  <2>3. \A s \in Adjustments : Plainly(s)
    BY DEF Adjustments, Plainly, Careful
  <2> QED
    BY <2>2, <2>3
<1> QED
  BY <1>11, <1>12, AskPlainly

\* Requests about payments and balances save and drop no record.
LEMMA HalvedMoney ==
  ASSUME RaceInv, NEW p \in Requests,
         \/ \E o \in Objectives, amount \in Amounts : AskPay(p, o, amount)
         \/ \E k \in Payments : AskUnpay(p, k)
         \/ \E e \in Entities, amount \in Overrides \cup {None} : AskEdit(p, e, amount)
  PROVE  Halved(p)'
<1>1. ASSUME NEW x, NEW y, NEW op, Plainly(x), Plainly(y), Ask(p, op, <<x, y>>)
      PROVE  Halved(p)'
  <2>1. PICK S : S = {x, y}
    OBVIOUS
  <2>2. <<x, y>> \in Seq(S)
    BY <2>1
  <2>3. PICK list \in Seq(S) : list = <<x, y>>
    BY <2>2
  <2>4. \A s \in S : Plainly(s)
    BY <1>1, <2>1
  <2>5. Ask(p, op, list)
    BY <1>1, <2>3
  <2> QED
    BY <2>3, <2>4, <2>5, AskPlainly
<1>2. ASSUME NEW x, NEW op, Plainly(x), Ask(p, op, <<x>>)
      PROVE  Halved(p)'
  <2>1. PICK S : S = {x}
    OBVIOUS
  <2>2. <<x>> \in Seq(S)
    BY <2>1
  <2>3. PICK list \in Seq(S) : list = <<x>>
    BY <2>2
  <2>4. \A s \in S : Plainly(s)
    BY <1>2, <2>1
  <2>5. Ask(p, op, list)
    BY <1>2, <2>3
  <2> QED
    BY <2>3, <2>4, <2>5, AskPlainly
<1>3. /\ \A row : Plainly(InsertPay(row))
      /\ \A k : Plainly(DropPay(k))
      /\ \A e, d : Plainly(Adjust(e, d))
      /\ \A e, figure, counted : Plainly(Write(e, figure, counted))
  BY DEF InsertPay, DropPay, Adjust, Write, Plainly, Careful
<1>4. ASSUME NEW o \in Objectives, NEW amount \in Amounts, AskPay(p, o, amount)
      PROVE  Halved(p)'
  <2>1. PICK x, y : Plainly(x) /\ Plainly(y) /\ Ask(p, "pay", <<x, y>>)
    BY <1>3, <1>4 DEF AskPay
  <2> QED
    BY <1>1, <2>1
<1>5. ASSUME NEW k \in Payments, AskUnpay(p, k) PROVE Halved(p)'
  <2>1. PICK x, y : Plainly(x) /\ Plainly(y) /\ Ask(p, "unpay", <<x, y>>)
    BY <1>3, <1>5 DEF AskUnpay
  <2> QED
    BY <1>1, <2>1
<1>6. ASSUME NEW e \in Entities, NEW amount \in Overrides \cup {None}, AskEdit(p, e, amount)
      PROVE  Halved(p)'
  <2>1. PICK x : Plainly(x) /\ Ask(p, "edit", <<x>>)
    BY <1>3, <1>6 DEF AskEdit
  <2> QED
    BY <1>2, <2>1
<1> QED
  BY <1>4, <1>5, <1>6

\* Nothing is left halved by a database that does not change.
LEMMA HalvesUnchanged ==
  ASSUME record' = record, next' = next, raced \subseteq raced', Fresh, HalvesAreConfined
  PROVE  Fresh' /\ HalvesAreConfined'
<1>1. Fresh'
  BY DEF Fresh
<1>2. HalvesAreConfined'
  BY DEF HalvesAreConfined
<1> QED
  BY <1>1, <1>2

\* A request that begins disturbs nobody else.
LEMMA HalvedAsked ==
  ASSUME HalvesHold, RacesHold', NEW p \in Requests, NEW op, NEW list, Ask(p, op, list), Halved(p)'
  PROVE  HalvesHold'
<1>1. RaceInv
  BY DEF HalvesHold, RacesHold
<1>2. /\ UNCHANGED vars /\ work' = work /\ raced \subseteq raced'
      /\ \A q \in Requests \ {p} : todo'[q] = todo[q] /\ touch'[q] = touch[q]
  BY <1>1, AskFacts
<1>3. Fresh' /\ HalvesAreConfined' /\ record' = record
  BY <1>2, Unmoved, HalvesUnchanged DEF HalvesHold
<1>4. ASSUME NEW q \in Requests PROVE Halved(q)'
  <2>1. CASE q # p
    BY <1>2, <1>3, <2>1, HalvedStays DEF HalvesHold
  <2>2. CASE q = p
    BY <2>2
  <2> QED
    BY <2>1, <2>2
<1> QED
  BY <1>3, <1>4 DEF HalvesHold

\* Every request is an Ask.
LEMMA RequestsAsk ==
  ASSUME NEW p \in Requests, AskRecord(p) \/ AskMoney(p)
  PROVE  \E op, list : Ask(p, op, list)
<1>1. ASSUME NEW f \in Fields, AskCreate(p, f) PROVE \E op, list : Ask(p, op, list)
  BY <1>1 DEF AskCreate
<1>2. ASSUME NEW batch \in Batches, AskImport(p, batch) PROVE \E op, list : Ask(p, op, list)
  BY <1>2 DEF AskImport
<1>3. ASSUME NEW i \in Ids, NEW amount \in AmountOrNone, AskClone(p, i, amount)
      PROVE  \E op, list : Ask(p, op, list)
  BY <1>3 DEF AskClone
<1>4. ASSUME NEW i \in Ids, NEW f \in Fields, AskUpdate(p, i, f)
      PROVE  \E op, list : Ask(p, op, list)
  BY <1>4 DEF AskUpdate
<1>5. ASSUME NEW i \in Ids, AskRemove(p, i) PROVE \E op, list : Ask(p, op, list)
  BY <1>5 DEF AskRemove
<1>6. ASSUME NEW ids \in SUBSET Ids, AskRemoveMany(p, ids) PROVE \E op, list : Ask(p, op, list)
  BY <1>6 DEF AskRemoveMany
<1>7. ASSUME NEW source \in Accounts, NEW dest \in Accounts, NEW amount \in Amounts,
             NEW goal \in ObjectiveOrNone, AskTransfer(p, source, dest, amount, goal)
      PROVE  \E op, list : Ask(p, op, list)
  BY <1>7 DEF AskTransfer
<1>8. ASSUME NEW i \in Ids, NEW amount \in AmountOrNone, NEW relink \in BOOLEAN,
             NEW goal \in ObjectiveOrNone, AskAmend(p, i, amount, relink, goal)
      PROVE  \E op, list : Ask(p, op, list)
  BY <1>8 DEF AskAmend
<1>9. ASSUME NEW i \in Ids, AskRemoveTransfer(p, i) PROVE \E op, list : Ask(p, op, list)
  BY <1>9 DEF AskRemoveTransfer
<1>10. ASSUME NEW o \in Objectives, NEW amount \in Amounts, AskPay(p, o, amount)
       PROVE  \E op, list : Ask(p, op, list)
  BY <1>10 DEF AskPay
<1>11. ASSUME NEW k \in Payments, AskUnpay(p, k) PROVE \E op, list : Ask(p, op, list)
  BY <1>11 DEF AskUnpay
<1>12. ASSUME NEW e \in Entities, NEW amount \in Overrides \cup {None}, AskEdit(p, e, amount)
       PROVE  \E op, list : Ask(p, op, list)
  BY <1>12 DEF AskEdit
<1>13. AskRecord(p) => \E op, list : Ask(p, op, list)
  BY <1>1, <1>2, <1>3, <1>4, <1>5, <1>6 DEF AskRecord
<1>14. AskMoney(p) => \E op, list : Ask(p, op, list)
  BY <1>7, <1>8, <1>9, <1>10, <1>11, <1>12 DEF AskMoney
<1> QED
  BY <1>13, <1>14

\* Any request.
LEMMA HalvedRequest ==
  ASSUME RaceInv, NEW p \in Requests, AskRecord(p) \/ AskMoney(p)
  PROVE  Halved(p)'
<1>1. CASE AskRecord(p)
  <2>1. ASSUME NEW f \in Fields, AskCreate(p, f) PROVE Halved(p)'
    BY <2>1, HalvedCreate
  <2>2. ASSUME NEW batch \in Batches, AskImport(p, batch) PROVE Halved(p)'
    BY <2>2, HalvedImport
  <2>3. ASSUME NEW i \in Ids, NEW amount \in AmountOrNone, AskClone(p, i, amount)
        PROVE  Halved(p)'
    BY <2>3, HalvedClone
  <2>4. ASSUME NEW i \in Ids, NEW f \in Fields, AskUpdate(p, i, f) PROVE Halved(p)'
    BY <2>4, HalvedUpdate
  <2>5. ASSUME NEW i \in Ids, AskRemove(p, i) PROVE Halved(p)'
    BY <2>5, HalvedRemove
  <2>6. ASSUME NEW ids \in SUBSET Ids, AskRemoveMany(p, ids) PROVE Halved(p)'
    BY <2>6, HalvedRemoveMany
  <2> QED
    BY <1>1, <2>1, <2>2, <2>3, <2>4, <2>5, <2>6 DEF AskRecord
<1>2. CASE AskMoney(p)
  <2>1. ASSUME NEW source \in Accounts, NEW dest \in Accounts, NEW amount \in Amounts,
               NEW goal \in ObjectiveOrNone, AskTransfer(p, source, dest, amount, goal)
        PROVE  Halved(p)'
    BY <2>1, HalvedTransfer
  <2>2. ASSUME NEW i \in Ids, NEW amount \in AmountOrNone, NEW relink \in BOOLEAN,
               NEW goal \in ObjectiveOrNone, AskAmend(p, i, amount, relink, goal)
        PROVE  Halved(p)'
    BY <2>2, HalvedAmend
  <2>3. ASSUME NEW i \in Ids, AskRemoveTransfer(p, i) PROVE Halved(p)'
    BY <2>3, HalvedUndone DEF AskRemoveTransfer
  <2> QED
    BY <1>2, <2>1, <2>2, <2>3, HalvedMoney DEF AskMoney
<1> QED
  BY <1>1, <1>2

\* A transaction that ends without a commit.
LEMMA HalvedForgotten ==
  ASSUME HalvesHold, RacesHold', NEW p \in Requests, Forget(p), UNCHANGED vars
  PROVE  HalvesHold'
<1>1. RaceTypes
  BY DEF HalvesHold, RacesHold, RaceInv
<1>2. /\ Idle(p)' /\ raced' = raced
      /\ \A q \in Requests \ {p} :
           todo'[q] = todo[q] /\ work'[q] = work[q] /\ touch'[q] = touch[q]
  BY <1>1, ForgetFacts
<1>3. Fresh' /\ HalvesAreConfined' /\ record' = record
  BY <1>2, Unmoved, HalvesUnchanged DEF HalvesHold
<1>4. ASSUME NEW q \in Requests PROVE Halved(q)'
  <2>1. CASE q # p
    BY <1>2, <1>3, <2>1, HalvedStays DEF HalvesHold
  <2>2. CASE q = p
    BY <1>2, <2>2, HalvedIdle DEF Idle
  <2> QED
    BY <2>1, <2>2
<1> QED
  BY <1>3, <1>4 DEF HalvesHold

\* A commit.
LEMMA HalvedCommitted ==
  ASSUME HalvesHold, RacesHold', NEW p \in Requests, Commits(p)
  PROVE  HalvesHold'
<1>1. /\ RaceInv /\ RaceTypes /\ Drawn(p) /\ Fresh /\ HalvesAreConfined
      /\ Imaged(p) /\ Traced(p) /\ \A q \in Requests : Halved(q)
  BY DEF HalvesHold, RacesHold, RaceInv, Sound
<1>2. todo[p] # << >> /\ Head(todo[p]).do = "commit" /\ Keep(p) /\ Forget(p)
  BY DEF Commits, Running
<1>3. /\ Idle(p)' /\ raced' = raced
      /\ \A q \in Requests \ {p} :
           todo'[q] = todo[q] /\ work'[q] = work[q] /\ touch'[q] = touch[q]
  BY <1>1, <1>2, ForgetFacts
<1>4. Fresh' /\ HalvesAreConfined'
  BY <1>1, <1>2, <1>3, FreshCommitted, HalvesCommitted
<1>5. ASSUME NEW q \in Requests PROVE Halved(q)'
  <2>1. CASE q # p
    BY <1>1, <1>2, <1>3, <2>1, HalvedHeld
  <2>2. CASE q = p
    BY <1>3, <2>2, HalvedIdle DEF Idle
  <2> QED
    BY <2>1, <2>2
<1> QED
  BY <1>4, <1>5 DEF HalvesHold

\* A statement.
LEMMA HalvesExecuting ==
  ASSUME HalvesHold, RacesHold', NEW p \in Requests, Execute(p)
  PROVE  HalvesHold'
<1>1. RaceInv /\ Fresh /\ HalvesAreConfined /\ \A q \in Requests : Halved(q)
  BY DEF HalvesHold, RacesHold
<1>2. /\ UNCHANGED vars /\ touch' = touch /\ raced' = raced
      /\ \A q \in Requests \ {p} : todo'[q] = todo[q] /\ work'[q] = work[q]
  BY <1>1, ExecuteMoves DEF Executing
<1>3. Fresh' /\ HalvesAreConfined' /\ record' = record
  BY <1>1, <1>2, Unmoved, HalvesUnchanged
<1>4. ASSUME NEW q \in Requests PROVE Halved(q)'
  <2>1. CASE q # p
    BY <1>1, <1>2, <1>3, <2>1, HalvedStays
  <2>2. CASE q = p
    BY <1>1, <2>2, HalvedExecuting
  <2> QED
    BY <2>1, <2>2
<1> QED
  BY <1>3, <1>4 DEF HalvesHold

\* Entities that are opened, or a state that does not change.
LEMMA HalvesStay ==
  ASSUME HalvesHold, RacesHold', OpensEntities \/ UNCHANGED allVars
  PROVE  HalvesHold'
<1>1. /\ todo' = todo /\ work' = work /\ touch' = touch /\ raced' = raced
      /\ record' = record /\ next' = next
  <2>1. CASE OpensEntities
    BY <2>1 DEF OpensEntities, Open, raceVars
  <2>2. CASE UNCHANGED allVars
    BY <2>2, Unmoved DEF allVars, raceVars
  <2> QED
    BY <2>1, <2>2
<1>2. Fresh' /\ HalvesAreConfined'
  BY <1>1, HalvesUnchanged DEF HalvesHold
<1>3. \A q \in Requests : Halved(q)'
  BY <1>1, HalvedStays DEF HalvesHold
<1> QED
  BY <1>2, <1>3 DEF HalvesHold

\* At first there are no transfers.
LEMMA HalvesStart == RaceInit => HalvesHold
<1> SUFFICES ASSUME RaceInit PROVE HalvesHold
  OBVIOUS
<1>1. RacesHold
  BY RacesStart
<1>2. /\ \A i \in Ids : record[i].state = "none" /\ record[i].group = 0
      /\ next = 1
  BY DEF RaceInit, Init, Unread
<1>3. Fresh /\ HalvesAreConfined
  BY <1>2 DEF Fresh, HalvesAreConfined
<1>4. ASSUME NEW p \in Requests PROVE Halved(p)
  <2>1. todo[p] = << >> /\ work[p] = NoWork /\ touch[p].rows = {} /\ touch[p].links = {}
    BY DEF RaceInit, Nothing
  <2>2. DOMAIN work[p] = {} /\ Left(p) = {} /\ Spoilt(p)
    BY <2>1 DEF NoWork, Left, Spoilt
  <2>3. \A i : ~ Gone(p, i)
    BY <2>2 DEF Gone
  <2> QED
    BY <2>2, <2>3 DEF Halved, Stale, KeepsEnds, Whole
<1> QED
  BY <1>1, <1>3, <1>4 DEF HalvesHold

\* Every step keeps it.
LEMMA HalvesNext == LegEdits # "any" /\ HalvesHold /\ [RaceNext]_allVars => HalvesHold'
<1> SUFFICES ASSUME LegEdits # "any", HalvesHold, [RaceNext]_allVars PROVE HalvesHold'
  OBVIOUS
<1>1. RacesHold'
  BY RacesNext DEF HalvesHold
<1>2. RaceInv
  BY DEF HalvesHold, RacesHold
<1>3. CASE OpensEntities \/ UNCHANGED allVars
  BY <1>1, <1>3, HalvesStay
<1>4. ASSUME NEW p \in Requests, AskRecord(p) \/ AskMoney(p) PROVE HalvesHold'
  <2>1. PICK op, list : Ask(p, op, list)
    BY <1>4, RequestsAsk
  <2>2. Halved(p)'
    BY <1>2, <1>4, HalvedRequest
  <2> QED
    BY <1>1, <2>1, <2>2, HalvedAsked
<1>5. ASSUME NEW p \in Requests, Execute(p) PROVE HalvesHold'
  BY <1>1, <1>5, HalvesExecuting
<1>6. ASSUME NEW p \in Requests, Commits(p) PROVE HalvesHold'
  BY <1>1, <1>6, HalvedCommitted
<1>7. ASSUME NEW p \in Requests, Fail(p) \/ BreakDeadlock(p) PROVE HalvesHold'
  BY <1>1, <1>7, HalvedForgotten DEF Fail, BreakDeadlock
<1> QED
  BY <1>3, <1>4, <1>5, <1>6, <1>7 DEF RaceNext

\* Half a transfer is left only where requests overlapped on it: on accounts two
\* of them changed at the same time, or of a row both changed.
THEOREM HalvesConfined ==
  ASSUME LegEdits # "any"
  PROVE  RaceSpec => []HalvesAreConfined
<1>1. RaceInit => HalvesHold
  BY HalvesStart
<1>2. HalvesHold /\ [RaceNext]_allVars => HalvesHold'
  BY HalvesNext
<1>3. HalvesHold => HalvesAreConfined
  BY DEF HalvesHold
<1> QED
  BY <1>1, <1>2, <1>3, PTL DEF RaceSpec
=============================================================================
