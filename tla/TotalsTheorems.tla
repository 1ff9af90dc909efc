--------------------------- MODULE TotalsTheorems ---------------------------
(***************************************************************************)
(* Facts about running totals.  A statement exists and satisfies its       *)
(* recursion (StatementDef); the total of a line-by-line sum is the sum of *)
(* the totals (TotalSum); a table whose only non-zero line is k totals     *)
(* that line (TotalSingle).  Inductions are done with the least element of *)
(* a set of counterexamples.                                               *)
(***************************************************************************)
EXTENDS Totals, WellFoundedInduction, TLAPS

\* A non-empty set of naturals has a least element.
LEMMA LeastElement ==
  ASSUME NEW T \in SUBSET Nat, T # {}
  PROVE  \E x \in T : \A y \in T : x <= y
<1>1. PICK x \in T : \A y \in T : ~ (<<y, x>> \in OpToRel(<, Nat))
  BY NatLessThanWellFounded, WFMin
<1>2. \A y \in T : ~ (y < x)
  BY <1>1 DEF OpToRel
<1> QED
  BY <1>2

\* A table of integers sums to an integer statement that starts at zero.
IsStatement(n, c, s) ==
  /\ s \in [0..n -> Int]
  /\ s[0] = 0
  /\ \A i \in 1..n : s[i] = s[i-1] + c[i]

\* A statement of the first m-1 lines extends to one of the first m.
LEMMA StatementExtends ==
  ASSUME NEW n \in Nat, NEW c \in [1..n -> Int], NEW m \in 1..n,
         NEW s, IsStatement(m-1, c, s)
  PROVE  \E t : IsStatement(m, c, t)
<1> DEFINE t == [i \in 0..m |-> IF i = m THEN s[m-1] + c[m] ELSE s[i]]
<1>1. s \in [0..(m-1) -> Int] /\ c[m] \in Int
  BY DEF IsStatement
<1>2. t \in [0..m -> Int]
  BY <1>1
<1>3. t[0] = 0
  BY DEF IsStatement
<1>4. \A i \in 1..m : t[i] = t[i-1] + c[i]
  BY <1>1 DEF IsStatement
<1>5. IsStatement(m, c, t)
  BY <1>2, <1>3, <1>4 DEF IsStatement
<1> QED
  BY <1>5

\* Every table of integers has a statement.
LEMMA StatementExists ==
  ASSUME NEW n \in Nat, NEW c \in [1..n -> Int]
  PROVE  \E s : IsStatement(n, c, s)
<1> DEFINE Missing == {m \in 0..n : \A s : ~ IsStatement(m, c, s)}
<1>1. SUFFICES ASSUME Missing # {} PROVE FALSE
  BY n \in 0..n
<1>2. PICK m \in Missing : \A y \in Missing : m <= y
  BY <1>1, LeastElement, Missing \in SUBSET Nat
<1>3. m \in 0..n /\ \A s : ~ IsStatement(m, c, s)
  BY <1>2
<1>4. m # 0
  <2>1. IsStatement(0, c, [i \in 0..0 |-> 0])
    BY DEF IsStatement
  <2> QED
    BY <2>1, <1>3
<1>5. m \in 1..n /\ m-1 \in 0..n
  BY <1>3, <1>4
<1>6. m-1 \notin Missing
  <2> HIDE DEF Missing
  <2> QED
    BY <1>2, <1>5
<1>7. PICK s : IsStatement(m-1, c, s)
  BY <1>5, <1>6
<1> QED
  BY <1>3, <1>5, <1>7, StatementExtends

\* The recursive function is the statement.
LEMMA StatementDef ==
  ASSUME NEW n \in Nat, NEW c \in [1..n -> Int]
  PROVE  IsStatement(n, c, Statement(n, c))
<1> DEFINE Body(s) == [i \in 0..n |-> IF i = 0 THEN 0 ELSE s[i-1] + c[i]]
           S == Statement(n, c)
           Bad == {m \in 0..n : S[m] \notin Int}
<1>1. PICK s : IsStatement(n, c, s)
  BY StatementExists
<1>2. s = Body(s)
  BY <1>1 DEF IsStatement
<1>3. S = CHOOSE t : t = Body(t)
  BY DEF Statement
<1>4. S = Body(S)
  <2> HIDE DEF Body, S
  <2> QED
    BY <1>2, <1>3
<1>5. /\ DOMAIN S = 0..n /\ S[0] = 0
      /\ \A i \in 1..n : S[i] = S[i-1] + c[i]
      /\ S = [i \in 0..n |-> S[i]]
  <2> HIDE DEF S
  <2> QED
    BY <1>4
<1>6. Bad = {}
  <2>1. SUFFICES ASSUME Bad # {} PROVE FALSE
    OBVIOUS
  <2>2. PICK m \in Bad : \A y \in Bad : m <= y
    BY <2>1, LeastElement, Bad \in SUBSET Nat
  <2> HIDE DEF S
  <2>3. m \in 1..n /\ m-1 \in 0..n
    BY <2>2, <1>5
  <2>4. S[m-1] \in Int
    BY <2>2, <2>3
  <2>5. S[m] \in Int
    BY <2>3, <2>4, <1>5
  <2> QED
    BY <2>2, <2>5
<1> HIDE DEF S
<1>7. S \in [0..n -> Int]
  BY <1>5, <1>6
<1>8. IsStatement(n, c, S)
  BY <1>5, <1>7 DEF IsStatement
<1> QED
  BY <1>8 DEF S

\* A total is an integer.
LEMMA TotalInt ==
  ASSUME NEW n \in Nat, NEW c \in [1..n -> Int]
  PROVE  Total(n, c) \in Int
BY StatementDef DEF Total, IsStatement

\* The total of a line-by-line sum is the sum of the totals.
LEMMA TotalSum ==
  ASSUME NEW n \in Nat, NEW c \in [1..n -> Int], NEW d \in [1..n -> Int],
         NEW e \in [1..n -> Int], \A i \in 1..n : e[i] = c[i] + d[i]
  PROVE  Total(n, e) = Total(n, c) + Total(n, d)
<1> DEFINE C == Statement(n, c)
           D == Statement(n, d)
           E == Statement(n, e)
           Bad == {m \in 0..n : E[m] # C[m] + D[m]}
<1>1. IsStatement(n, c, C) /\ IsStatement(n, d, D) /\ IsStatement(n, e, E)
  BY StatementDef
<1> HIDE DEF C, D, E
<1>2. Bad = {}
  <2>1. SUFFICES ASSUME Bad # {} PROVE FALSE
    OBVIOUS
  <2>2. PICK m \in Bad : \A y \in Bad : m <= y
    BY <2>1, LeastElement, Bad \in SUBSET Nat
  <2>3. m \in 1..n /\ m-1 \in 0..n
    BY <2>2, <1>1 DEF IsStatement
  <2>4. E[m-1] = C[m-1] + D[m-1]
    BY <2>2, <2>3
  <2>5. /\ C[m] = C[m-1] + c[m] /\ D[m] = D[m-1] + d[m]
        /\ E[m] = E[m-1] + e[m] /\ e[m] = c[m] + d[m]
    BY <2>3, <1>1 DEF IsStatement
  <2>6. /\ c[m] \in Int /\ d[m] \in Int /\ C[m-1] \in Int /\ D[m-1] \in Int
    BY <2>3, <1>1 DEF IsStatement
  <2>7. E[m] = C[m] + D[m]
    BY <2>4, <2>5, <2>6
  <2> QED
    BY <2>2, <2>7
<1>3. E[n] = C[n] + D[n]
  BY <1>2
<1> QED
  BY <1>3 DEF Total, C, D, E

\* A table whose only line that is not zero is k totals that line.
LEMMA TotalSingle ==
  ASSUME NEW n \in Nat, NEW c \in [1..n -> Int], NEW k \in 1..n,
         \A i \in 1..n \ {k} : c[i] = 0
  PROVE  Total(n, c) = c[k]
<1> DEFINE C == Statement(n, c)
           Bad == {m \in 0..n : C[m] # IF m < k THEN 0 ELSE c[k]}
<1>1. IsStatement(n, c, C)
  BY StatementDef
<1> HIDE DEF C
<1>2. Bad = {}
  <2>1. SUFFICES ASSUME Bad # {} PROVE FALSE
    OBVIOUS
  <2>2. PICK m \in Bad : \A y \in Bad : m <= y
    BY <2>1, LeastElement, Bad \in SUBSET Nat
  <2>3. m \in 1..n /\ m-1 \in 0..n
    BY <2>2, <1>1 DEF IsStatement
  <2>4. C[m-1] = IF m-1 < k THEN 0 ELSE c[k]
    BY <2>2, <2>3
  <2>5. C[m] = C[m-1] + c[m] /\ c[m] \in Int /\ c[k] \in Int
    BY <2>3, <1>1 DEF IsStatement
  <2>6. m # k => c[m] = 0
    BY <2>3
  <2>7. C[m] = IF m < k THEN 0 ELSE c[k]
    BY <2>3, <2>4, <2>5, <2>6
  <2> QED
    BY <2>2, <2>7
<1>3. C[n] = c[k]
  BY <1>2
<1> QED
  BY <1>3 DEF Total, C

\* A table of zeros totals zero.
LEMMA TotalZero ==
  ASSUME NEW n \in Nat, NEW c \in [1..n -> Int], \A i \in 1..n : c[i] = 0
  PROVE  Total(n, c) = 0
<1>1. CASE n = 0
  <2>1. IsStatement(n, c, Statement(n, c))
    BY StatementDef
  <2> QED
    BY <1>1, <2>1 DEF Total, IsStatement
<1>2. CASE n # 0
  <2>1. 1 \in 1..n
    BY <1>2
  <2> QED
    BY <2>1, TotalSingle
<1> QED
  BY <1>1, <1>2

\* The statement of a table that continues another goes on from its total.
LEMMA TotalConcat ==
  ASSUME NEW n \in Nat, NEW m \in Nat, NEW c \in [1..n -> Int],
         NEW d \in [1..m -> Int], NEW e \in [1..(n+m) -> Int],
         \A i \in 1..n : e[i] = c[i],
         \A i \in 1..m : e[n+i] = d[i]
  PROVE  Total(n+m, e) = Total(n, c) + Total(m, d)
<1> DEFINE C == Statement(n, c)
           D == Statement(m, d)
           E == Statement(n+m, e)
           Early == {i \in 0..n : E[i] # C[i]}
           Late  == {i \in 0..m : E[n+i] # C[n] + D[i]}
<1>1. IsStatement(n, c, C) /\ IsStatement(m, d, D) /\ IsStatement(n+m, e, E)
  BY StatementDef
<1> HIDE DEF C, D, E
<1>2. Early = {}
  <2>1. SUFFICES ASSUME Early # {} PROVE FALSE
    OBVIOUS
  <2>2. PICK i \in Early : \A y \in Early : i <= y
    BY <2>1, LeastElement, Early \in SUBSET Nat
  <2>3. i \in 1..n /\ i-1 \in 0..n /\ i \in 1..(n+m)
    BY <2>2, <1>1 DEF IsStatement
  <2>4. E[i-1] = C[i-1]
    BY <2>2, <2>3
  <2>5. C[i] = C[i-1] + c[i] /\ E[i] = E[i-1] + e[i] /\ e[i] = c[i]
    BY <2>3, <1>1 DEF IsStatement
  <2> QED
    BY <2>2, <2>4, <2>5
<1>3. Late = {}
  <2>1. SUFFICES ASSUME Late # {} PROVE FALSE
    OBVIOUS
  <2>2. PICK i \in Late : \A y \in Late : i <= y
    BY <2>1, LeastElement, Late \in SUBSET Nat
  <2>3. C[n] \in Int /\ D[0] = 0
    BY <1>1 DEF IsStatement
  <2>4. E[n] = C[n]
    BY <1>2, n \in 0..n
  <2>5. i # 0
    BY <2>2, <2>3, <2>4
  <2>6. i \in 1..m /\ i-1 \in 0..m /\ n+i \in 1..(n+m) /\ n+(i-1) = (n+i)-1
    BY <2>2, <2>5
  <2>7. E[(n+i)-1] = C[n] + D[i-1]
    BY <2>2, <2>6
  <2>8. D[i] = D[i-1] + d[i] /\ E[n+i] = E[(n+i)-1] + e[n+i] /\ e[n+i] = d[i]
    BY <2>6, <1>1 DEF IsStatement
  <2>9. D[i-1] \in Int /\ d[i] \in Int
    BY <2>6, <1>1 DEF IsStatement
  <2> QED
    BY <2>2, <2>3, <2>7, <2>8, <2>9
<1>4. E[n+m] = C[n] + D[m]
  BY <1>3, m \in 0..m
<1> QED
  BY <1>4 DEF Total, C, D, E

\* The total of one line is that line.
LEMMA TotalOne ==
  ASSUME NEW c \in [1..1 -> Int]
  PROVE  Total(1, c) = c[1]
<1>1. 1 \in Nat /\ 1 \in 1..1 /\ \A i \in 1..1 \ {1} : c[i] = 0
  OBVIOUS
<1> QED
  BY <1>1, TotalSingle

\* The total of a table is its first line and the total of the others.
LEMMA TotalFirst ==
  ASSUME NEW n \in Nat, n # 0, NEW c \in [1..n -> Int]
  PROVE  Total(n, c) = c[1] + Total(n-1, [i \in 1..(n-1) |-> c[i+1]])
<1> DEFINE first == [i \in 1..1 |-> c[1]]
           rest  == [i \in 1..(n-1) |-> c[i+1]]
<1>1. first \in [1..1 -> Int] /\ rest \in [1..(n-1) -> Int] /\ n-1 \in Nat
  OBVIOUS
<1>2. /\ \A i \in 1..1 : c[i] = first[i]
      /\ \A i \in 1..(n-1) : c[1+i] = rest[i]
  OBVIOUS
<1>3. 1 + (n-1) = n /\ first[1] = c[1]
  OBVIOUS
<1> HIDE DEF first, rest
<1>4. c \in [1..(1+(n-1)) -> Int]
  BY <1>3
<1>5. Total(1+(n-1), c) = Total(1, first) + Total(n-1, rest)
  BY <1>1, <1>2, <1>4, TotalConcat
<1>6. Total(n, c) = c[1] + Total(n-1, rest)
  BY <1>1, <1>3, <1>5, TotalOne
<1> QED
  BY <1>6 DEF rest

\* Blank lines before or after a table do not change its total.
LEMMA TotalAfterBlanks ==
  ASSUME NEW n \in Nat, NEW m \in Nat, NEW c \in [1..m -> Int],
         NEW e \in [1..(n+m) -> Int],
         \A i \in 1..n : e[i] = 0,
         \A i \in 1..m : e[n+i] = c[i]
  PROVE  Total(n+m, e) = Total(m, c)
<1> DEFINE blank == [i \in 1..n |-> 0]
<1>1. /\ blank \in [1..n -> Int]
      /\ \A i \in 1..n : e[i] = blank[i]
      /\ \A i \in 1..n : blank[i] = 0
  OBVIOUS
<1> HIDE DEF blank
<1>2. Total(n+m, e) = Total(n, blank) + Total(m, c)
  BY <1>1, TotalConcat
<1>3. Total(n, blank) = 0 /\ Total(m, c) \in Int
  BY <1>1, TotalZero, TotalInt
<1> QED
  BY <1>2, <1>3

\* The same of blank lines at the end.
LEMMA TotalBeforeBlanks ==
  ASSUME NEW n \in Nat, NEW m \in Nat, NEW c \in [1..n -> Int],
         NEW e \in [1..(n+m) -> Int],
         \A i \in 1..n : e[i] = c[i],
         \A i \in 1..m : e[n+i] = 0
  PROVE  Total(n+m, e) = Total(n, c)
<1> DEFINE blank == [i \in 1..m |-> 0]
<1>1. /\ blank \in [1..m -> Int]
      /\ \A i \in 1..m : e[n+i] = blank[i]
      /\ \A i \in 1..m : blank[i] = 0
  OBVIOUS
<1> HIDE DEF blank
<1>2. Total(n+m, e) = Total(n, c) + Total(m, blank)
  BY <1>1, TotalConcat, ZenonT(60)
<1>3. Total(m, blank) = 0 /\ Total(n, c) \in Int
  BY <1>1, TotalZero, TotalInt
<1> QED
  BY <1>2, <1>3

\* The lines of c, moved down by m lines, in a table of n.
Shifted(n, m, l, c) == [i \in 1..n |-> IF i \in (m+1)..(m+l) THEN c[i-m] ELSE 0]

\* A table moved down keeps its total.
LEMMA TotalShift ==
  ASSUME NEW n \in Nat, NEW m \in Nat, NEW l \in Nat, m + l <= n,
         NEW c \in [1..l -> Int]
  PROVE  Total(n, Shifted(n, m, l, c)) = Total(l, c)
<1>0. PICK e : /\ e = Shifted(n, m, l, c)
               /\ e = [i \in 1..n |-> IF i \in (m+1)..(m+l) THEN c[i-m] ELSE 0]
  BY DEF Shifted
<1> DEFINE head == [i \in 1..(m+l) |-> IF i <= m THEN 0 ELSE c[i-m]]
<1>1. PICK k \in Nat : (m + l) + k = n
  <2>1. n - (m + l) \in Nat /\ (m + l) + (n - (m + l)) = n
    OBVIOUS
  <2> QED
    BY <2>1
<1>2. /\ head \in [1..(m+l) -> Int] /\ m + l \in Nat
      /\ e \in [1..((m+l)+k) -> Int]
  BY <1>0, <1>1
<1>3. /\ \A i \in 1..m : head[i] = 0
      /\ \A i \in 1..l : head[m+i] = c[i]
  OBVIOUS
<1>4. /\ \A i \in 1..(m+l) : e[i] = head[i]
      /\ \A i \in 1..k : e[(m+l)+i] = 0
  BY <1>0, <1>1
<1> HIDE DEF head
<1>5. Total(m+l, head) = Total(l, c)
  BY ZenonT(60), <1>2, <1>3, TotalAfterBlanks
<1>6. Total((m+l)+k, e) = Total(m+l, head)
  BY <1>2, <1>4, TotalBeforeBlanks
<1> QED
  BY <1>0, <1>1, <1>5, <1>6

\* The opposite lines have the opposite total.
LEMMA TotalMinus ==
  ASSUME NEW n \in Nat, NEW c \in [1..n -> Int], NEW d \in [1..n -> Int],
         \A i \in 1..n : d[i] = - c[i]
  PROVE  Total(n, d) = - Total(n, c)
<1> DEFINE zero == [i \in 1..n |-> 0]
<1>1. /\ zero \in [1..n -> Int] /\ \A i \in 1..n : zero[i] = 0
      /\ \A i \in 1..n : zero[i] = c[i] + d[i]
  OBVIOUS
<1> HIDE DEF zero
<1>2. Total(n, zero) = Total(n, c) + Total(n, d) /\ Total(n, zero) = 0
  BY <1>1, TotalSum, TotalZero
<1>3. Total(n, c) \in Int /\ Total(n, d) \in Int
  BY TotalInt
<1> QED
  BY <1>2, <1>3

\* The total of natural numbers is a natural number.
LEMMA TotalNat ==
  ASSUME NEW n \in Nat, NEW c \in [1..n -> Nat]
  PROVE  Total(n, c) \in Nat
<1> DEFINE C == Statement(n, c)
           Bad == {m \in 0..n : C[m] \notin Nat}
<1>1. IsStatement(n, c, C)
  <2>1. c \in [1..n -> Int]
    OBVIOUS
  <2> QED
    BY <2>1, StatementDef
<1> HIDE DEF C
<1>2. Bad = {}
  <2>1. SUFFICES ASSUME Bad # {} PROVE FALSE
    OBVIOUS
  <2>2. PICK m \in Bad : \A y \in Bad : m <= y
    BY <2>1, LeastElement, Bad \in SUBSET Nat
  <2>3. m \in 1..n /\ m-1 \in 0..n
    BY <2>2, <1>1 DEF IsStatement
  <2>4. C[m-1] \in Nat
    BY <2>2, <2>3
  <2>5. C[m] = C[m-1] + c[m] /\ c[m] \in Nat
    BY <2>3, <1>1 DEF IsStatement
  <2> QED
    BY <2>2, <2>4, <2>5
<1>3. C[n] \in Nat
  BY <1>2
<1> QED
  BY <1>3 DEF Total, C
=============================================================================
