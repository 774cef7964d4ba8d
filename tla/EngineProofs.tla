---------------------------- MODULE EngineProofs ----------------------------
(***************************************************************************)
(* Theorems about the engines and the views of their results (PdEngine and *)
(* Results, with EadEngine and Validators), for every staging history,     *)
(* every family of workbooks, every calendar and every size of the PD      *)
(* table.                                                                  *)
(***************************************************************************)
EXTENDS PdEngine, Results, ArithmeticLaws

-----------------------------------------------------------------------------
(* compute_pd: the rows and the matrix.                                    *)

LEMMA PdDates ==
  ASSUME NEW d \in Dates
  PROVE  d[1] \in DOMAIN MonthDays /\ d[1] \in Int
<1>1. PICK m \in DOMAIN MonthDays, n \in 1..31 : d = <<m, n>>
  BY PdAssumption
<1>2. DOMAIN MonthDays = 1..Len(MonthDays) /\ Len(MonthDays) \in Nat
  BY MonthDaysAssumption
<1>3. QED BY <1>1, <1>2

LEMMA KeyParts ==
  ASSUME NEW k \in Keys
  PROVE  k = <<k[1], k[2]>> /\ k[1] \in Loans /\ k[2] \in Dates
BY DEF Keys

\* The joined rows of the transitions from stage i to stage j.
Moves(i, j) == {r \in Joined : history[r[1]] = i /\ r[3] = j}

LEMMA MoveIs ==
  ASSUME NEW i \in Stages, NEW j \in Stages
  PROVE  /\ \A r \in Moves(i, j) : \E k, n \in Keys :
               /\ r = <<k, n, history[n]>> /\ history[k] = i /\ history[n] = j
               /\ n[1] = k[1] /\ AddMonths(n[2], -1) = k[2]
         /\ \A k, n \in Keys :
               history[k] = i /\ history[n] = j /\ n[1] = k[1] /\ AddMonths(n[2], -1) = k[2]
                 => <<k, n, history[n]>> \in Moves(i, j)
<1>1. i # Absent /\ j # Absent /\ j # Offbooks
  BY DEF Stages, Absent, Offbooks
<1>2. ASSUME NEW r \in Moves(i, j)
      PROVE  \E k, n \in Keys : /\ r = <<k, n, history[n]>> /\ history[k] = i /\ history[n] = j
                                /\ n[1] = k[1] /\ AddMonths(n[2], -1) = k[2]
  <2>1. r \in Joined /\ history[r[1]] = i /\ r[3] = j
    BY DEF Moves
  <2>2. PICK k \in Keys : r \in IF NextRows(k) = {} THEN {<<k, <<>>, Offbooks>>}
                                ELSE {<<k, n, history[n]>> : n \in NextRows(k)}
    BY <2>1 DEF Joined
  <2>3. PICK n \in NextRows(k) : r = <<k, n, history[n]>>
    <3>1. r # <<k, <<>>, Offbooks>>
      <4>1. <<k, <<>>, Offbooks>>[3] = Offbooks
        OBVIOUS
      <4>2. QED BY <1>1, <2>1, <4>1
    <3>2. QED BY <2>2, <3>1
  <2>4. r[1] = k /\ r[3] = history[n]
    BY <2>3
  <2>5. QED BY <2>1, <2>3, <2>4 DEF NextRows
<1>3. ASSUME NEW k \in Keys, NEW n \in Keys, history[k] = i, history[n] = j, n[1] = k[1],
             AddMonths(n[2], -1) = k[2]
      PROVE  <<k, n, history[n]>> \in Moves(i, j)
  <2>1. n \in NextRows(k) /\ NextRows(k) # {}
    BY <1>1, <1>3 DEF NextRows
  <2>2. <<k, n, history[n]>> \in Joined
    BY <1>1, <1>3, <2>1 DEF Joined
  <2>3. QED BY <1>3, <2>2 DEF Moves
<1>4. QED BY <1>2, <1>3

LEMMA KeysFinite == IsFiniteSet(Keys)
BY PdAssumption, FS_Product DEF Keys

LEMMA MovesFinite ==
  ASSUME NEW i \in Stages, NEW j \in Stages
  PROVE  IsFiniteSet(Moves(i, j))
<1> DEFINE P == Keys \X Keys
           A == {<<p[1], p[2], history[p[2]]>> : p \in P}
           f == [p \in P |-> <<p[1], p[2], history[p[2]]>>]
<1>1. IsFiniteSet(P)
  BY KeysFinite, FS_Product
<1>2. f \in Surjection(P, A)
  BY DEF Surjection
<1>3. IsFiniteSet(A)
  <2> HIDE DEF P, A, f
  <2>1. QED BY <1>1, <1>2, FS_Surjection
<1>4. Moves(i, j) \subseteq A
  <2>1. SUFFICES ASSUME NEW r \in Moves(i, j) PROVE r \in A
    OBVIOUS
  <2>2. PICK k, n \in Keys : r = <<k, n, history[n]>>
    BY MoveIs
  <2>3. PICK p \in P : p = <<k, n>>
    OBVIOUS
  <2>4. QED BY <2>2, <2>3
<1>5. QED BY <1>3, <1>4, FS_Subset

LEMMA AggregateIs ==
  ASSUME NEW i \in Stages, NEW j \in Stages
  PROVE  /\ Aggregate(i, j) = SumFunctionOnSet([r \in Moves(i, j) |-> Amount[r[1][1]]], Moves(i, j))
         /\ \A r \in Moves(i, j) : r[1][1] \in Loans /\ Amount[r[1][1]] \in Nat
         /\ Aggregate(i, j) \in Nat
<1>1. Aggregate(i, j) = SumFunctionOnSet([r \in Moves(i, j) |-> Amount[r[1][1]]], Moves(i, j))
  BY DEF Aggregate, Moves, SumFunction
<1>2. ASSUME NEW r \in Moves(i, j) PROVE r[1][1] \in Loans /\ Amount[r[1][1]] \in Nat
  <2>1. PICK k \in Keys : r[1] = k
    BY MoveIs
  <2>2. QED BY <2>1, KeyParts, PdAssumption
<1>3. QED BY <1>1, <1>2, MovesFinite, SumNat

PdShape ==
  /\ step \in {"combine", "matrix", "normalize", "power", "done"}
  /\ files \in [1..2 -> Histories] /\ history \in Histories
  /\ step # "combine" => \A k \in Keys : history[k] = FirstRow(k)
  /\ matrix \in [Stages -> [Stages -> Nat]]
  /\ step \notin {"combine", "matrix"} => \A i, j \in Stages : matrix[i][j] = Aggregate(i, j)

LEMMA PdShapeInit == PdInit => PdShape
<1>1. SUFFICES ASSUME PdInit PROVE PdShape
  OBVIOUS
<1>2. PICK first \in Histories, e \in [Extra -> Stages \cup {Absent}] :
        files = <<first, [k \in Keys |-> IF k \in Extra THEN e[k] ELSE Absent]>>
  BY <1>1 DEF PdInit
<1>3. PICK second : second = [k \in Keys |-> IF k \in Extra THEN e[k] ELSE Absent]
  OBVIOUS
<1>4. second \in Histories
  BY <1>3 DEF Histories
<1>5. files \in [1..2 -> Histories]
  BY <1>2, <1>3, <1>4
<1>6. history \in Histories
  BY <1>1 DEF PdInit, Histories
<1>7. matrix \in [Stages -> [Stages -> Nat]]
  BY <1>1 DEF PdInit, Zero
<1>8. QED BY <1>1, <1>5, <1>6, <1>7 DEF PdInit, PdShape

LEMMA PdShapeNext ==
  ASSUME PdShape, [PdNext]_pdVars
  PROVE  PdShape'
<1> USE DEF PdShape
<1>1. ASSUME UNCHANGED <<files, history>>
      PROVE  /\ \A k \in Keys : FirstRow(k)' = FirstRow(k)
             /\ \A i, j \in Stages : Aggregate(i, j)' = Aggregate(i, j)
  BY <1>1 DEF FirstRow, Aggregate, Joined, NextRows
<1>2. ASSUME UNCHANGED <<files, history, matrix>>, step \notin {"combine", "matrix"},
             step' \in {"power", "done"}
      PROVE  PdShape'
  BY <1>1, <1>2
<1>3. ASSUME Combine PROVE PdShape'
  <2>1. \A k \in Keys : FirstRow(k) \in Stages \cup {Absent}
    BY DEF FirstRow, Histories
  <2>2. history' \in Histories /\ step' = "matrix" /\ files' = files /\ matrix' = matrix
    BY <1>3, <2>1 DEF Combine, Histories
  <2>3. \A k \in Keys : history'[k] = FirstRow(k) /\ FirstRow(k)' = FirstRow(k)
    BY <1>3, <2>2 DEF Combine, FirstRow
  <2>4. QED BY <2>2, <2>3
<1>4. ASSUME BuildMatrix PROVE PdShape'
  <2>1. step' = "normalize" /\ UNCHANGED <<files, history>> /\ step = "matrix"
    BY <1>4 DEF BuildMatrix
  <2>2. matrix' = [i \in Stages |-> [j \in Stages |-> Aggregate(i, j)]]
    BY <1>4 DEF BuildMatrix
  <2>3. \A i, j \in Stages : Aggregate(i, j) \in Nat
    BY AggregateIs
  <2>4. matrix' \in [Stages -> [Stages -> Nat]]
    BY <2>2, <2>3
  <2>5. QED BY <1>1, <2>1, <2>2, <2>4
<1>5. ASSUME Normalize PROVE PdShape'
  BY <1>2, <1>5 DEF Normalize
<1>6. ASSUME PowerMonth PROVE PdShape'
  BY <1>2, <1>6 DEF PowerMonth
<1>7. ASSUME Marginals PROVE PdShape'
  BY <1>2, <1>7 DEF Marginals
<1>8. ASSUME UNCHANGED pdVars PROVE PdShape'
  BY <1>1, <1>8 DEF pdVars
<1>9. QED BY <1>3, <1>4, <1>5, <1>6, <1>7, <1>8 DEF PdNext

LEMMA PdShaped == PdSpec => []PdShape
BY PdShapeInit, PdShapeNext, PTL DEF PdSpec

-----------------------------------------------------------------------------
(* The transitions a matrix counts.                                        *)

\* Every month has one date, and moved back a month it is the date before.
OnceAMonth ==
  /\ \A d, e \in Dates : d[1] = e[1] => d = e
  /\ \A d, e \in Dates : e[1] = d[1] + 1 => AddMonths(e, -1) = d

LEMMA StageInMonth ==
  ASSUME OnceAMonth, PdShape, NEW l \in Loans
  PROVE  /\ \A d \in Dates : StageIn(l, d[1]) = FirstRow(<<l, d>>)
         /\ \A m : StageIn(l, m) # Absent => \E d \in Dates : d[1] = m
<1>1. ASSUME NEW d \in Dates PROVE StageIn(l, d[1]) = FirstRow(<<l, d>>)
  <2> DEFINE in(f) == {e \in Dates : e[1] = d[1] /\ files[f][<<l, e>>] # Absent}
  <2>1. \A f : in(f) = IF files[f][<<l, d>>] # Absent THEN {d} ELSE {}
    BY DEF OnceAMonth
  <2>2. (CHOOSE e \in {d} : TRUE) = d
    OBVIOUS
  <2>3. StageIn(l, d[1]) = IF in(1) # {} THEN files[1][<<l, CHOOSE e \in in(1) : TRUE>>]
                           ELSE IF in(2) # {} THEN files[2][<<l, CHOOSE e \in in(2) : TRUE>>] ELSE Absent
    BY Zenon DEF StageIn
  <2> HIDE DEF in
  <2>4. StageIn(l, d[1]) = IF files[1][<<l, d>>] # Absent THEN files[1][<<l, d>>]
                           ELSE IF files[2][<<l, d>>] # Absent THEN files[2][<<l, d>>] ELSE Absent
    <3>1. CASE files[1][<<l, d>>] # Absent
      BY <2>1, <2>2, <2>3, <3>1
    <3>2. CASE files[1][<<l, d>>] = Absent /\ files[2][<<l, d>>] # Absent
      BY <2>1, <2>2, <2>3, <3>2
    <3>3. CASE files[1][<<l, d>>] = Absent /\ files[2][<<l, d>>] = Absent
      BY <2>1, <2>2, <2>3, <3>3
    <3>4. QED BY <3>1, <3>2, <3>3
  <2>5. QED BY <2>4 DEF FirstRow
<1>2. ASSUME NEW m, StageIn(l, m) # Absent PROVE \E d \in Dates : d[1] = m
  BY <1>2 DEF StageIn
<1>3. QED BY <1>1, <1>2

LEMMA CountedOnce ==
  ASSUME OnceAMonth, PdShape, step # "combine", NEW i \in Stages, NEW j \in Stages
  PROVE  Aggregate(i, j) =
           SumFunction([p \in {p \in Loans \X DOMAIN MonthDays :
                                 StageIn(p[1], p[2]) = i /\ StageIn(p[1], p[2] + 1) = j} |-> Amount[p[1]]])
<1> DEFINE B == {p \in Loans \X DOMAIN MonthDays : StageIn(p[1], p[2]) = i /\ StageIn(p[1], p[2] + 1) = j}
           f == [r \in Moves(i, j) |-> <<r[1][1], r[1][2][1]>>]
           u == [r \in Moves(i, j) |-> Amount[r[1][1]]]
           v == [p \in B |-> Amount[p[1]]]
<1>1. i # Absent /\ j # Absent
  BY DEF Stages, Absent
\* What a joined row stands for.
<1>2. ASSUME NEW r \in Moves(i, j)
      PROVE  \E l \in Loans : \E d, e \in Dates :
               /\ r = <<<<l, d>>, <<l, e>>, history[<<l, e>>]>>
               /\ history[<<l, d>>] = i /\ history[<<l, e>>] = j /\ e[1] = d[1] + 1
  <2>1. PICK k, n \in Keys : /\ r = <<k, n, history[n]>> /\ history[k] = i /\ history[n] = j
                             /\ n[1] = k[1] /\ AddMonths(n[2], -1) = k[2]
    BY MoveIs
  <2>2. PICK l \in Loans, d \in Dates : k = <<l, d>>
    BY KeyParts
  <2>3. PICK e \in Dates : n = <<l, e>>
    BY <2>1, <2>2, KeyParts
  <2>4. AddMonths(e, -1) = d
    BY <2>1, <2>2, <2>3
  <2>5. e[1] + (-1) = d[1]
    BY <2>4 DEF AddMonths
  <2>6. e[1] = d[1] + 1
    BY ONLY <2>5, PdDates, d \in Dates, e \in Dates
  <2>7. QED BY <2>1, <2>2, <2>3, <2>6
<1>3. \A r \in Moves(i, j) : f[r] \in B
  <2>1. SUFFICES ASSUME NEW r \in Moves(i, j) PROVE f[r] \in B
    OBVIOUS
  <2>2. PICK l \in Loans, d \in Dates, e \in Dates :
          /\ r = <<<<l, d>>, <<l, e>>, history[<<l, e>>]>>
          /\ history[<<l, d>>] = i /\ history[<<l, e>>] = j /\ e[1] = d[1] + 1
    BY <1>2
  <2>3. f[r] = <<l, d[1]>>
    BY <2>2
  <2>4. <<l, d>> \in Keys /\ <<l, e>> \in Keys
    BY DEF Keys
  <2>5. StageIn(l, d[1]) = i /\ StageIn(l, d[1] + 1) = j
    <3>1. StageIn(l, d[1]) = FirstRow(<<l, d>>) /\ StageIn(l, e[1]) = FirstRow(<<l, e>>)
      BY StageInMonth
    <3>2. history[<<l, d>>] = FirstRow(<<l, d>>) /\ history[<<l, e>>] = FirstRow(<<l, e>>)
      BY <2>4 DEF PdShape
    <3>3. QED BY <2>2, <3>1, <3>2
  <2>6. d[1] \in DOMAIN MonthDays
    BY PdDates
  <2>7. QED BY <2>3, <2>5, <2>6
<1>4. \A q, r \in Moves(i, j) : f[q] = f[r] => q = r
  <2>1. SUFFICES ASSUME NEW q \in Moves(i, j), NEW r \in Moves(i, j), f[q] = f[r] PROVE q = r
    OBVIOUS
  <2>2. PICK l \in Loans, d \in Dates, e \in Dates :
          r = <<<<l, d>>, <<l, e>>, history[<<l, e>>]>> /\ e[1] = d[1] + 1
    BY <1>2
  <2>3. PICK l2 \in Loans, d2 \in Dates, e2 \in Dates :
          q = <<<<l2, d2>>, <<l2, e2>>, history[<<l2, e2>>]>> /\ e2[1] = d2[1] + 1
    BY <1>2, ZenonT(60)
  <2>4. f[r] = <<l, d[1]>> /\ f[q] = <<l2, d2[1]>>
    BY <2>2, <2>3
  <2>5. l = l2 /\ d[1] = d2[1]
    BY <2>1, <2>4
  <2>6. d = d2
    BY <2>5 DEF OnceAMonth
  <2>7. e = e2
    BY <2>2, <2>3, <2>5 DEF OnceAMonth
  <2>8. QED BY <2>2, <2>3, <2>5, <2>6, <2>7
<1>5. B \subseteq {f[r] : r \in Moves(i, j)}
  <2>1. SUFFICES ASSUME NEW p \in B PROVE \E r \in Moves(i, j) : f[r] = p
    OBVIOUS
  <2>2. PICK l \in Loans, m \in DOMAIN MonthDays : p = <<l, m>>
    OBVIOUS
  <2>3. StageIn(l, m) = i /\ StageIn(l, m + 1) = j
    BY <2>2
  <2>4. PICK d \in Dates, e \in Dates : d[1] = m /\ e[1] = m + 1
    BY <1>1, <2>3, StageInMonth
  <2>5. <<l, d>> \in Keys /\ <<l, e>> \in Keys
    BY DEF Keys
  <2>6. history[<<l, d>>] = i /\ history[<<l, e>>] = j
    <3>1. StageIn(l, d[1]) = FirstRow(<<l, d>>) /\ StageIn(l, e[1]) = FirstRow(<<l, e>>)
      BY StageInMonth
    <3>2. history[<<l, d>>] = FirstRow(<<l, d>>) /\ history[<<l, e>>] = FirstRow(<<l, e>>)
      BY <2>5 DEF PdShape
    <3>3. QED BY <2>3, <2>4, <3>1, <3>2
  <2>7. AddMonths(e, -1) = d
    BY <2>4 DEF OnceAMonth
  <2>8. <<<<l, d>>, <<l, e>>, history[<<l, e>>]>> \in Moves(i, j)
    <3>1. PICK k, n \in Keys : k = <<l, d>> /\ n = <<l, e>>
      BY <2>5
    <3>2. n[1] = k[1] /\ AddMonths(n[2], -1) = k[2]
      BY <2>7, <3>1
    <3>3. QED BY <2>6, <3>1, <3>2, MoveIs
  <2>9. QED BY <2>2, <2>4, <2>8
<1>6. \A r \in Moves(i, j) : u[r] \in Int /\ u[r] = v[f[r]]
  <2>1. SUFFICES ASSUME NEW r \in Moves(i, j) PROVE u[r] \in Int /\ u[r] = v[f[r]]
    OBVIOUS
  <2>2. u[r] = Amount[r[1][1]] /\ Amount[r[1][1]] \in Int
    <3>1. Amount[r[1][1]] \in Nat
      BY ONLY AggregateIs, i \in Stages, j \in Stages, r \in Moves(i, j), Zenon
    <3>2. u[r] = Amount[r[1][1]]
      OBVIOUS
    <3>3. QED BY ONLY <3>1, <3>2
  <2>3. f[r] = <<r[1][1], r[1][2][1]>>
    OBVIOUS
  <2>4. v[f[r]] = Amount[r[1][1]]
    BY <1>3, <2>3
  <2>5. QED BY <2>2, <2>4
<1>7. {f[r] : r \in Moves(i, j)} = B
  BY <1>3, <1>5
<1>8. Aggregate(i, j) = SumFunctionOnSet(u, Moves(i, j)) /\ SumFunction(v) = SumFunctionOnSet(v, B)
  BY AggregateIs DEF SumFunction
<1>9. SumFunctionOnSet(u, Moves(i, j)) = SumFunctionOnSet(v, B)
  <2> HIDE DEF f, u, v, B
  <2>1. QED BY <1>4, <1>6, <1>7, MovesFinite, SumMoves
<1>10. QED BY <1>8, <1>9

\* The matrix counts every transition of a loan from one month to the next exactly once, in a book
\* with one reporting date per month that is the same day of the month before, or its last one.
THEOREM TransitionsCountedOnce ==
  ASSUME OnceAMonth
  PROVE  PdSpec => []MatrixCountsTransitions
<1>1. PdShape => MatrixCountsTransitions
  BY CountedOnce DEF MatrixCountsTransitions, PdShape
<1>2. QED BY <1>1, PdShaped, PTL

\* So does a book that reports on the same day of every month, up to the 28th.
COROLLARY FixedDayCountsOnce ==
  ASSUME NEW day \in 1..28, Dates \subseteq {<<m, day>> : m \in DOMAIN MonthDays}
  PROVE  PdSpec => []MatrixCountsTransitions
<1>1. /\ Len(MonthDays) \in Nat /\ DOMAIN MonthDays = 1..Len(MonthDays)
      /\ \A m \in DOMAIN MonthDays : MonthDays[m] \in 28..31
  BY MonthDaysAssumption
<1>2. \A d \in Dates : d = <<d[1], day>> /\ d[1] \in DOMAIN MonthDays
  OBVIOUS
<1>3. ASSUME NEW d \in Dates, NEW e \in Dates, e[1] = d[1] + 1 PROVE AddMonths(e, -1) = d
  <2>1. PICK m \in DOMAIN MonthDays : m = d[1] /\ e[1] + (-1) = m /\ e[2] = day /\ d = <<m, day>>
    BY <1>1, <1>2, <1>3
  <2>2. Min({day, MonthDays[m]}) = day
    <3>1. PICK l \in 28..31 : l = MonthDays[m]
      BY <1>1
    <3>2. day \in Int /\ l \in Int /\ day <= l
      OBVIOUS
    <3>3. QED BY <3>1, <3>2, MinOfTwo
  <2>3. QED BY <2>1, <2>2 DEF AddMonths
<1>4. OnceAMonth
  BY <1>2, <1>3 DEF OnceAMonth
<1>5. QED BY <1>4, TransitionsCountedOnce

-----------------------------------------------------------------------------
(* The powers of the matrix and the marginal probabilities.                *)

LEMMA NatProduct == ASSUME NEW a \in Nat, NEW b \in Nat PROVE a * b \in Nat
OBVIOUS

LEMMA ProductAtMost ==
  ASSUME NEW a \in Nat, NEW b \in Int, NEW c \in Int, b <= c
  PROVE  a * b <= a * c
OBVIOUS

\* A matrix of naturals whose rows add up to at most t.
Within(a, t) ==
  /\ \A i, j \in Stages : a[i][j] \in Nat
  /\ \A i \in Stages : a[i][1] + a[i][2] + a[i][3] <= t

LEMMA OrOnePositive == ASSUME NEW n \in Nat PROVE OrOne(n) \in Nat \ {0} /\ n <= OrOne(n)
BY DEF OrOne

\* The total of a row divides the scale.
LEMMA ScaleParts ==
  ASSUME matrix \in [Stages -> [Stages -> Nat]]
  PROVE  /\ scale \in Nat \ {0}
         /\ \A i \in Stages : \E q \in Nat :
              /\ scale \div OrOne(RowTotal(matrix, i)) = q
              /\ OrOne(RowTotal(matrix, i)) * q = scale
              /\ RowTotal(matrix, i) * q <= scale
<1>1. \A i \in Stages : RowTotal(matrix, i) \in Nat
  BY DEF RowTotal, Stages
<1>2. PICK a, b, c \in Nat \ {0} : /\ a = OrOne(RowTotal(matrix, 1)) /\ b = OrOne(RowTotal(matrix, 2))
                                   /\ c = OrOne(RowTotal(matrix, 3))
  BY <1>1, OrOnePositive, SMTT(40) DEF Stages
<1>3. scale = a * b * c
  BY <1>2 DEF scale
<1>4. \A x, y \in Nat \ {0} : x * y \in Nat \ {0}
  OBVIOUS
<1>5. a * b \in Nat \ {0} /\ a * c \in Nat \ {0} /\ b * c \in Nat \ {0}
  BY <1>4
<1>6. a * b * c \in Nat \ {0}
  BY <1>4, <1>5
<1>7. \A x, y \in Nat \ {0} : (x * y) \div x = y
  OBVIOUS
<1>8. a * b * c = a * (b * c) /\ a * b * c = b * (a * c) /\ a * b * c = c * (a * b)
  OBVIOUS
<1>9. ASSUME NEW i \in Stages PROVE \E q \in Nat : OrOne(RowTotal(matrix, i)) * q = scale
                                    /\ scale \div OrOne(RowTotal(matrix, i)) = q
  <2>1. CASE i = 1
    BY <1>2, <1>3, <1>5, <1>7, <1>8, <2>1
  <2>2. CASE i = 2
    BY <1>2, <1>3, <1>5, <1>7, <1>8, <2>2
  <2>3. CASE i = 3
    BY <1>2, <1>3, <1>5, <1>7, <1>8, <2>3
  <2>4. QED BY <2>1, <2>2, <2>3 DEF Stages
<1>10. ASSUME NEW i \in Stages
       PROVE  \E q \in Nat : /\ scale \div OrOne(RowTotal(matrix, i)) = q
                             /\ OrOne(RowTotal(matrix, i)) * q = scale
                             /\ RowTotal(matrix, i) * q <= scale
  <2>1. PICK q \in Nat : OrOne(RowTotal(matrix, i)) * q = scale
                         /\ scale \div OrOne(RowTotal(matrix, i)) = q
    BY <1>9
  <2>2. PICK t \in Nat, o \in Nat : t = RowTotal(matrix, i) /\ o = OrOne(RowTotal(matrix, i)) /\ t <= o
    BY <1>1, OrOnePositive
  <2>3. t * q <= o * q
    <3>1. q * t <= q * o
      BY <2>2, ProductAtMost
    <3>2. QED BY <3>1
  <2>4. QED BY <2>1, <2>2, <2>3
<1>11. QED BY <1>3, <1>6, <1>10

LEMMA NormalizedIs ==
  ASSUME matrix \in [Stages -> [Stages -> Nat]]
  PROVE  /\ Within(Normalized, scale)
         /\ Normalized[1][3] = 0
         /\ Normalized[3][1] = 0 /\ Normalized[3][2] = 0 /\ Normalized[3][3] = scale
<1>1. scale \in Nat \ {0}
  BY ScaleParts
<1>2. ASSUME NEW i \in Stages
      PROVE  /\ \A j \in Stages : Proportion(i, j) \in Nat
             /\ Proportion(i, 1) + Proportion(i, 2) + Proportion(i, 3) <= scale
  <2>1. PICK q \in Nat : /\ scale \div OrOne(RowTotal(matrix, i)) = q
                         /\ RowTotal(matrix, i) * q <= scale
    BY ScaleParts
  <2>2. PICK a, b, c \in Nat : a = matrix[i][1] /\ b = matrix[i][2] /\ c = matrix[i][3]
    BY DEF Stages
  <2>3. Proportion(i, 1) = a * q /\ Proportion(i, 2) = b * q /\ Proportion(i, 3) = c * q
    BY <2>1, <2>2 DEF Proportion
  <2>4. (a + b + c) * q <= scale
    BY <2>1, <2>2 DEF RowTotal
  <2>5. (a + b + c) * q = a * q + b * q + c * q
    OBVIOUS
  <2>6. a * q \in Nat /\ b * q \in Nat /\ c * q \in Nat
    BY NatProduct
  <2>7. QED BY <2>3, <2>4, <2>5, <2>6 DEF Stages
<1>3. /\ Normalized[1] = <<Proportion(1, 1), Proportion(1, 2) + Proportion(1, 3), 0>>
      /\ Normalized[2] = <<Proportion(2, 1), Proportion(2, 2), Proportion(2, 3)>>
      /\ Normalized[3] = <<0, 0, scale>>
  BY DEF Normalized, Stages
<1>4. \A j \in Stages : Normalized[1][j] \in Nat /\ Normalized[2][j] \in Nat /\ Normalized[3][j] \in Nat
  BY <1>1, <1>2, <1>3 DEF Stages
<1>5. Normalized[1][1] + Normalized[1][2] + Normalized[1][3] <= scale
  BY <1>1, <1>2, <1>3 DEF Stages
<1>6. Normalized[2][1] + Normalized[2][2] + Normalized[2][3] <= scale
  BY <1>1, <1>2, <1>3 DEF Stages
<1>7. Normalized[3][1] + Normalized[3][2] + Normalized[3][3] <= scale
  BY <1>1, <1>3
<1>8. QED BY <1>3, <1>4, <1>5, <1>6, <1>7 DEF Within, Stages

LEMMA TimesIs ==
  ASSUME NEW a, NEW b, NEW s \in Nat, NEW t \in Nat, Within(a, t), Within(b, s), b[3][3] = s
  PROVE  /\ Within(Times(a, b), s * t)
         /\ \A i \in Stages : s * a[i][3] <= Times(a, b)[i][3]
<1>1. ASSUME NEW i \in Stages, NEW j \in Stages PROVE Times(a, b)[i][j] \in Nat
  <2>1. PICK p, q, r \in Nat : p = a[i][1] * b[1][j] /\ q = a[i][2] * b[2][j] /\ r = a[i][3] * b[3][j]
    <3>1. \A k \in {1, 2, 3} : a[i][k] \in Nat /\ b[k][j] \in Nat
      BY DEF Within, Stages
    <3>2. a[i][1] * b[1][j] \in Nat /\ a[i][2] * b[2][j] \in Nat /\ a[i][3] * b[3][j] \in Nat
      BY <3>1, NatProduct
    <3>3. QED BY ONLY <3>2, Zenon
  <2>2. Times(a, b)[i][j] = p + q + r
    BY <2>1 DEF Times
  <2>3. QED BY <2>2
<1>2. ASSUME NEW i \in Stages
      PROVE  /\ Times(a, b)[i][1] + Times(a, b)[i][2] + Times(a, b)[i][3] <= s * t
             /\ s * a[i][3] <= Times(a, b)[i][3]
  <2>1. PICK x, y, z \in Nat : x = a[i][1] /\ y = a[i][2] /\ z = a[i][3]
    BY DEF Within, Stages
  <2>2. PICK b11, b12, b13 \in Nat : b11 = b[1][1] /\ b12 = b[1][2] /\ b13 = b[1][3]
    BY DEF Within, Stages
  <2>3. PICK b21, b22, b23 \in Nat : b21 = b[2][1] /\ b22 = b[2][2] /\ b23 = b[2][3]
    BY DEF Within, Stages
  <2>4. PICK b31, b32, b33 \in Nat : b31 = b[3][1] /\ b32 = b[3][2] /\ b33 = b[3][3]
    BY DEF Within, Stages
  <2>5. /\ Times(a, b)[i][1] = x * b11 + y * b21 + z * b31
        /\ Times(a, b)[i][2] = x * b12 + y * b22 + z * b32
        /\ Times(a, b)[i][3] = x * b13 + y * b23 + z * b33
    BY <2>1, <2>2, <2>3, <2>4 DEF Times, Stages
  <2>6. x + y + z <= t /\ b11 + b12 + b13 <= s /\ b21 + b22 + b23 <= s /\ b31 + b32 + b33 <= s /\ b33 = s
    BY <2>1, <2>2, <2>3, <2>4 DEF Within, Stages
  <2>7. x * (b11 + b12 + b13) <= x * s /\ y * (b21 + b22 + b23) <= y * s /\ z * (b31 + b32 + b33) <= z * s
    <3>1. PICK p1, p2, p3 \in Nat : p1 = b11 + b12 + b13 /\ p2 = b21 + b22 + b23 /\ p3 = b31 + b32 + b33
      OBVIOUS
    <3>2. p1 <= s /\ p2 <= s /\ p3 <= s
      BY <2>6, <3>1
    <3>3. x * p1 <= x * s
      BY ONLY <3>2, ProductAtMost, x \in Nat, p1 \in Nat, s \in Nat
    <3>4. y * p2 <= y * s
      BY ONLY <3>2, ProductAtMost, y \in Nat, p2 \in Nat, s \in Nat
    <3>5. z * p3 <= z * s
      BY ONLY <3>2, ProductAtMost, z \in Nat, p3 \in Nat, s \in Nat
    <3>6. QED BY ONLY <3>1, <3>3, <3>4, <3>5, Zenon
  <2>8. s * (x + y + z) <= s * t
    BY <2>6, ProductAtMost
  <2>9. s * (x + y + z) = x * s + y * s + z * s
    OBVIOUS
  <2>10. (x * b11 + y * b21 + z * b31) + (x * b12 + y * b22 + z * b32) + (x * b13 + y * b23 + z * b33)
           = x * (b11 + b12 + b13) + y * (b21 + b22 + b23) + z * (b31 + b32 + b33)
    OBVIOUS
  <2>11. x * b13 \in Nat /\ y * b23 \in Nat /\ z * b33 \in Nat
    BY NatProduct
  <2>12. z * b33 = s * z
    BY <2>6
  <2>13. s * z <= x * b13 + y * b23 + z * b33
    BY ONLY <2>11, <2>12
  <2>14. (x * b11 + y * b21 + z * b31) + (x * b12 + y * b22 + z * b32) + (x * b13 + y * b23 + z * b33) <= s * t
    <3>1. PICK u, v, w \in Int : u = x * (b11 + b12 + b13) /\ v = y * (b21 + b22 + b23) /\ w = z * (b31 + b32 + b33)
      OBVIOUS
    <3>2. PICK u2, v2, w2, k \in Int : u2 = x * s /\ v2 = y * s /\ w2 = z * s /\ k = s * t
      OBVIOUS
    <3>3. u + v + w <= k
      BY <2>7, <2>8, <2>9, <3>1, <3>2
    <3>4. QED BY <2>10, <3>1, <3>2, <3>3
  <2>15. QED BY <2>1, <2>5, <2>13, <2>14
<1>3. QED BY <1>1, <1>2 DEF Within

\* The matrix power and the cumulative probabilities of the months so far.
PowersKept ==
  /\ month \in Nat /\ cumulative \in Seq([Stages -> Nat]) /\ Len(cumulative) = month
  /\ month > 0 => /\ Within(power, Power(scale, month))
                  /\ \A i \in Stages : cumulative[month][i] = power[i][3]
  /\ \A m \in 1..month : \A i \in Stages : cumulative[m][i] <= Power(scale, m)
  /\ \A m \in 1..month : m > 1 => \A i \in Stages : scale * cumulative[m - 1][i] <= cumulative[m][i]

PdTable ==
  /\ PdShape
  /\ step \notin {"power", "done"} => month = 0
  /\ PowersKept
  /\ marginal = IF step = "done" THEN [m \in 1..MaxPdMonth |-> [i \in Stages |-> MarginalPd(i, m)]] ELSE <<>>
  /\ step = "done" => month = MaxPdMonth

LEMMA PdTableInit == PdInit => PdTable
<1>1. SUFFICES ASSUME PdInit PROVE PdTable
  OBVIOUS
<1>2. month = 0 /\ cumulative = <<>> /\ marginal = <<>> /\ step = "combine"
  BY <1>1 DEF PdInit
<1>3. PowersKept
  BY <1>2 DEF PowersKept
<1>4. QED BY <1>1, <1>2, <1>3, PdShapeInit DEF PdTable

\* One turn of the loop.
LEMMA PowerMonthKeeps ==
  ASSUME PdTable, PowerMonth
  PROVE  PowersKept'
<1>1. matrix \in [Stages -> [Stages -> Nat]] /\ PowersKept
  BY DEF PdTable, PdShape
<1>2. scale \in Nat \ {0} /\ Within(Normalized, scale) /\ Normalized[1][3] = 0 /\ Normalized[3][3] = scale
  BY <1>1, ScaleParts, NormalizedIs
<1>3. matrix' = matrix /\ month' = month + 1 /\ step' = step
  BY DEF PowerMonth
<1>4. PICK s \in Nat \ {0} : s = scale /\ s = scale'
  BY <1>2, <1>3 DEF scale, RowTotal
<1>5. PICK w \in Nat \ {0} : w = Power(s, month) /\ Power(s, month + 1) = s * w
  BY <1>1, <1>4, PowerPositive, PowerNext DEF PowersKept
<1>6. PICK P : P = power'
  OBVIOUS
<1>7. /\ Within(P, s * w)
      /\ month > 0 => \A i \in Stages : s * cumulative[month][i] <= P[i][3]
  <2>1. CASE month = 0
    <3>1. P = Normalized
      BY <1>6, <2>1 DEF PowerMonth
    <3>2. w = 1
      BY <1>5, <2>1, PowerZero
    <3>3. QED BY <1>2, <1>4, <2>1, <3>1, <3>2
  <2>2. CASE month # 0
    <3>1. P = Times(power, Normalized) /\ month > 0
      BY <1>1, <1>6, <2>2 DEF PowerMonth, PowersKept
    <3>2. Within(power, w) /\ \A i \in Stages : cumulative[month][i] = power[i][3]
      BY <1>1, <1>4, <1>5, <3>1 DEF PowersKept
    <3>3. Within(Times(power, Normalized), s * w) /\ \A i \in Stages : s * power[i][3] <= Times(power, Normalized)[i][3]
      <4>1. PICK N : N = Normalized
        OBVIOUS
      <4>2. Within(N, s) /\ N[3][3] = s
        BY <1>2, <1>4, <4>1
      <4>3. QED BY <3>2, <4>1, <4>2, TimesIs
    <3>4. QED BY <3>1, <3>2, <3>3
  <2>3. QED BY <2>1, <2>2
<1>8. PICK row : row = [i \in Stages |-> P[i][3]]
  OBVIOUS
<1>9. cumulative' = Append(cumulative, row)
  BY <1>6, <1>8 DEF PowerMonth
<1>10. row \in [Stages -> Nat] /\ \A i \in Stages : row[i] <= s * w
  <2>1. SUFFICES ASSUME NEW i \in Stages PROVE P[i][3] \in Nat /\ P[i][3] <= s * w
    BY <1>8
  <2>2. PICK x, y, z \in Nat : x = P[i][1] /\ y = P[i][2] /\ z = P[i][3] /\ x + y + z <= s * w
    BY <1>7 DEF Within, Stages
  <2>3. s * w \in Nat
    OBVIOUS
  <2>4. QED BY ONLY <2>2, <2>3
<1>11. PICK n \in Nat : n = month
  BY <1>1 DEF PowersKept
<1>12. /\ cumulative' \in Seq([Stages -> Nat]) /\ Len(cumulative') = n + 1
       /\ \A m \in 1..n : cumulative'[m] = cumulative[m]
       /\ cumulative'[n + 1] = row
  BY <1>1, <1>9, <1>10, <1>11 DEF PowersKept
<1>13. \A m \in 1..(n + 1) : \A i \in Stages : cumulative'[m][i] <= Power(s, m)
  <2>1. SUFFICES ASSUME NEW m \in 1..(n + 1), NEW i \in Stages PROVE cumulative'[m][i] <= Power(s, m)
    OBVIOUS
  <2>2. CASE m = n + 1
    BY <1>5, <1>10, <1>11, <1>12, <2>2
  <2>3. CASE m \in 1..n
    BY <1>1, <1>4, <1>11, <1>12, <2>3 DEF PowersKept
  <2>4. QED BY <2>2, <2>3
<1>14. \A m \in 1..(n + 1) : m > 1 => \A i \in Stages : s * cumulative'[m - 1][i] <= cumulative'[m][i]
  <2>1. SUFFICES ASSUME NEW m \in 1..(n + 1), m > 1, NEW i \in Stages
                 PROVE  s * cumulative'[m - 1][i] <= cumulative'[m][i]
    OBVIOUS
  <2>2. m - 1 \in 1..n /\ cumulative'[m - 1] = cumulative[m - 1]
    BY <1>12, <2>1
  <2>3. CASE m = n + 1
    <3>1. n > 0 /\ m - 1 = n
      BY <2>1, <2>3
    <3>2. cumulative'[m][i] = P[i][3] /\ cumulative'[m - 1][i] = cumulative[n][i]
      BY <1>8, <1>12, <2>2, <2>3, <3>1
    <3>3. QED BY <1>7, <1>11, <3>1, <3>2
  <2>4. CASE m \in 1..n
    BY <1>1, <1>4, <1>11, <1>12, <2>1, <2>2, <2>4 DEF PowersKept
  <2>5. QED BY <2>3, <2>4
<1>15. Within(P, Power(s, n + 1)) /\ \A i \in Stages : cumulative'[n + 1][i] = P[i][3]
  BY <1>5, <1>7, <1>8, <1>11, <1>12
<1>16. PICK k, c, sc : k = month' /\ c = cumulative' /\ sc = scale'
  OBVIOUS
<1>17. k = n + 1 /\ sc = s
  BY <1>3, <1>4, <1>11, <1>16
<1>18. /\ k \in Nat /\ c \in Seq([Stages -> Nat]) /\ Len(c) = k
       /\ Within(P, Power(sc, k)) /\ \A i \in Stages : c[k][i] = P[i][3]
       /\ \A m \in 1..k : \A i \in Stages : c[m][i] <= Power(sc, m)
       /\ \A m \in 1..k : m > 1 => \A i \in Stages : sc * c[m - 1][i] <= c[m][i]
  BY <1>12, <1>13, <1>14, <1>15, <1>16, <1>17
<1>19. QED BY <1>6, <1>16, <1>18 DEF PowersKept, Within

LEMMA PdTableNext ==
  ASSUME PdTable, [PdNext]_pdVars
  PROVE  PdTable'
<1>1. PdShape'
  BY PdShapeNext DEF PdTable
<1>2. ASSUME UNCHANGED <<month, power, cumulative, matrix>> PROVE PowersKept'
  <2>1. scale' = scale
    BY <1>2 DEF scale, RowTotal
  <2>2. PowersKept
    BY DEF PdTable
  <2>3. QED BY <1>2, <2>1, <2>2 DEF PowersKept
<1>3. ASSUME step \in {"combine", "matrix", "normalize"}, UNCHANGED <<month, power, cumulative, marginal>>,
             step' # "done"
      PROVE  PdTable'
  <2>1. month = 0 /\ PowersKept
    BY <1>3 DEF PdTable
  <2>2. PowersKept'
    BY <1>3, <2>1 DEF PowersKept
  <2>3. marginal' = <<>>
    BY <1>3 DEF PdTable
  <2>4. QED BY <1>1, <1>3, <2>1, <2>2, <2>3 DEF PdTable
<1>4. ASSUME Combine \/ BuildMatrix \/ Normalize PROVE PdTable'
  BY <1>3, <1>4 DEF Combine, BuildMatrix, Normalize
<1>5. ASSUME PowerMonth PROVE PdTable'
  <2>1. step = "power" /\ step' = "power" /\ marginal' = marginal
    BY <1>5 DEF PowerMonth
  <2>2. QED BY <1>1, <1>5, <2>1, PowerMonthKeeps DEF PdTable
<1>6. ASSUME UNCHANGED <<matrix, cumulative>> PROVE \A i, m : MarginalPd(i, m)' = MarginalPd(i, m)
  <2>1. scale' = scale
    BY <1>6 DEF scale, RowTotal
  <2>2. QED BY <1>6, <2>1 DEF MarginalPd
<1>7. ASSUME Marginals PROVE PdTable'
  <2>1. step = "power" /\ step' = "done" /\ UNCHANGED <<matrix, month, power, cumulative>> /\ month = MaxPdMonth
    BY <1>7 DEF Marginals
  <2>2. marginal' = [m \in 1..MaxPdMonth |-> [i \in Stages |-> MarginalPd(i, m)']]
    BY <1>6, <1>7, <2>1 DEF Marginals
  <2>3. QED BY <1>1, <1>2, <2>1, <2>2 DEF PdTable
<1>8. ASSUME UNCHANGED pdVars PROVE PdTable'
  <2>1. UNCHANGED <<step, matrix, month, power, cumulative, marginal>>
    BY <1>8 DEF pdVars
  <2>2. \A i, m : MarginalPd(i, m)' = MarginalPd(i, m)
    BY <1>6, <2>1
  <2>3. PowersKept'
    BY <1>2, <2>1
  <2>4. QED BY <1>1, <2>1, <2>2, <2>3 DEF PdTable
<1>9. QED BY <1>4, <1>5, <1>7, <1>8 DEF PdNext

\* The arithmetic of one marginal probability: c of the s * w end up in default by the end of the
\* month, b of the w did before it.
Rebuilt(s, w, b, c) ==
  /\ w = b => c = s * w
  /\ c - s * b >= 0 /\ c - s * b <= s * (w - b)
  /\ w # b => s * (w - b) > 0
  /\ (w - b) * s * (s * (w - b) - (c - s * b)) = (s * w - c) * (s * (w - b))

LEMMA MarginalParts ==
  ASSUME NEW s \in Nat \ {0}, NEW w \in Nat \ {0}, NEW b \in Nat, NEW c \in Nat, b <= w, c <= s * w, s * b <= c
  PROVE  Rebuilt(s, w, b, c)
<1>1. w = b => c = s * w
  OBVIOUS
<1>2. PICK d \in Nat : d = w - b
  OBVIOUS
<1>3. s * w = s * d + s * b
  BY <1>2
<1>4. s * d \in Nat /\ s * b \in Nat /\ (d # 0 => s * d > 0)
  OBVIOUS
<1>5. PICK x, y, z \in Int : x = s * d /\ y = s * b /\ z = s * w
  OBVIOUS
<1>6. c - y >= 0 /\ c - y <= x /\ x - (c - y) = z - c
  BY <1>3, <1>5
<1>7. d * s * (x - (c - y)) = (z - c) * x
  BY <1>5, <1>6
<1>8. QED BY <1>1, <1>2, <1>4, <1>5, <1>6, <1>7 DEF Rebuilt

LEMMA TableRebuilds ==
  ASSUME PdTable
  PROVE  MarginalsRebuildCumulative
<1>1. SUFFICES ASSUME step = "done", NEW m \in 1..MaxPdMonth, NEW i \in Stages
               PROVE  LET alive == IF m = 1 THEN 1 ELSE Power(scale, m - 1) - cumulative[m - 1][i]
                          p == marginal[m][i]
                      IN  /\ p[1] \in 0..p[2] /\ p[2] > 0
                          /\ alive * scale * (p[2] - p[1]) = (Power(scale, m) - cumulative[m][i]) * p[2]
  <2>1. CASE step = "done"
    <3>1. DOMAIN marginal = 1..MaxPdMonth
      BY <2>1 DEF PdTable
    <3>2. QED BY <2>1, <3>1 DEF MarginalsRebuildCumulative
  <2>2. CASE step # "done"
    <3>1. marginal = <<>>
      BY <2>2 DEF PdTable
    <3>2. QED BY <3>1 DEF MarginalsRebuildCumulative
  <2>3. QED BY <2>1, <2>2
<1>2. MaxPdMonth \in Nat /\ m \in Nat \ {0} /\ month = MaxPdMonth
  BY <1>1, MonthDaysAssumption DEF PdTable
<1>3. PICK s \in Nat \ {0} : s = scale
  BY ScaleParts DEF PdTable, PdShape
<1>4. PICK c \in Nat : c = cumulative[m][i] /\ c <= Power(s, m)
  <2>1. PowersKept /\ m \in 1..month
    BY <1>2 DEF PdTable
  <2>2. PICK C : C = cumulative[m]
    OBVIOUS
  <2>3. C \in [Stages -> Nat]
    BY <2>1, <2>2 DEF PowersKept
  <2>4. C[i] \in Nat
    BY ONLY <2>3, i \in Stages
  <2>5. cumulative[m][i] <= Power(s, m)
    BY <1>3, <2>1 DEF PowersKept
  <2>6. QED BY <2>2, <2>4, <2>5
<1>5. PICK n \in Nat : n = m - 1 /\ m = n + 1
  BY <1>2
<1>6. PICK w \in Nat \ {0} : w = Power(s, n) /\ Power(s, m) = s * w
  BY <1>5, PowerPositive, PowerNext
<1>7. marginal[m][i] = MarginalPd(i, m)
  BY <1>1 DEF PdTable
<1>8. CASE m = 1
  <2>1. w = 1 /\ n = 0 /\ Power(s, m) = s
    BY <1>5, <1>6, <1>8, PowerZero
  <2>2. MarginalPd(i, m) = <<c - s * 0, s * 1>>
    BY <1>3, <1>4, <1>8 DEF MarginalPd
  <2>3. marginal[m][i] = <<c, s>>
    BY <1>7, <2>2
  <2>4. PICK p : p = marginal[m][i] /\ p[1] = c /\ p[2] = s
    BY <2>3
  <2>5. p[1] \in 0..p[2] /\ p[2] > 0
    BY <1>4, <2>1, <2>4
  <2>6. 1 * s * (s - c) = (s - c) * s
    OBVIOUS
  <2>7. QED BY <1>3, <1>4, <1>8, <2>1, <2>4, <2>5, <2>6
<1>9. CASE m # 1
  <2>1. m - 1 \in 1..month /\ m \in 1..month /\ m > 1
    BY <1>1, <1>2, <1>9
  <2>2. PICK b \in Nat : b = cumulative[m - 1][i]
    BY <2>1 DEF PdTable, PowersKept
  <2>3. b <= w /\ s * b <= c
    BY <1>3, <1>4, <1>5, <1>6, <2>1, <2>2 DEF PdTable, PowersKept
  <2>4. MarginalPd(i, m) = IF w - b = 0 THEN <<0, 1>> ELSE <<c - s * b, s * (w - b)>>
    BY <1>3, <1>4, <1>5, <1>6, <1>9, <2>2 DEF MarginalPd
  <2>5. /\ w = b => c = s * w
        /\ c - s * b >= 0 /\ c - s * b <= s * (w - b)
        /\ w # b => s * (w - b) > 0
        /\ (w - b) * s * (s * (w - b) - (c - s * b)) = (s * w - c) * (s * (w - b))
    <3>1. c <= s * w
      BY ONLY <1>4, <1>6, Zenon
    <3>2. Rebuilt(s, w, b, c)
      BY <2>3, <3>1, MarginalParts
    <3>3. QED BY ONLY <3>2, Zenon DEF Rebuilt
  <2>6. CASE w = b
    <3>1. PICK p : p = marginal[m][i] /\ p[1] = 0 /\ p[2] = 1
      BY <1>7, <2>4, <2>6
    <3>2. (w - b) * s * (1 - 0) = (s * w - c) * 1
      BY <2>5, <2>6
    <3>3. p[1] \in 0..p[2] /\ p[2] > 0
      BY <3>1
    <3>4. PICK alive : alive = w - b
      OBVIOUS
    <3>5. alive * scale * (p[2] - p[1]) = (Power(scale, m) - cumulative[m][i]) * p[2]
      BY ONLY <1>3, <1>4, <1>6, <3>1, <3>2, <3>4, Zenon
    <3>6. alive = IF m = 1 THEN 1 ELSE Power(scale, m - 1) - cumulative[m - 1][i]
      BY ONLY <1>3, <1>5, <1>6, <1>9, <2>2, <3>4, Zenon
    <3>7. QED BY ONLY <3>1, <3>3, <3>5, <3>6, Zenon
  <2>7. CASE w # b
    <3>1. PICK p : p = marginal[m][i] /\ p[1] = c - s * b /\ p[2] = s * (w - b)
      BY <1>7, <2>4, <2>7
    <3>2. PICK x, y \in Int : x = c - s * b /\ y = s * (w - b)
      OBVIOUS
    <3>3. x >= 0 /\ x <= y /\ y > 0 /\ (w - b) * s * (y - x) = (s * w - c) * y
      BY ONLY <2>5, <2>7, <3>2, Zenon
    <3>4. p[1] \in 0..p[2] /\ p[2] > 0
      BY <3>1, <3>2, <3>3
    <3>5. PICK alive : alive = w - b
      OBVIOUS
    <3>6. alive * scale * (p[2] - p[1]) = (Power(scale, m) - cumulative[m][i]) * p[2]
      BY ONLY <1>3, <1>4, <1>6, <3>1, <3>2, <3>3, <3>5, Zenon
    <3>7. alive = IF m = 1 THEN 1 ELSE Power(scale, m - 1) - cumulative[m - 1][i]
      BY ONLY <1>3, <1>5, <1>6, <1>9, <2>2, <3>5, Zenon
    <3>8. QED BY ONLY <3>1, <3>4, <3>6, <3>7, Zenon
  <2>8. QED BY <2>6, <2>7
<1>10. QED BY <1>8, <1>9

\* The marginal probabilities are probabilities and rebuild the cumulative ones, for every history.
THEOREM MarginalsRebuild == PdSpec => []MarginalsRebuildCumulative
<1>1. PdSpec => []PdTable
  BY PdTableInit, PdTableNext, PTL DEF PdSpec
<1>2. QED BY <1>1, TableRebuilds, PTL

-----------------------------------------------------------------------------
(* validate_files, compute_lgd and compute_ead.                            *)

USE MonthDaysAssumption, ValidatorsAssumption

-----------------------------------------------------------------------------
(* The book a run was given.                                               *)

GivenBook == \E f \in DOMAIN Books : book \in Books[f]

DateCells == BookDates \cup {NoDate, BadDate}

LEMMA BookFields ==
  ASSUME GivenBook
  PROVE  /\ Offsets \in Nat \ {0} /\ MaxPdMonth \in Nat
         /\ IsFiniteSet(book.ead.absent) /\ EadRows # {} /\ IsFiniteSet(EadRows)
         /\ IsFiniteSet(book.lgd.absent) /\ IsFiniteSet(book.lgd.extra)
         /\ LgdRows \subseteq Nat /\ IsFiniteSet(LgdRows)
         /\ \A i \in LgdRows : /\ book.lgd.rows[i].eir \in Int
                               /\ book.lgd.rows[i].outstanding \in Int /\ book.lgd.rows[i].pledged \in Int
         /\ \A i \in EadRows : /\ Row(i).reporting \in DateCells /\ Row(i).first \in DateCells
                               /\ Row(i).adjusted \in DateCells /\ Row(i).maturity \in DateCells
                               /\ Row(i).outstanding \in Int /\ Row(i).eir \in Int
<1>1. PICK f \in DOMAIN Books : book \in Books[f]
  BY DEF GivenBook
<1>2. /\ IsFiniteSet(book.ead.absent) /\ DOMAIN book.ead.rows # {} /\ IsFiniteSet(DOMAIN book.ead.rows)
      /\ IsFiniteSet(book.lgd.absent) /\ IsFiniteSet(book.lgd.extra)
      /\ DOMAIN book.lgd.rows \subseteq Nat /\ IsFiniteSet(DOMAIN book.lgd.rows)
      /\ \A i \in DOMAIN book.lgd.rows : /\ book.lgd.rows[i].eir \in Int
                                         /\ book.lgd.rows[i].outstanding \in Int
                                         /\ book.lgd.rows[i].pledged \in Int
      /\ \A i \in DOMAIN book.ead.rows :
            /\ {book.ead.rows[i].reporting, book.ead.rows[i].first, book.ead.rows[i].adjusted,
                book.ead.rows[i].maturity} \subseteq DateCells
            /\ book.ead.rows[i].outstanding \in Int /\ book.ead.rows[i].eir \in Int
  BY <1>1, BooksAssumption DEF DateCells
<1>3. QED BY <1>2, BooksAssumption DEF EadRows, LgdRows, Row

LEMMA DateFields ==
  ASSUME NEW d \in BookDates
  PROVE  /\ d[1] \in 1..Len(MonthDays) /\ d[2] \in 1..31 /\ MonthDays[d[1]] \in 28..31
         /\ d # NoDate /\ d # BadDate
<1>1. PICK m \in DOMAIN MonthDays, n \in 1..31 : d = <<m, n>>
  BY DEF BookDates
<1>2. DOMAIN MonthDays = 1..Len(MonthDays)
  OBVIOUS
<1>3. QED BY <1>1, <1>2 DEF NoDate, BadDate

-----------------------------------------------------------------------------
(* The gate.                                                               *)

\* The verdicts of a validation depend on the files only.
Judged ==
  verdict = [k \in Kinds |->
               IF Blocks(k) > 0 \/ (k = "EAD" /\ Errors # {}) THEN "error"
               ELSE IF k = "EAD" /\ Warnings # {} THEN "warn" ELSE "ok"]

GateInv ==
  /\ GivenBook
  /\ phase # "uploaded" => Judged
  /\ accepted = [k \in Kinds |-> FALSE]
  /\ phase = "validated" =>
       IF Errors # {} \/ \E k \in Kinds : Blocks(k) > 0 THEN overall = "blocking"
       ELSE Warnings = {} => overall = "ok"
  /\ phase \notin {"uploaded", "validated"} => MayExecute

LEMMA GateInit == Init => GateInv
BY DEF Init, GateInv, GivenBook

LEMMA GateNext ==
  ASSUME GateInv, [Next]_vars
  PROVE  GateInv'
<1> USE DEF GateInv
<1>1. ASSUME UNCHANGED <<book, verdict, accepted, overall>>,
             phase' # "uploaded" => phase # "uploaded",
             phase' = "validated" => phase = "validated",
             phase' \notin {"uploaded", "validated"} => MayExecute
      PROVE  GateInv'
  <2>1. Judged <=> Judged'
    BY <1>1 DEF Judged, Blocks, Errors, Warnings, Segments
  <2>2. /\ Errors' = Errors /\ Warnings' = Warnings /\ \A k \in Kinds : Blocks(k)' = Blocks(k)
    BY <1>1 DEF Blocks, Errors, Warnings, Segments
  <2>3. MayExecute' <=> MayExecute
    BY <1>1 DEF MayExecute
  <2>4. GivenBook'
    BY <1>1 DEF GivenBook
  <2>5. QED BY <1>1, <2>1, <2>2, <2>3, <2>4
<1>2. ASSUME NEW accept \in BOOLEAN, ValidateFiles(accept) PROVE GateInv'
  <2>1. /\ book' = book /\ phase' = "validated"
        /\ Errors' = Errors /\ Warnings' = Warnings /\ \A k \in Kinds : Blocks(k)' = Blocks(k)
    BY <1>2 DEF ValidateFiles, Blocks, Errors, Warnings, Segments
  <2>2. accepted' = [k \in Kinds |-> FALSE]
    BY <1>2 DEF ValidateFiles, FileWarnings
  <2>3. Judged'
    <3>1. verdict' = [k \in Kinds |->
                        IF Blocks(k) > 0 \/ (k = "EAD" /\ Errors # {}) THEN "error"
                        ELSE IF k = "EAD" /\ Warnings # {} THEN "warn" ELSE "ok"]
      BY <1>2 DEF ValidateFiles, FileWarnings
    <3>2. QED BY <2>1, <3>1 DEF Judged
  <2>4. IF Errors # {} \/ \E k \in Kinds : Blocks(k) > 0 THEN overall' = "blocking"
        ELSE Warnings = {} => overall' = "ok"
    BY <1>2 DEF ValidateFiles
  <2>5. GivenBook'
    BY <2>1 DEF GivenBook
  <2>6. QED BY <2>1, <2>2, <2>3, <2>4, <2>5
<1>3. ASSUME ExecuteRun PROVE GateInv'
  BY <1>1, <1>3 DEF ExecuteRun
<1>4. ASSUME ComputeLgd \/ ExpandSnapshots \/ WalkRow \/ JoinPd PROVE GateInv'
  BY <1>1, <1>4 DEF ComputeLgd, ExpandSnapshots, WalkRow, JoinPd
<1>5. ASSUME UNCHANGED vars PROVE GateInv'
  BY <1>1, <1>5 DEF vars
<1>6. QED BY <1>2, <1>3, <1>4, <1>5 DEF Next

LEMMA Gate == Spec => []GateInv
BY GateInit, GateNext, PTL DEF Spec

\* What validate_files reports and what execute_run lets through agree when the files raise no
\* warning across them.
THEOREM ReadyMeansExecutable == Spec => []ReadyRunsExecute
<1>1. GateInv => ReadyRunsExecute
  <2>1. SUFFICES ASSUME GateInv, phase = "validated", Warnings = {} PROVE overall = "ok" <=> MayExecute
    BY DEF ReadyRunsExecute
  <2>2. Judged /\ \A k \in Kinds : ~accepted[k]
    BY <2>1 DEF GateInv
  <2>3. MayExecute <=> ~(Errors # {} \/ \E k \in Kinds : Blocks(k) > 0)
    BY <2>1, <2>2 DEF MayExecute, Judged, Kinds
  <2>4. QED BY <2>1, <2>3 DEF GateInv
<1>2. QED BY <1>1, Gate, PTL

-----------------------------------------------------------------------------
(* The validator of EAD sheets.                                            *)

LEMMA SubsetCounts ==
  ASSUME NEW D, IsFiniteSet(D), NEW T \in SUBSET D
  PROVE  Cardinality(T) \in Nat /\ (Cardinality(T) = 0 => T = {})
BY FS_Subset, FS_CardinalityType, FS_EmptySet

LEMMA Counted ==
  ASSUME NEW s, NEW c, IsFiniteSet(DOMAIN s.rows)
  PROVE  /\ NonEmpty(s, c) \in Nat /\ ValidDates(s, c) \in Nat
         /\ \A low, high : NumericRange(s, c, low, high) \in Nat
         /\ \A allowed : EnumValues(s, c, allowed) \in Nat
         /\ \A columns : Uniqueness(s, columns) \in Nat
         /\ \A later : OutOfOrder(s, c, later) \in Nat
<1>1. NonEmpty(s, c) \in Nat
  BY SubsetCounts DEF NonEmpty, Bad
<1>2. ValidDates(s, c) \in Nat
  BY SubsetCounts DEF ValidDates, Bad
<1>3. ASSUME NEW low, NEW high PROVE NumericRange(s, c, low, high) \in Nat
  BY SubsetCounts DEF NumericRange, Bad
<1>4. ASSUME NEW allowed PROVE EnumValues(s, c, allowed) \in Nat
  BY SubsetCounts DEF EnumValues, Bad
<1>5. ASSUME NEW columns PROVE Uniqueness(s, columns) \in Nat
  BY SubsetCounts DEF Uniqueness
<1>6. ASSUME NEW later PROVE OutOfOrder(s, c, later) \in Nat
  BY SubsetCounts DEF OutOfOrder, Bad
<1>7. QED BY <1>1, <1>2, <1>3, <1>4, <1>5, <1>6

LEMMA GroupsCounted ==
  ASSUME NEW s, NEW c, NEW allowed, IsFiniteSet(DOMAIN s.rows)
  PROVE  EnumGrouped(s, c, allowed) \in Nat
<1> DEFINE D == {i \in DOMAIN s.rows : s.rows[i][c] # Null /\ Strip(s.rows[i][c]) \notin allowed}
           T == {s.rows[i][c] : i \in D}
           f == [i \in D |-> s.rows[i][c]]
<1>1. IsFiniteSet(D)
  BY FS_Subset
<1>2. f \in Surjection(D, T)
  BY DEF Surjection
<1>3. IsFiniteSet(T)
  <2> HIDE DEF D, T, f
  <2>1. QED BY <1>1, <1>2, FS_Surjection
<1>4. EnumGrouped(s, c, allowed) = IF c \in s.absent THEN 0 ELSE Cardinality(T)
  BY DEF EnumGrouped
<1>5. QED BY <1>3, <1>4, FS_CardinalityType

LEMMA NumberInRange ==
  ASSUME NEW s, NEW c, IsFiniteSet(DOMAIN s.rows), s.absent = {}, NumericRange(s, c, 0, Highest) = 0,
         NEW i \in DOMAIN s.rows, s.rows[i][c] \in Int
  PROVE  s.rows[i][c] \in Nat
<1>1. {j \in DOMAIN s.rows : s.rows[j][c] = NotANumber \/ s.rows[j][c] < 0 \/ s.rows[j][c] > Highest} = {}
  BY SubsetCounts DEF NumericRange, Bad
<1>2. ~(s.rows[i][c] < 0)
  BY <1>1
<1>3. QED BY ONLY <1>2, s.rows[i][c] \in Int

LEMMA RateInRange ==
  ASSUME NEW s, IsFiniteSet(DOMAIN s.rows), s.absent = {}, NumericRange(s, "eir", 0, RateUnit) = 0,
         NEW i \in DOMAIN s.rows, s.rows[i]["eir"] \in Int
  PROVE  s.rows[i]["eir"] \in 0..RateUnit
<1>1. {j \in DOMAIN s.rows : \/ s.rows[j]["eir"] = NotANumber
                             \/ s.rows[j]["eir"] < 0 \/ s.rows[j]["eir"] > RateUnit} = {}
  BY SubsetCounts DEF NumericRange, Bad
<1>2. ~(s.rows[i]["eir"] < 0) /\ ~(s.rows[i]["eir"] > RateUnit)
  BY <1>1
<1>3. RateUnit \in Int
  OBVIOUS
<1>4. QED BY ONLY <1>2, <1>3, s.rows[i]["eir"] \in Int

\* A sheet that validate_lgd does not block has all columns and no number out of range.
LEMMA PassedLgd ==
  ASSUME NEW s, NEW collateral, IsFiniteSet(s.absent), IsFiniteSet(s.extra), IsFiniteSet(DOMAIN s.rows),
         ~(ValidateLgd(s, collateral) > 0)
  PROVE  /\ s.absent = {} /\ NumericRange(s, "eir", 0, RateUnit) = 0
         /\ NumericRange(s, "outstanding", 0, Highest) = 0
         /\ s.extra \cap collateral # {} => NumericRange(s, "pledged", 0, Highest) = 0
<1> DEFINE d0 == Cardinality(s.extra \ collateral) + NonEmpty(s, "customer") + NonEmpty(s, "loan")
                 + Uniqueness(s, {"loan"})
           d1 == d0 + NumericRange(s, "outstanding", 0, Highest)
           d2 == d1 + NumericRange(s, "eir", 0, RateUnit)
           pledged == IF s.extra \cap collateral = {} THEN 0 ELSE NumericRange(s, "pledged", 0, Highest)
           checks == d2 + pledged
           rest == IF "eir" \in s.absent THEN 0 ELSE checks
<1>1. ValidateLgd(s, collateral) = Capped(RequiredColumns(s) + rest)
  BY DEF ValidateLgd
<1>2. RequiredColumns(s) \in Nat /\ (RequiredColumns(s) = 0 => s.absent = {})
  BY SubsetCounts DEF RequiredColumns
<1>3. Cardinality(s.extra \ collateral) \in Nat
  BY SubsetCounts
<1>4. /\ NonEmpty(s, "customer") \in Nat /\ NonEmpty(s, "loan") \in Nat /\ Uniqueness(s, {"loan"}) \in Nat
      /\ NumericRange(s, "outstanding", 0, Highest) \in Nat /\ NumericRange(s, "eir", 0, RateUnit) \in Nat
      /\ NumericRange(s, "pledged", 0, Highest) \in Nat
  BY Counted
<1>5. d1 \in Nat /\ (d1 = 0 => NumericRange(s, "outstanding", 0, Highest) = 0)
  <2>1. d0 \in Nat
    BY <1>3, <1>4
  <2> HIDE DEF d0
  <2>2. QED BY <1>4, <2>1
<1> HIDE DEF d1
<1>6. d2 \in Nat /\ (d2 = 0 => NumericRange(s, "eir", 0, RateUnit) = 0 /\ d1 = 0)
  BY <1>4, <1>5
<1> HIDE DEF d2
<1>7. pledged \in Nat /\ (pledged = 0 /\ s.extra \cap collateral # {} => NumericRange(s, "pledged", 0, Highest) = 0)
  BY <1>4
<1> HIDE DEF pledged
<1>8. checks \in Nat /\ (checks = 0 => d2 = 0 /\ pledged = 0)
  BY <1>6, <1>7
<1> HIDE DEF checks
<1>9. rest \in Nat /\ (rest = 0 /\ s.absent = {} => checks = 0)
  BY <1>8
<1> HIDE DEF rest
<1>10. RequiredColumns(s) = 0 /\ rest = 0
  <2>1. Capped(RequiredColumns(s) + rest) = IF RequiredColumns(s) + rest <= MaxIssues
                                            THEN RequiredColumns(s) + rest ELSE MaxIssues
    BY <1>2, <1>9, MinOfTwo DEF Capped
  <2>2. QED BY <1>1, <1>2, <1>9, <2>1
<1>11. QED BY <1>2, <1>5, <1>6, <1>7, <1>8, <1>9, <1>10

\* A sheet that validate_ead does not block has all columns, no loan twice, no number out of range, no
\* text where a date is due, and no loan that ends before its reporting date.
LEMMA PassedEad ==
  ASSUME NEW s, NEW segments, IsFiniteSet(s.absent), IsFiniteSet(DOMAIN s.rows),
         ~(ValidateEad(s, segments) > 0)
  PROVE  /\ s.absent = {} /\ NumericRange(s, "eir", 0, RateUnit) = 0
         /\ NumericRange(s, "outstanding", 0, Highest) = 0
         /\ \A i, j \in DOMAIN s.rows : s.rows[i]["loan"] = s.rows[j]["loan"] => i = j
         /\ \A i \in DOMAIN s.rows :
              LET r == s.rows[i]
              IN  /\ BadDate \notin {r["reporting"], r["first"], r["adjusted"], r["maturity"]}
                  /\ IsDate(r["reporting"]) /\ IsDate(r["maturity"]) => NotAfter(r["reporting"], r["maturity"])
<1> DEFINE checks == NonEmpty(s, "loan") + Uniqueness(s, {"loan"})
                      + ValidDates(s, "reporting") + ValidDates(s, "maturity")
                      + ValidDates(s, "first") + ValidDates(s, "adjusted")
                      + EnumValues(s, "staging", StagingValues)
                      + NumericRange(s, "outstanding", 0, Highest)
                      + NumericRange(s, "eir", 0, RateUnit)
                      + (IF segments = {} THEN 0 ELSE EnumGrouped(s, "segment", segments))
                      + EnumValues(s, "freq", {"MTH", "QTR"})
                      + DateRules(s)
           rest == IF {"staging", "eir"} \cap s.absent # {} THEN 0 ELSE checks
<1>1. ValidateEad(s, segments) = Capped(RequiredColumns(s) + rest)
  BY DEF ValidateEad
<1>2. RequiredColumns(s) \in Nat /\ (RequiredColumns(s) = 0 => s.absent = {})
  BY SubsetCounts DEF RequiredColumns
<1>3. DateRules(s) \in Nat /\ (DateRules(s) = 0 => OutOfOrder(s, "reporting", "maturity") = 0)
  <2>1. /\ OutOfOrder(s, "reporting", "maturity") \in Nat /\ OutOfOrder(s, "first", "reporting") \in Nat
        /\ OutOfOrder(s, "first", "adjusted") \in Nat
    BY Counted
  <2>2. QED BY <2>1 DEF DateRules
<1>4. /\ NonEmpty(s, "loan") \in Nat /\ Uniqueness(s, {"loan"}) \in Nat
      /\ ValidDates(s, "reporting") \in Nat /\ ValidDates(s, "maturity") \in Nat
      /\ ValidDates(s, "first") \in Nat /\ ValidDates(s, "adjusted") \in Nat
      /\ EnumValues(s, "staging", StagingValues) \in Nat
      /\ NumericRange(s, "outstanding", 0, Highest) \in Nat /\ NumericRange(s, "eir", 0, RateUnit) \in Nat
      /\ EnumValues(s, "freq", {"MTH", "QTR"}) \in Nat
  BY Counted
<1>5. (IF segments = {} THEN 0 ELSE EnumGrouped(s, "segment", segments)) \in Nat
  BY GroupsCounted
<1>6. checks \in Nat /\ (checks = 0 => /\ \A c \in {"reporting", "first", "adjusted", "maturity"} : ValidDates(s, c) = 0
                                          /\ DateRules(s) = 0
                                          /\ Uniqueness(s, {"loan"}) = 0
                                          /\ NumericRange(s, "eir", 0, RateUnit) = 0
                                          /\ NumericRange(s, "outstanding", 0, Highest) = 0)
  <2> DEFINE d1 == NonEmpty(s, "loan") + Uniqueness(s, {"loan"}) + ValidDates(s, "reporting")
             d2 == d1 + ValidDates(s, "maturity")
             d3 == d2 + ValidDates(s, "first") + ValidDates(s, "adjusted")
             d4 == d3 + EnumValues(s, "staging", StagingValues)
                      + NumericRange(s, "outstanding", 0, Highest) + NumericRange(s, "eir", 0, RateUnit)
             d5 == d4 + (IF segments = {} THEN 0 ELSE EnumGrouped(s, "segment", segments))
             d6 == d5 + EnumValues(s, "freq", {"MTH", "QTR"})
  <2>1. d1 \in Nat /\ (d1 = 0 => Uniqueness(s, {"loan"}) = 0 /\ ValidDates(s, "reporting") = 0)
    BY <1>4
  <2> HIDE DEF d1
  <2>2. d2 \in Nat /\ (d2 = 0 => ValidDates(s, "maturity") = 0 /\ d1 = 0)
    BY <1>4, <2>1, SMTT(40)
  <2> HIDE DEF d2
  <2>3. d3 \in Nat /\ (d3 = 0 => d2 = 0 /\ ValidDates(s, "first") = 0 /\ ValidDates(s, "adjusted") = 0)
    <3>1. d2 \in Nat /\ ValidDates(s, "first") \in Nat /\ ValidDates(s, "adjusted") \in Nat
      BY ONLY <1>4, <2>2
    <3> HIDE DEF checks, rest
    <3>2. QED BY ONLY <3>1
  <2> HIDE DEF d3
  <2>4. d4 \in Nat /\ (d4 = 0 => /\ d3 = 0 /\ NumericRange(s, "eir", 0, RateUnit) = 0
                                   /\ NumericRange(s, "outstanding", 0, Highest) = 0)
    BY <1>4, <2>3, SMTT(40)
  <2> HIDE DEF d4
  <2>5. d5 \in Nat /\ (d5 = 0 => d4 = 0)
    BY <1>5, <2>4
  <2> HIDE DEF d5
  <2>6. d6 \in Nat /\ (d6 = 0 => d5 = 0)
    BY <1>4, <2>5, SMTT(40)
  <2> HIDE DEF d6
  <2>7. checks = d6 + DateRules(s)
    BY DEF d1, d2, d3, d4, d5, d6
  <2> HIDE DEF checks
  <2>8. QED BY <1>3, <2>1, <2>2, <2>3, <2>4, <2>5, <2>6, <2>7
<1> HIDE DEF checks
<1>7. rest \in Nat /\ (rest = 0 /\ s.absent = {} => checks = 0)
  BY <1>6
<1> HIDE DEF rest
<1>8. RequiredColumns(s) = 0 /\ rest = 0
  <2>1. Capped(RequiredColumns(s) + rest) = IF RequiredColumns(s) + rest <= MaxIssues
                                            THEN RequiredColumns(s) + rest ELSE MaxIssues
    BY <1>2, <1>7, MinOfTwo DEF Capped
  <2>2. QED BY <1>1, <1>2, <1>7, <2>1
<1>9. /\ s.absent = {} /\ NumericRange(s, "eir", 0, RateUnit) = 0
      /\ NumericRange(s, "outstanding", 0, Highest) = 0
      /\ \A c \in {"reporting", "first", "adjusted", "maturity"} : ValidDates(s, c) = 0
      /\ OutOfOrder(s, "reporting", "maturity") = 0 /\ Uniqueness(s, {"loan"}) = 0
  BY <1>2, <1>3, <1>6, <1>7, <1>8
<1>10. ASSUME NEW c \in {"reporting", "first", "adjusted", "maturity"}, NEW i \in DOMAIN s.rows
       PROVE  s.rows[i][c] # BadDate
  <2>1. {j \in DOMAIN s.rows : s.rows[j][c] = BadDate} = {}
    BY <1>9, SubsetCounts DEF ValidDates, Bad
  <2>2. QED BY <2>1
<1>11. {i \in DOMAIN s.rows : /\ IsDate(s.rows[i]["reporting"]) /\ IsDate(s.rows[i]["maturity"])
                              /\ ~NotAfter(s.rows[i]["reporting"], s.rows[i]["maturity"])} = {}
  BY <1>9, SubsetCounts DEF OutOfOrder, Bad
<1>12. \A i, j \in DOMAIN s.rows : s.rows[i]["loan"] = s.rows[j]["loan"] => i = j
  <2>1. {i \in DOMAIN s.rows : \E j \in DOMAIN s.rows \ {i} :
           \A c \in {"loan"} : s.rows[i][c] = s.rows[j][c]} = {}
    BY <1>9, SubsetCounts DEF Uniqueness
  <2>2. SUFFICES ASSUME NEW i \in DOMAIN s.rows, NEW j \in DOMAIN s.rows,
                        s.rows[i]["loan"] = s.rows[j]["loan"], i # j
                 PROVE  FALSE
    OBVIOUS
  <2>3. j \in DOMAIN s.rows \ {i} /\ \A c \in {"loan"} : s.rows[i][c] = s.rows[j][c]
    BY <2>2
  <2>4. QED BY ONLY <2>1, <2>3, i \in DOMAIN s.rows, Zenon
<1>13. QED BY <1>9, <1>10, <1>11, <1>12

-----------------------------------------------------------------------------
(* Snapshots.                                                              *)

LEMMA MonthsToMaturity ==
  ASSUME NEW rep \in BookDates, NEW mat \in BookDates \cup {BadDate}
  PROVE  /\ rep[1] \in Int /\ mat[1] \in Int /\ mat # NoDate /\ DOMAIN MonthDays \subseteq Nat
         /\ \A k \in Nat : NotAfter(AddMonths(rep, k), mat) =>
                               k <= mat[1] - rep[1] /\ k \in DOMAIN MonthDays \cup {0}
<1>1. Len(MonthDays) \in Nat /\ DOMAIN MonthDays = 1..Len(MonthDays)
  OBVIOUS
<1>2. rep[1] \in 1..Len(MonthDays)
  BY DateFields
<1>3. mat[1] \in 0..Len(MonthDays) /\ mat # NoDate
  <2>1. CASE mat \in BookDates
    BY <1>1, <2>1, DateFields
  <2>2. CASE mat = BadDate
    <3>1. mat = <<0>>
      BY <2>2 DEF BadDate
    <3>2. mat[1] = 0 /\ Len(mat) = 1 /\ Len(NoDate) = 0
      BY <3>1 DEF NoDate
    <3>3. mat # NoDate
      BY ONLY <3>2
    <3>4. QED BY <1>1, <3>2, <3>3
  <2>3. QED BY <2>1, <2>2
<1>4. ASSUME NEW k \in Nat, NotAfter(AddMonths(rep, k), mat)
      PROVE  k <= mat[1] - rep[1] /\ k \in DOMAIN MonthDays \cup {0}
  <2>1. AddMonths(rep, k)[1] = rep[1] + k
    BY DEF AddMonths
  <2>2. AddMonths(rep, k)[1] <= mat[1]
    BY <1>1, <1>2, <1>3, <1>4, <2>1 DEF NotAfter
  <2>3. QED BY <1>1, <1>2, <1>3, <2>1, <2>2
<1>5. QED BY <1>1, <1>2, <1>3, <1>4

LEMMA MonthSets ==
  ASSUME NEW rep \in BookDates, NEW mat \in BookDates \cup {BadDate}, NEW n \in Nat
  PROVE  /\ {k \in 0..(n - 1) : NotAfter(AddMonths(rep, k), mat)}
               = {k \in DOMAIN MonthDays \cup {0} : NotAfter(AddMonths(rep, k), mat) /\ k < n}
         /\ {k \in 0..Max({0, MonthsBetween(rep, mat)}) : NotAfter(AddMonths(rep, k), mat)}
               = {k \in DOMAIN MonthDays \cup {0} : NotAfter(AddMonths(rep, k), mat)}
<1>1. PICK span : span = mat[1] - rep[1]
  OBVIOUS
<1>2. span \in Int /\ DOMAIN MonthDays \subseteq Nat
  <2>1. rep[1] \in Int /\ mat[1] \in Int /\ DOMAIN MonthDays \subseteq Nat
    BY MonthsToMaturity
  <2>2. QED BY ONLY <1>1, <2>1
<1>3. \A k \in Nat : NotAfter(AddMonths(rep, k), mat) => k <= span /\ k \in DOMAIN MonthDays \cup {0}
  BY <1>1, MonthsToMaturity
<1>4. Max({0, MonthsBetween(rep, mat)}) = IF 0 >= span THEN 0 ELSE span
  <2>1. MonthsBetween(rep, mat) = span
    BY <1>1 DEF MonthsBetween
  <2>2. QED BY ONLY <1>2, <2>1, MaxOfTwo
<1>5. QED BY <1>2, <1>3, <1>4

LEMMA ExpandedToMaturity ==
  ASSUME NEW r, Offsets \in Nat, r.reporting \in BookDates, r.maturity \in BookDates \cup {BadDate},
         r.reporting # NoDate, r.staging \in {"Stage 1", "Stage 2"}
  PROVE  Expanded(r) = {k \in DOMAIN MonthDays \cup {0} :
                          /\ NotAfter(AddMonths(r.reporting, k), r.maturity)
                          /\ r.staging = "Stage 1" => k < Offsets}
<1>1. PICK rep \in BookDates, mat \in BookDates \cup {BadDate} : rep = r.reporting /\ mat = r.maturity
  OBVIOUS
<1>2. Bounded(r)
  <2>1. mat # NoDate
    BY MonthsToMaturity
  <2>2. QED BY <1>1, <2>1 DEF Bounded
<1>3. CASE r.staging = "Stage 1"
  <2>1. Expanded(r) = {k \in 0..(Offsets - 1) : NotAfter(AddMonths(rep, k), mat)}
    BY <1>1, <1>2, <1>3 DEF Expanded
  <2>2. {k \in 0..(Offsets - 1) : NotAfter(AddMonths(rep, k), mat)}
           = {k \in DOMAIN MonthDays \cup {0} : NotAfter(AddMonths(rep, k), mat) /\ k < Offsets}
    BY ONLY Offsets \in Nat, rep \in BookDates, mat \in BookDates \cup {BadDate}, MonthSets,
            ZenonT(60)
  <2>3. QED BY ONLY <1>1, <1>3, <2>1, <2>2
<1>4. CASE r.staging = "Stage 2"
  <2>1. Expanded(r) = {k \in MaxMonths(r) : NotAfter(AddMonths(rep, k), mat)}
    BY <1>1, <1>2, <1>4 DEF Expanded
  <2>2. MaxMonths(r) = 0..Max({0, MonthsBetween(rep, mat)})
    BY <1>1, <1>2 DEF MaxMonths
  <2>3. {k \in 0..Max({0, MonthsBetween(rep, mat)}) : NotAfter(AddMonths(rep, k), mat)}
           = {k \in DOMAIN MonthDays \cup {0} : NotAfter(AddMonths(rep, k), mat)}
    BY ONLY Offsets \in Nat, rep \in BookDates, mat \in BookDates \cup {BadDate}, MonthSets, Zenon
  <2>4. QED BY ONLY <1>1, <1>4, <2>1, <2>2, <2>3
<1>5. QED BY <1>3, <1>4

Early == {"uploaded", "validated", "lgd", "expand"}

\* Identifiers that are numbers make a task fail before it has snapshots.
Mistyped == LgdLoans \cap Numbers # {} \/ \E i \in EadRows : Row(i).loan \in Numbers

SnapsOK ==
  \/ /\ phase \in Early \/ (phase = "failed" /\ Mistyped)
     /\ snaps = <<>> /\ walk = <<>>
  \/ /\ phase \notin Early
     /\ snaps = [i \in EadRows |-> Expanded(Row(i))]
     /\ DOMAIN walk = EadRows

LEMMA Snaps == Spec => []SnapsOK
<1>1. Init => SnapsOK
  BY DEF Init, SnapsOK, Early
<1>2. SnapsOK /\ [Next]_vars => SnapsOK'
  <2> SUFFICES ASSUME SnapsOK, [Next]_vars PROVE SnapsOK'
    OBVIOUS
  <2>0. ASSUME UNCHANGED book
        PROVE  /\ EadRows' = EadRows /\ (Mistyped' <=> Mistyped)
               /\ \A i \in EadRows : Expanded(Row(i))' = Expanded(Row(i))
    BY <2>0 DEF EadRows, Row, Mistyped, LgdLoans, LgdRows
  <2>1. ASSUME UNCHANGED <<book, snaps, walk>>, phase \in Early => phase' \in Early,
               phase \notin Early => phase' \notin Early, phase = "failed" => phase' = "failed"
        PROVE  SnapsOK'
    BY <2>0, <2>1 DEF SnapsOK
  <2>2. ASSUME NEW accept \in BOOLEAN, ValidateFiles(accept) PROVE SnapsOK'
    BY <2>1, <2>2 DEF ValidateFiles, Early
  <2>3. ASSUME ExecuteRun PROVE SnapsOK'
    BY <2>1, <2>3 DEF ExecuteRun, Early
  <2>4. ASSUME ComputeLgd PROVE SnapsOK'
    <3>1. CASE LgdLoans \cap Numbers # {} /\ ~(LgdLoans \subseteq Numbers)
      <4>1. Mistyped' /\ phase' = "failed" /\ phase \in Early /\ "failed" \notin Early /\ UNCHANGED <<snaps, walk>>
        BY <2>0, <2>4, <3>1 DEF ComputeLgd, Early, Mistyped
      <4>2. QED BY <4>1 DEF SnapsOK
    <3>2. CASE ~(LgdLoans \cap Numbers # {} /\ ~(LgdLoans \subseteq Numbers))
      BY <2>1, <2>4, <3>2 DEF ComputeLgd, Early
    <3>3. QED BY <3>1, <3>2
  <2>5. ASSUME ExpandSnapshots PROVE SnapsOK'
    <3>1. CASE \E i \in EadRows : Row(i).loan \in Numbers
      <4>1. Mistyped' /\ phase' = "failed" /\ phase \in Early /\ "failed" \notin Early /\ UNCHANGED <<snaps, walk>>
        BY <2>0, <2>5, <3>1 DEF ExpandSnapshots, Early, Mistyped
      <4>2. QED BY <4>1 DEF SnapsOK
    <3>2. CASE ~\E i \in EadRows : Row(i).loan \in Numbers
      <4>1. /\ EadRows' = EadRows /\ phase' \notin Early
            /\ snaps' = [i \in EadRows |-> Expanded(Row(i))] /\ DOMAIN walk' = EadRows
        BY <2>0, <2>5, <3>2 DEF ExpandSnapshots, Early
      <4>2. \A i \in EadRows : Expanded(Row(i))' = Expanded(Row(i))
        BY <2>0, <2>5 DEF ExpandSnapshots
      <4>3. QED BY <4>1, <4>2 DEF SnapsOK
    <3>3. QED BY <3>1, <3>2
  <2>6. ASSUME WalkRow PROVE SnapsOK'
    <3>1. /\ UNCHANGED book /\ phase' = phase /\ phase = "walk" /\ phase \notin Early
          /\ snaps' = snaps /\ DOMAIN walk' = EadRows
      BY <2>6 DEF WalkRow, Early
    <3>2. QED BY <2>0, <3>1 DEF SnapsOK
  <2>7. ASSUME JoinPd PROVE SnapsOK'
    BY <2>1, <2>7 DEF JoinPd, Early
  <2>8. ASSUME UNCHANGED vars PROVE SnapsOK'
    BY <2>1, <2>8 DEF vars
  <2>9. QED BY <2>2, <2>3, <2>4, <2>5, <2>6, <2>7, <2>8 DEF Next
<1>3. QED BY <1>1, <1>2, PTL DEF Spec

\* Snapshots and balances are those of rows that validation let through.
LEMMA Expansion ==
  ASSUME SnapsOK
  PROVE  /\ \A i \in DOMAIN snaps : i \in EadRows /\ snaps[i] = Expanded(Row(i)) /\ phase \notin Early
         /\ \A i \in DOMAIN walk : i \in EadRows /\ phase \notin Early
<1>1. snaps = <<>> => DOMAIN snaps = {}
  OBVIOUS
<1>2. walk = <<>> => DOMAIN walk = {}
  OBVIOUS
<1>3. QED BY <1>1, <1>2 DEF SnapsOK

\* The dates of a validated EAD sheet.
LEMMA ValidatedDates ==
  ASSUME GateInv, phase \notin {"uploaded", "validated"}, NEW i \in EadRows
  PROVE  /\ Row(i).reporting # NoDate => Row(i).reporting \in BookDates
         /\ Row(i).first # NoDate => Row(i).first \in BookDates
         /\ Row(i).adjusted # NoDate => Row(i).adjusted \in BookDates
         /\ Row(i).maturity # NoDate => Row(i).maturity \in BookDates
         /\ Bounded(Row(i)) => NotAfter(Row(i).reporting, Row(i).maturity)
<1>1. GivenBook /\ Judged /\ MayExecute /\ accepted = [k \in Kinds |-> FALSE]
  BY DEF GateInv
<1>2. verdict["EAD"] # "error"
  BY <1>1 DEF MayExecute, Kinds
<1>3. ~(ValidateEad(book.ead, Segments) > 0)
  BY <1>1, <1>2 DEF Judged, Kinds, Blocks
<1>4. IsFiniteSet(book.ead.absent) /\ IsFiniteSet(DOMAIN book.ead.rows)
  BY <1>1, BookFields DEF EadRows
<1>5. LET r == book.ead.rows[i]
      IN  /\ BadDate \notin {r["reporting"], r["first"], r["adjusted"], r["maturity"]}
          /\ IsDate(r["reporting"]) /\ IsDate(r["maturity"]) => NotAfter(r["reporting"], r["maturity"])
  <2>1. i \in DOMAIN book.ead.rows
    BY DEF EadRows
  <2>2. QED BY <1>3, <1>4, <2>1, PassedEad
<1>6. /\ BadDate \notin {Row(i).reporting, Row(i).first, Row(i).adjusted, Row(i).maturity}
      /\ IsDate(Row(i).reporting) /\ IsDate(Row(i).maturity) => NotAfter(Row(i).reporting, Row(i).maturity)
  BY <1>5 DEF Row
<1>7. /\ Row(i).reporting \in DateCells /\ Row(i).first \in DateCells
      /\ Row(i).adjusted \in DateCells /\ Row(i).maturity \in DateCells
  BY <1>1, BookFields
<1>8. QED BY <1>6, <1>7 DEF DateCells, Bounded, IsDate

\* Counting whole months never cuts the last snapshot of a loan off.
THEOREM SnapshotsToMaturity == Spec => []SnapshotsReachMaturity
<1>1. GateInv /\ SnapsOK => SnapshotsReachMaturity
  <2>1. SUFFICES ASSUME GateInv, SnapsOK, NEW i \in DOMAIN snaps,
                        Row(i).staging \in {"Stage 1", "Stage 2"}, Bounded(Row(i))
                 PROVE  snaps[i] = {k \in DOMAIN MonthDays \cup {0} :
                                      /\ NotAfter(AddMonths(Row(i).reporting, k), Row(i).maturity)
                                      /\ Row(i).staging = "Stage 1" => k < Offsets}
    BY DEF SnapshotsReachMaturity
  <2>2. i \in EadRows /\ snaps[i] = Expanded(Row(i)) /\ phase \notin {"uploaded", "validated"}
    BY <2>1, Expansion DEF Early
  <2>3. /\ Offsets \in Nat /\ Row(i).reporting \in BookDates /\ Row(i).reporting # NoDate
        /\ Row(i).maturity \in BookDates \cup {BadDate}
    BY <2>1, <2>2, ValidatedDates, BookFields DEF GateInv, Bounded
  <2>4. QED BY <2>1, <2>2, <2>3, ExpandedToMaturity
<1>2. QED BY <1>1, Gate, Snaps, PTL

-----------------------------------------------------------------------------
(* From validation to provisions.                                          *)

LEMMA ReportingMonthComesFirst ==
  ASSUME NEW rep \in BookDates, NEW mat \in BookDates, NotAfter(rep, mat)
  PROVE  NotAfter(AddMonths(rep, 0), mat)
<1>1. /\ rep[1] \in Int /\ rep[2] \in Int /\ mat[1] \in Int /\ mat[2] \in Int
      /\ rep[1] \in DOMAIN MonthDays /\ MonthDays[rep[1]] \in Int
  <2>1. /\ rep[1] \in 1..Len(MonthDays) /\ rep[2] \in 1..31 /\ MonthDays[rep[1]] \in 28..31
        /\ mat[1] \in 1..Len(MonthDays) /\ mat[2] \in 1..31
    BY DateFields
  <2>2. DOMAIN MonthDays = 1..Len(MonthDays) /\ Len(MonthDays) \in Nat
    OBVIOUS
  <2>3. rep[1] \in DOMAIN MonthDays
    BY ONLY <2>1, <2>2
  <2>4. \A a, b : a \in Int /\ b \in Int => \A x \in a..b : x \in Int
    BY ONLY SMT
  <2>5. 1 \in Int /\ 31 \in Int /\ 28 \in Int /\ Len(MonthDays) \in Int
    BY <2>2
  <2>6. QED BY ONLY <2>1, <2>3, <2>4, <2>5, Zenon
<1>2. Min({rep[2], MonthDays[rep[1]]}) \in Int /\ Min({rep[2], MonthDays[rep[1]]}) <= rep[2]
  BY ONLY <1>1, MinOfTwo
<1>3. AddMonths(rep, 0) = <<rep[1], Min({rep[2], MonthDays[rep[1]]})>>
  <2>1. rep[1] + 0 = rep[1]
    BY ONLY <1>1
  <2>2. QED BY <1>1, <2>1 DEF AddMonths
<1>4. AddMonths(rep, 0)[1] = rep[1] /\ AddMonths(rep, 0)[2] <= rep[2] /\ AddMonths(rep, 0)[2] \in Int
  BY <1>2, <1>3
<1>5. rep[1] < mat[1] \/ (rep[1] = mat[1] /\ rep[2] <= mat[2])
  BY DEF NotAfter
<1>6. QED BY ONLY <1>1, <1>4, <1>5 DEF NotAfter

\* A run that execute_run let through has, at its reporting date, a snapshot of every loan with a
\* reporting and a maturity date.
LEMMA FirstSnapshot ==
  ASSUME GateInv, phase \notin {"uploaded", "validated"}, NEW i \in EadRows, Bounded(Row(i))
  PROVE  0 \in Expanded(Row(i))
<1>1. /\ Offsets \in Nat \ {0} /\ Row(i).reporting \in BookDates /\ Row(i).maturity \in BookDates
      /\ Row(i).reporting # NoDate
  BY ValidatedDates, BookFields DEF GateInv, Bounded
<1>2. NotAfter(AddMonths(Row(i).reporting, 0), Row(i).maturity)
  BY <1>1, ValidatedDates, ReportingMonthComesFirst
<1>3. CASE Row(i).staging \in {"Stage 1", "Stage 2"}
  <2>1. Expanded(Row(i)) = {k \in DOMAIN MonthDays \cup {0} :
                              /\ NotAfter(AddMonths(Row(i).reporting, k), Row(i).maturity)
                              /\ Row(i).staging = "Stage 1" => k < Offsets}
    BY <1>1, <1>3, ExpandedToMaturity
  <2>2. 0 < Offsets
    BY <1>1
  <2>3. QED BY ONLY <1>2, <2>1, <2>2
<1>4. CASE Row(i).staging \notin {"Stage 1", "Stage 2"}
  BY <1>4 DEF Expanded
<1>5. QED BY <1>3, <1>4

\* Why a computation ends without provisions.
EndsOK ==
  /\ phase = "failed" => Mistyped \/ SegmentsWithoutPd # {} \/ Refused # {}
  /\ phase = "empty" => \A i \in EadRows : snaps[i] = {}

LEMMA Ends == Spec => []EndsOK
<1>1. Init => EndsOK
  BY DEF Init, EndsOK
<1>2. EndsOK /\ [Next]_vars => EndsOK'
  <2> SUFFICES ASSUME EndsOK, [Next]_vars PROVE EndsOK'
    OBVIOUS
  <2>0. ASSUME UNCHANGED book PROVE EadRows' = EadRows /\ (Mistyped' <=> Mistyped)
    BY <2>0 DEF EadRows, Row, Mistyped, LgdLoans, LgdRows
  <2>1. ASSUME UNCHANGED <<book, snaps>> PROVE SegmentsWithoutPd' = SegmentsWithoutPd /\ Refused' = Refused
    BY <2>1 DEF SegmentsWithoutPd, Found, InTable, PdSegments, EadRows, Row, Refused
  <2>2. ASSUME NEW accept \in BOOLEAN, ValidateFiles(accept) PROVE EndsOK'
    BY <2>2 DEF ValidateFiles, EndsOK
  <2>3. ASSUME ExecuteRun \/ WalkRow PROVE EndsOK'
    BY <2>3 DEF ExecuteRun, WalkRow, EndsOK
  <2>4. ASSUME ComputeLgd PROVE EndsOK'
    BY <2>0, <2>4 DEF ComputeLgd, EndsOK, Mistyped
  <2>5. ASSUME ExpandSnapshots PROVE EndsOK'
    <3>1. CASE \E i \in EadRows : Row(i).loan \in Numbers
      BY <2>0, <2>5, <3>1 DEF ExpandSnapshots, EndsOK, Mistyped
    <3>2. CASE ~\E i \in EadRows : Row(i).loan \in Numbers
      BY <2>0, <2>5, <3>2 DEF ExpandSnapshots, EndsOK
    <3>3. QED BY <3>1, <3>2
  <2>6. ASSUME JoinPd PROVE EndsOK'
    BY <2>1, <2>6 DEF JoinPd, EndsOK
  <2>7. ASSUME UNCHANGED vars PROVE EndsOK'
    BY <2>0, <2>1, <2>7 DEF vars, EndsOK
  <2>8. QED BY <2>2, <2>3, <2>4, <2>5, <2>6, <2>7 DEF Next
<1>3. QED BY <1>1, <1>2, PTL DEF Spec

-----------------------------------------------------------------------------
(* The walk of a balance.                                                  *)

LEMMA ClampedBalance ==
  ASSUME NEW x \in Int
  PROVE  Clamped(x) \in Int /\ (x <= 0 => Clamped(x) = 0)
BY MaxOfTwo DEF Clamped

\* Rates are counted in parts of a year of twelve months.
Year == 12 * RateUnit

LEMMA YearIs == Year \in Nat \ {0}
BY DEF Year

LEMMA GrownIs ==
  ASSUME NEW x, NEW e, NEW n
  PROVE  Grown(x, e, n) = IF n = 0 THEN x ELSE (x \div Power(Year, n)) * Power(Year + e, n)
BY Zenon DEF Grown, Year

LEMMA GrownBalance ==
  ASSUME NEW x \in Int, NEW e \in 0..RateUnit, NEW n \in Nat
  PROVE  Grown(x, e, n) \in Int /\ Grown(0, e, n) = 0 /\ Grown(x, e, 0) = x
<1>1. PICK p, q \in Nat \ {0} : p = Power(Year, n) /\ q = Power(Year + e, n)
  <2>1. Year \in Nat \ {0} /\ Year + e \in Nat \ {0}
    BY YearIs
  <2>2. QED BY <2>1, PowerPositive
<1>2. (x \div p) \in Int /\ 0 \div p = 0
  OBVIOUS
<1>3. (x \div p) * q \in Int /\ 0 * q = 0
  BY <1>2
<1>4. QED BY <1>1, <1>2, <1>3, GrownIs

\* The walk of a loan r with rate e and instalment a, as far as it has come.
OpenedWith(w, r, n) == IF n = 1 THEN r.outstanding ELSE w[n - 1].repaid
Repaid(w, r, e, a, n) == Clamped(Grown(OpenedWith(w, r, n), e, 1) - (IF PaymentRow(r, n) THEN a ELSE 0))

Walked(w, r, e, a) ==
  /\ w \in Seq([repaid : Int, missed : Int])
  /\ \A n \in DOMAIN w : w[n].missed = w[n].repaid
  /\ \A n \in DOMAIN w : w[n].repaid = Repaid(w, r, e, a, n)
  /\ a > 0 => \A n \in DOMAIN w : w[n].repaid = 0 => \A m \in DOMAIN w : n <= m => w[m].repaid = 0

\* One more row: some earlier payment that was missed means that nothing is owed any more.
LEMMA OneMoreRow ==
  ASSUME NEW w, NEW r, r.outstanding \in Int, NEW e \in 0..RateUnit, NEW a \in Int, Walked(w, r, e, a),
         NEW c \in 0..3,
         c > 0 => a > 0 /\ \E j \in 1..Len(w) : PaymentRow(r, j) /\ Grown(OpenedWith(w, r, j), e, 1) < a
  PROVE  LET repaid == Repaid(w, r, e, a, Len(w) + 1)
         IN  Walked(Append(w, [repaid |-> repaid, missed |-> Grown(repaid, e, c)]), r, e, a)
<1>1. PICK repaid : repaid = Repaid(w, r, e, a, Len(w) + 1)
  OBVIOUS
<1>2. PICK x : x = [repaid |-> repaid, missed |-> Grown(repaid, e, c)]
  OBVIOUS
<1>3. PICK v : v = Append(w, x)
  OBVIOUS
<1>4. /\ w \in Seq([repaid : Int, missed : Int]) /\ Len(w) \in Nat /\ DOMAIN w = 1..Len(w)
  BY DEF Walked
<1>5. \A n \in 1..(Len(w) + 1) : OpenedWith(w, r, n) \in Int
  <2>1. ASSUME NEW n \in 1..Len(w) PROVE w[n].repaid \in Int
    <3>1. PICK R : R = [repaid : Int, missed : Int]
      OBVIOUS
    <3>2. w \in Seq(R)
      BY <1>4, <3>1
    <3>3. w[n] \in R
      BY ONLY <3>2, n \in 1..Len(w)
    <3>4. QED BY ONLY <3>1, <3>3
  <2>2. SUFFICES ASSUME NEW n \in 1..(Len(w) + 1), n # 1 PROVE w[n - 1].repaid \in Int
    BY DEF OpenedWith
  <2>3. n - 1 \in 1..Len(w)
    BY <1>4, <2>2
  <2>4. QED BY <2>1, <2>3
<1>6. ASSUME NEW n \in 1..(Len(w) + 1)
      PROVE  /\ Grown(OpenedWith(w, r, n), e, 1) \in Int
             /\ (OpenedWith(w, r, n) = 0 => Grown(OpenedWith(w, r, n), e, 1) = 0)
             /\ Repaid(w, r, e, a, n) \in Int
             /\ Grown(OpenedWith(w, r, n), e, 1) - (IF PaymentRow(r, n) THEN a ELSE 0) <= 0
                  => Repaid(w, r, e, a, n) = 0
  <2>1. PICK o \in Int : o = OpenedWith(w, r, n)
    BY <1>5
  <2>2. PICK g \in Int : g = Grown(o, e, 1) /\ (o = 0 => g = 0)
    <3>1. 1 \in 0..3
      OBVIOUS
    <3>2. Grown(o, e, 1) \in Int /\ Grown(0, e, 1) = 0
      BY ONLY o \in Int, e \in 0..RateUnit, <3>1, GrownBalance
    <3>3. QED BY ONLY <3>2, Zenon
  <2>3. g - (IF PaymentRow(r, n) THEN a ELSE 0) \in Int
    BY ONLY g \in Int, a \in Int
  <2>4. Repaid(w, r, e, a, n) = Clamped(g - (IF PaymentRow(r, n) THEN a ELSE 0))
    BY <2>1, <2>2 DEF Repaid
  <2>5. QED BY <2>1, <2>2, <2>3, <2>4, ClampedBalance
<1>7. repaid \in Int
  BY <1>1, <1>4, <1>6
\* Nothing owed stays nothing.
<1>8. ASSUME a > 0, NEW n \in DOMAIN w, w[n].repaid = 0 PROVE repaid = 0
  <2>1. Len(w) \in DOMAIN w /\ Len(w) + 1 # 1 /\ n <= Len(w)
    BY <1>4, <1>8
  <2>2. w[Len(w)].repaid = 0
    BY <1>8, <2>1 DEF Walked
  <2>3. OpenedWith(w, r, Len(w) + 1) = 0
    BY <1>4, <2>1, <2>2 DEF OpenedWith
  <2>4. Len(w) + 1 \in 1..(Len(w) + 1)
    BY <1>4
  <2>5. Grown(OpenedWith(w, r, Len(w) + 1), e, 1) = 0
    BY <1>6, <2>3, <2>4
  <2>6. 0 - (IF PaymentRow(r, Len(w) + 1) THEN a ELSE 0) <= 0
    BY <1>8
  <2>7. QED BY <1>1, <1>6, <2>4, <2>5, <2>6
<1>9. c > 0 => repaid = 0
  <2>1. SUFFICES ASSUME c > 0 PROVE repaid = 0
    OBVIOUS
  <2>2. PICK j \in 1..Len(w) : PaymentRow(r, j) /\ Grown(OpenedWith(w, r, j), e, 1) < a
    BY <2>1
  <2>3. j \in 1..(Len(w) + 1) /\ j \in DOMAIN w
    BY <1>4
  <2>4. Grown(OpenedWith(w, r, j), e, 1) \in Int
    BY <1>6, <2>3
  <2>5. Grown(OpenedWith(w, r, j), e, 1) - (IF PaymentRow(r, j) THEN a ELSE 0) <= 0
    BY <2>2, <2>4
  <2>6. w[j].repaid = 0
    BY <1>6, <2>3, <2>5 DEF Walked
  <2>7. QED BY <1>8, <2>1, <2>3, <2>6
<1>10. Grown(repaid, e, c) = repaid
  <2>1. CASE c = 0
    BY <1>7, <2>1, GrownBalance
  <2>2. CASE c > 0
    <3>1. Grown(0, e, c) = 0
      <4>1. c \in Nat /\ 0 \in Int
        OBVIOUS
      <4>2. QED BY ONLY <4>1, e \in 0..RateUnit, GrownBalance, Zenon
    <3>2. QED BY <1>9, <2>2, <3>1
  <2>3. QED BY <2>1, <2>2
<1>11. x \in [repaid : Int, missed : Int] /\ x.repaid = repaid /\ x.missed = repaid
  BY <1>2, <1>7, <1>10
<1>12. /\ v \in Seq([repaid : Int, missed : Int]) /\ DOMAIN v = 1..(Len(w) + 1)
       /\ v[Len(w) + 1] = x /\ \A n \in 1..Len(w) : v[n] = w[n]
  BY <1>3, <1>4, <1>11
<1>13. \A n \in DOMAIN v : v[n].missed = v[n].repaid
  <2>1. SUFFICES ASSUME NEW n \in 1..(Len(w) + 1) PROVE v[n].missed = v[n].repaid
    BY <1>12
  <2>2. CASE n \in 1..Len(w)
    BY <1>4, <1>12, <2>2 DEF Walked
  <2>3. CASE n = Len(w) + 1
    BY <1>11, <1>12, <2>3
  <2>4. QED BY <1>4, <2>2, <2>3
<1>14. \A n \in DOMAIN v : v[n].repaid = Repaid(v, r, e, a, n)
  <2>1. SUFFICES ASSUME NEW n \in 1..(Len(w) + 1) PROVE v[n].repaid = Repaid(v, r, e, a, n)
    BY <1>12
  <2>2. OpenedWith(v, r, n) = OpenedWith(w, r, n)
    <3>1. CASE n = 1
      BY <3>1 DEF OpenedWith
    <3>2. CASE n # 1
      <4>1. n - 1 \in 1..Len(w)
        BY <1>4, <3>2
      <4>2. QED BY <1>12, <3>2, <4>1 DEF OpenedWith
    <3>3. QED BY <3>1, <3>2
  <2>3. Repaid(v, r, e, a, n) = Repaid(w, r, e, a, n)
    BY <2>2 DEF Repaid
  <2>4. CASE n \in 1..Len(w)
    BY <1>4, <1>12, <2>3, <2>4 DEF Walked
  <2>5. CASE n = Len(w) + 1
    BY <1>1, <1>11, <1>12, <2>3, <2>5
  <2>6. QED BY <1>4, <2>4, <2>5
<1>15. ASSUME a > 0, NEW n \in DOMAIN v, v[n].repaid = 0, NEW m \in DOMAIN v, n <= m PROVE v[m].repaid = 0
  <2>1. CASE m \in 1..Len(w)
    <3>1. n \in 1..Len(w)
      BY <1>4, <1>12, <1>15, <2>1
    <3>2. w[n].repaid = 0 /\ n \in DOMAIN w /\ m \in DOMAIN w
      BY <1>4, <1>12, <1>15, <2>1, <3>1
    <3>3. w[m].repaid = 0
      BY <1>15, <3>2 DEF Walked
    <3>4. QED BY <1>12, <2>1, <3>3
  <2>2. CASE m = Len(w) + 1 /\ n \in 1..Len(w)
    <3>1. w[n].repaid = 0 /\ n \in DOMAIN w
      BY <1>4, <1>12, <1>15, <2>2
    <3>2. QED BY <1>8, <1>11, <1>12, <1>15, <2>2, <3>1
  <2>3. CASE m = Len(w) + 1 /\ n = Len(w) + 1
    BY <1>15, <2>3
  <2>4. QED BY <1>4, <1>12, <2>1, <2>2, <2>3
<1>16. Walked(v, r, e, a)
  BY <1>12, <1>13, <1>14, <1>15 DEF Walked
<1>17. QED BY <1>1, <1>2, <1>3, <1>16

\* The rates a walk uses have passed validation, in whichever file it finds them.
LEMMA ValidatedRates ==
  ASSUME GateInv, phase \notin {"uploaded", "validated"}, NEW i \in EadRows
  PROVE  Eir(Row(i)) \in 0..RateUnit
<1>1. GivenBook /\ Judged /\ MayExecute /\ accepted = [k \in Kinds |-> FALSE]
  BY DEF GateInv
<1>2. verdict["EAD"] # "error" /\ verdict["LGD"] # "error"
  BY <1>1 DEF MayExecute, Kinds
<1>3. ~(Blocks("EAD") > 0) /\ ~(Blocks("LGD") > 0)
  BY <1>1, <1>2 DEF Judged, Kinds
<1>4. ~(ValidateEad(book.ead, Segments) > 0) /\ ~(ValidateLgd(book.lgd, book.lgd.extra) > 0)
  BY <1>3 DEF Blocks
<1>5. /\ IsFiniteSet(book.ead.absent) /\ IsFiniteSet(DOMAIN book.ead.rows)
      /\ IsFiniteSet(book.lgd.absent) /\ IsFiniteSet(book.lgd.extra) /\ IsFiniteSet(DOMAIN book.lgd.rows)
  BY <1>1, BookFields DEF EadRows, LgdRows
<1>6. /\ book.ead.absent = {} /\ NumericRange(book.ead, "eir", 0, RateUnit) = 0
      /\ book.lgd.absent = {} /\ NumericRange(book.lgd, "eir", 0, RateUnit) = 0
  BY <1>4, <1>5, PassedEad, PassedLgd
<1>7. CASE LgdOf(Row(i)) = {}
  <2>1. book.ead.rows[i]["eir"] \in Int /\ i \in DOMAIN book.ead.rows
    BY <1>1, BookFields DEF EadRows, Row
  <2>2. book.ead.rows[i]["eir"] \in 0..RateUnit
    BY <1>5, <1>6, <2>1, RateInRange
  <2>3. QED BY <1>7, <2>2 DEF Eir, Row
<1>8. CASE LgdOf(Row(i)) # {}
  <2>1. LgdOf(Row(i)) \in SUBSET Nat /\ LgdOf(Row(i)) \subseteq LgdRows
    BY <1>1, BookFields DEF LgdOf
  <2>2. PICK j \in LgdRows : j = Min(LgdOf(Row(i)))
    BY <1>8, <2>1, MinInSet
  <2>3. book.lgd.rows[j]["eir"] \in Int /\ j \in DOMAIN book.lgd.rows
    BY <1>1, BookFields DEF LgdRows
  <2>4. book.lgd.rows[j]["eir"] \in 0..RateUnit
    BY <1>5, <1>6, <2>3, RateInRange
  <2>5. QED BY <1>8, <2>2, <2>4 DEF Eir
<1>9. QED BY <1>7, <1>8

\* The annuity formula divides by the growth of the debt, which is positive.
LEMMA AnnuityIsNumber ==
  ASSUME NEW x \in Int, NEW e \in 0..RateUnit, NEW n \in Nat \ {0}, NEW parts \in Nat \ {0}
  PROVE  Annuity(x, e, n, parts) \in Int
<1>1. CASE e = 0
  BY <1>1 DEF Annuity
<1>2. CASE e # 0
  <2>1. PICK y \in Nat \ {0} : y = parts * RateUnit
    OBVIOUS
  <2>2. PICK p, q \in Nat \ {0} : p = Power(y, n) /\ q = Power(y + e, n) /\ q > p
    <3>1. y + e \in Nat \ {0} /\ y < y + e /\ n \in Nat
      BY <1>2
    <3>2. Power(y, n) \in Nat \ {0} /\ Power(y + e, n) \in Nat \ {0}
      BY <3>1, PowerPositive
    <3>3. Power(y + e, n) > Power(y, n)
      BY <3>1, PowerGrows
    <3>4. QED BY <3>2, <3>3
  <2>3. PICK d \in Nat \ {0} : d = y * (q - p)
    <3>1. PICK k \in Nat \ {0} : k = q - p
      BY <2>2
    <3>2. y * k \in Nat \ {0}
      OBVIOUS
    <3>3. QED BY <3>1, <3>2
  <2>4. PICK z \in Int : z = x \div d
    OBVIOUS
  <2>5. z * e * q \in Int
    OBVIOUS
  <2>6. Annuity(x, e, n, parts) = z * e * q
    BY <1>2, <2>1, <2>2, <2>3, <2>4, Zenon DEF Annuity
  <2>7. QED BY <2>5, <2>6
<1>3. QED BY <1>1, <1>2

LEMMA MonthsLeft ==
  ASSUME GateInv, phase \notin {"uploaded", "validated"}, NEW i \in EadRows, TermKnown(Row(i))
  PROVE  /\ Remaining(Row(i)) \in Int
         /\ Remaining(Row(i)) = MonthsBetween(Row(i).reporting, Row(i).adjusted)
<1>1. Row(i).reporting \in BookDates /\ Row(i).first \in BookDates /\ Row(i).adjusted \in BookDates
  BY ValidatedDates DEF TermKnown
<1>2. PICK a, b, c \in Int : a = Row(i).reporting[1] /\ b = Row(i).first[1] /\ c = Row(i).adjusted[1]
  <2>1. ASSUME NEW d \in BookDates PROVE d[1] \in Int
    BY DateFields
  <2>2. QED BY <1>1, <2>1
<1>3. QED BY <1>2 DEF Remaining, MonthsBetween

LEMMA InstalmentIsNumber ==
  ASSUME GateInv, phase \notin {"uploaded", "validated"}, NEW i \in EadRows, InstalmentKnown(Row(i))
  PROVE  Instalment(Row(i)) \in Int
<1>1. PICK x \in Int, e \in 0..RateUnit : x = Row(i).outstanding /\ e = Eir(Row(i))
  BY ValidatedRates, BookFields DEF GateInv
<1>2. \A k \in Nat \ {0} : Annuity(x, e, k, 4) \in Int /\ Annuity(x, e, k, 12) \in Int
  <2>1. 4 \in Nat \ {0} /\ 12 \in Nat \ {0}
    OBVIOUS
  <2>2. QED BY <2>1, AnnuityIsNumber
<1>3. CASE ~TermKnown(Row(i))
  <2>1. 1 \in Nat \ {0}
    OBVIOUS
  <2>2. Instalment(Row(i)) = Annuity(x, e, 1, 4)
    BY <1>1, <1>3 DEF Instalment, InstalmentKnown
  <2>3. QED BY <1>2, <2>1, <2>2
<1>4. CASE TermKnown(Row(i))
  <2>1. PICK m \in Int : m = Remaining(Row(i))
    BY <1>4, MonthsLeft
  <2>2. PICK k \in Nat \ {0} : k = Max({1, m \div 3})
    <3>1. m \div 3 \in Int
      OBVIOUS
    <3>2. QED BY <3>1, MaxOfTwo
  <2>3. Instalment(Row(i)) = IF Row(i).freq = "QTR" THEN Annuity(x, e, k, 4)
                             ELSE IF m <= 0 THEN 0 ELSE Annuity(x, e, m, 12)
    BY <1>1, <1>4, <2>1, <2>2 DEF Instalment
  <2>4. m > 0 => m \in Nat \ {0}
    OBVIOUS
  <2>5. QED BY <1>2, <2>3, <2>4
<1>5. QED BY <1>3, <1>4

\* A period counts as missed only for a positive instalment, and by an earlier payment row.
LEMMA MissedEarlier ==
  ASSUME NEW i, NEW n \in Nat, Instalment(Row(i)) \in Int
  PROVE  /\ MissedPeriods(i, n) \in 0..3
         /\ MissedPeriods(i, n) > 0 =>
              /\ Instalment(Row(i)) > 0
              /\ \E j \in 1..(n - 1) : /\ PaymentRow(Row(i), j)
                                        /\ Grown(Opening(i, j), Eir(Row(i)), 1) < Instalment(Row(i))
<1> DEFINE D == {j \in LastThree({j \in 1..(n - 1) : PaymentRow(Row(i), j)}) :
                   Grown(Opening(i, j), Eir(Row(i)), 1) < Instalment(Row(i))}
<1>1. D \subseteq {j \in 1..(n - 1) : PaymentRow(Row(i), j)}
  BY DEF LastThree
<1>2. MissedPeriods(i, n) = IF Instalment(Row(i)) <= 0 THEN 0 ELSE Min({3, Cardinality(D)})
  BY DEF MissedPeriods
<1>3. D # {} => \E j \in 1..(n - 1) : /\ PaymentRow(Row(i), j)
                                       /\ Grown(Opening(i, j), Eir(Row(i)), 1) < Instalment(Row(i))
  BY <1>1
<1> HIDE DEF D
<1>4. Cardinality(D) \in Nat /\ (D = {} => Cardinality(D) = 0)
  <2>1. IsFiniteSet(1..(n - 1)) /\ D \in SUBSET (1..(n - 1))
    BY <1>1, FS_Interval
  <2>2. QED BY <2>1, SubsetCounts, FS_EmptySet
<1>5. Min({3, Cardinality(D)}) = IF 3 <= Cardinality(D) THEN 3 ELSE Cardinality(D)
  BY <1>4, MinOfTwo
<1>6. QED BY <1>2, <1>3, <1>4, <1>5

BalancesOK == \A i \in DOMAIN walk :
  InstalmentKnown(Row(i)) => Walked(walk[i], Row(i), Eir(Row(i)), Instalment(Row(i)))

LEMMA BalancesNext ==
  ASSUME GateInv, SnapsOK, BalancesOK, [Next]_vars
  PROVE  BalancesOK'
<1>1. ASSUME UNCHANGED book, NEW i
      PROVE  /\ Row(i)' = Row(i) /\ Eir(Row(i))' = Eir(Row(i)) /\ Instalment(Row(i))' = Instalment(Row(i))
  BY <1>1 DEF Row, Eir, LgdOf, LgdRows, Instalment
<1>2. ASSUME UNCHANGED <<book, walk>> PROVE BalancesOK'
  <2>1. \A i : InstalmentKnown(Row(i))' <=> InstalmentKnown(Row(i))
    BY <1>2 DEF Row
  <2>2. QED BY <1>1, <1>2, <2>1 DEF BalancesOK
<1>3. ASSUME NEW accept \in BOOLEAN, ValidateFiles(accept) PROVE BalancesOK'
  BY <1>2, <1>3 DEF ValidateFiles
<1>4. ASSUME ExecuteRun \/ ComputeLgd \/ JoinPd PROVE BalancesOK'
  BY <1>2, <1>4 DEF ExecuteRun, ComputeLgd, JoinPd
<1>5. ASSUME ExpandSnapshots PROVE BalancesOK'
  <2>0. CASE \E i \in EadRows : Row(i).loan \in Numbers
    BY <1>2, <1>5, <2>0 DEF ExpandSnapshots
  <2> SUFFICES ASSUME ~\E i \in EadRows : Row(i).loan \in Numbers PROVE BalancesOK'
    BY <2>0
  <2>1. DOMAIN walk' = EadRows /\ \A i \in EadRows : walk'[i] = <<>>
    BY <1>5 DEF ExpandSnapshots
  <2>2. ASSUME NEW r, NEW e, NEW a PROVE Walked(<<>>, r, e, a)
    BY DEF Walked
  <2>3. QED BY <2>1, <2>2 DEF BalancesOK
<1>6. ASSUME WalkRow PROVE BalancesOK'
  <2>1. phase = "walk" /\ UNCHANGED book
    BY <1>6 DEF WalkRow
  <2>2. DOMAIN walk = EadRows /\ DOMAIN walk' = EadRows /\ Unwalked \subseteq EadRows
    BY <1>6, <2>1 DEF WalkRow, SnapsOK, Early, Unwalked
  <2>3. SUFFICES ASSUME NEW i \in EadRows, InstalmentKnown(Row(i))
                 PROVE  Walked(walk'[i], Row(i), Eir(Row(i)), Instalment(Row(i)))
    <3>1. \A i : InstalmentKnown(Row(i))' <=> InstalmentKnown(Row(i))
      BY <2>1 DEF Row
    <3>2. QED BY <1>1, <2>1, <2>2, <3>1 DEF BalancesOK
  <2>4. CASE i \notin Unwalked
    BY <1>6, <2>2, <2>3, <2>4 DEF WalkRow, BalancesOK
  <2>5. CASE i \in Unwalked
    <3>1. PICK w, r, e, a, n, c : /\ w = walk[i] /\ r = Row(i) /\ e = Eir(Row(i)) /\ a = Instalment(Row(i))
                                  /\ n = Len(walk[i]) + 1 /\ c = MissedPeriods(i, n)
      OBVIOUS
    <3>2. a \in Int /\ e \in 0..RateUnit /\ r.outstanding \in Int /\ Walked(w, r, e, a)
      <4>1. a \in Int
        BY <2>1, <2>3, <3>1, InstalmentIsNumber
      <4>2. e \in 0..RateUnit
        BY <2>1, <3>1, ValidatedRates
      <4>3. r.outstanding \in Int
        BY <3>1, BookFields DEF GateInv
      <4>4. Walked(w, r, e, a)
        BY <2>2, <2>3, <3>1 DEF BalancesOK
      <4>5. QED BY <4>1, <4>2, <4>3, <4>4
    <3>3. Len(w) \in Nat /\ n = Len(w) + 1 /\ n - 1 = Len(w) /\ n \in Nat
      BY <3>1, <3>2 DEF Walked
    <3>4. \A j : Opening(i, j) = OpenedWith(w, r, j)
      BY <3>1 DEF Opening, OpenedWith
    <3>5. /\ c \in 0..3
          /\ c > 0 => a > 0 /\ \E j \in 1..Len(w) : PaymentRow(r, j) /\ Grown(OpenedWith(w, r, j), e, 1) < a
      BY <3>1, <3>2, <3>3, <3>4, MissedEarlier
    <3>6. AfterRepayment(i, n) = Repaid(w, r, e, a, n)
      BY <2>3, <3>1, <3>4 DEF AfterRepayment, Repaid
    <3>7. walk'[i] = Append(w, [repaid |-> Repaid(w, r, e, a, n),
                                missed |-> Grown(Repaid(w, r, e, a, n), e, c)])
      <4>1. walk'[i] = Append(walk[i], [repaid |-> AfterRepayment(i, n),
                                        missed |-> Grown(AfterRepayment(i, n), Eir(Row(i)), MissedPeriods(i, n))])
        BY <1>6, <2>5, <3>1 DEF WalkRow
      <4>2. QED BY <3>1, <3>6, <4>1
    <3>8. Walked(walk'[i], r, e, a)
      BY <3>2, <3>3, <3>5, <3>7, OneMoreRow
    <3>9. QED BY <3>1, <3>8
  <2>6. QED BY <2>4, <2>5
<1>7. ASSUME UNCHANGED vars PROVE BalancesOK'
  BY <1>2, <1>7 DEF vars
<1>8. QED BY <1>3, <1>4, <1>5, <1>6, <1>7 DEF Next

LEMMA Balances == Spec => []BalancesOK
<1>1. Init => BalancesOK
  BY DEF Init, BalancesOK
<1>2. GateInv /\ SnapsOK /\ BalancesOK /\ [Next]_vars => BalancesOK'
  BY BalancesNext
<1>3. QED BY <1>1, <1>2, Gate, Snaps, PTL DEF Spec

\* No payment that was missed adds interest to a balance that is a number.
MissedPaymentsAddNothing ==
  \A i \in DOMAIN walk : InstalmentKnown(Row(i)) => \A n \in DOMAIN walk[i] : walk[i][n].missed = walk[i][n].repaid

\* Whatever the loans, their stages, their rates and their payment rows, missed payments are free: the
\* template's sentence on Stage 3 loans (generate_templates.py:637) holds of no run.
THEOREM MissedPaymentsAreFree == Spec => []MissedPaymentsAddNothing
<1>1. BalancesOK => MissedPaymentsAddNothing
  BY DEF BalancesOK, Walked, MissedPaymentsAddNothing
<1>2. QED BY <1>1, Balances, PTL

-----------------------------------------------------------------------------
(* The annuity.                                                            *)

LEMMA Quotient ==
  ASSUME NEW x \in Nat, NEW d \in Nat \ {0}
  PROVE  x \div d \in Nat /\ d * (x \div d) <= x /\ x \div d <= x
<1>1. PICK q \in Int : q = x \div d
  OBVIOUS
<1>2. d * q <= x /\ x < d * q + d
  BY <1>1
<1>3. q >= 0
  <2>1. SUFFICES ASSUME q < 0 PROVE FALSE
    OBVIOUS
  <2>2. PICK k \in Nat : q = -1 - k
    <3>1. -1 - q \in Nat /\ q = -1 - (-1 - q)
      BY <2>1
    <3>2. QED BY <3>1
  <2>3. d * q + d = -(d * k)
    BY <2>2
  <2>4. d * k \in Nat
    OBVIOUS
  <2>5. QED BY <1>2, <2>3, <2>4
<1>4. q <= d * q
  BY <1>3
<1>5. QED BY <1>1, <1>2, <1>3, <1>4

LEMMA ExactQuotient ==
  ASSUME NEW x \in Nat, NEW d \in Nat \ {0}, x % d = 0
  PROVE  \E q \in Nat : x = d * q /\ x \div d = q
<1>1. PICK q \in Nat : q = x \div d
  BY Quotient
<1>2. x = d * q
  BY <1>1
<1>3. QED BY <1>1, <1>2

LEMMA Cancelled ==
  ASSUME NEW x \in Nat, NEW d \in Nat \ {0}
  PROVE  (d * x) \div d = x
OBVIOUS

\* A month's growth of a multiple of a year.
LEMMA GrownByMonth ==
  ASSUME NEW x \in Nat, NEW e \in 0..RateUnit
  PROVE  Grown(Year * x, e, 1) = x * (Year + e)
<1>1. ASSUME NEW b \in Nat PROVE Power(b, 1) = b
  <2>1. Power(b, 0 + 1) = b * Power(b, 0) /\ Power(b, 0) = 1
    BY PowerNext, PowerZero
  <2>2. QED BY <2>1
<1>2. Power(Year, 1) = Year /\ Power(Year + e, 1) = Year + e
  <2>1. Year \in Nat /\ Year + e \in Nat
    BY YearIs
  <2>2. QED BY <1>1, <2>1
<1>3. (Year * x) \div Year = x
  BY YearIs, Cancelled
<1>4. Grown(Year * x, e, 1) = IF 1 = 0 THEN Year * x ELSE ((Year * x) \div Power(Year, 1)) * Power(Year + e, 1)
  BY GrownIs
<1>5. QED BY <1>2, <1>3, <1>4

\* What a debt has grown to is at most what it would have grown to with interest from the start.
Mixed(b, c, n, k) == Power(b, n - k) * Power(c, k)

LEMMA MixedPowers ==
  ASSUME NEW b \in Nat \ {0}, NEW c \in Nat \ {0}, b <= c, NEW n \in Nat, NEW k \in 0..n
  PROVE  /\ Mixed(b, c, n, k) \in Nat /\ Mixed(b, c, n, k) <= Power(c, n)
         /\ k < n => b * Mixed(b, c, n, k + 1) = c * Mixed(b, c, n, k)
<1>1. ASSUME NEW a \in {b, c}, NEW j \in Nat
      PROVE  Power(a, j) \in Nat \ {0} /\ Power(a, j + 1) = a * Power(a, j)
  <2>1. a \in Nat \ {0}
    OBVIOUS
  <2>2. QED BY <2>1, PowerPositive, PowerNext
<1> DEFINE G == {d \in Nat : d <= n => Power(b, d) * Power(c, n - d) <= Power(c, n)}
<1>2. 0 \in G
  <2>1. PICK t \in Nat : t = Power(c, n)
    <3>1. c \in {b, c}
      OBVIOUS
    <3>2. QED BY <1>1, <3>1
  <2>2. Power(b, 0) = 1 /\ n - 0 = n
    BY PowerZero
  <2>3. 1 * t <= t
    OBVIOUS
  <2>4. QED BY <2>1, <2>2, <2>3
<1>3. ASSUME NEW d \in Nat, d \in G PROVE d + 1 \in G
  <2>1. SUFFICES ASSUME d + 1 <= n PROVE Power(b, d + 1) * Power(c, n - (d + 1)) <= Power(c, n)
    OBVIOUS
  <2>2. PICK m \in Nat : m = n - (d + 1) /\ n - d = m + 1
    <3>1. n - (d + 1) \in Nat /\ n - d = (n - (d + 1)) + 1
      BY <2>1
    <3>2. QED BY <3>1
  <2>3. PICK p, q, t \in Nat : p = Power(b, d) /\ q = Power(c, m) /\ t = Power(c, n)
    BY <1>1
  <2>4. Power(b, d + 1) = b * p /\ Power(c, n - d) = c * q
    BY <1>1, <2>2, <2>3
  <2>5. p * (c * q) <= t
    BY <1>3, <2>1, <2>3, <2>4
  <2>6. (b * p) * q <= p * (c * q)
    <3>1. PICK z \in Nat : z = p * q
      OBVIOUS
    <3>2. (b * p) * q = b * z /\ p * (c * q) = c * z
      BY <3>1
    <3>3. b * z <= c * z
      OBVIOUS
    <3>4. QED BY <3>2, <3>3
  <2>7. (b * p) * q <= t
    <3>1. (b * p) * q \in Nat /\ p * (c * q) \in Nat
      OBVIOUS
    <3>2. QED BY <2>5, <2>6, <3>1
  <2>8. QED BY <2>2, <2>3, <2>4, <2>7
<1>4. \A d \in Nat : d \in G
  <2> HIDE DEF G
  <2>1. QED BY <1>2, <1>3, Successors
<1>5. /\ Power(b, n - k) * Power(c, k) \in Nat
      /\ Power(b, n - k) * Power(c, k) <= Power(c, n)
  <2>1. n - k \in Nat /\ n - k <= n /\ n - (n - k) = k /\ k \in Nat
    OBVIOUS
  <2>2. Power(b, n - k) * Power(c, n - (n - k)) <= Power(c, n)
    BY <1>4, <2>1
  <2>3. Power(b, n - k) \in Nat /\ Power(c, k) \in Nat
    BY <1>1, <2>1
  <2>4. QED BY <2>1, <2>2, <2>3
<1>6. ASSUME k < n
      PROVE  b * (Power(b, n - (k + 1)) * Power(c, k + 1)) = c * (Power(b, n - k) * Power(c, k))
  <2>1. PICK m \in Nat : m = n - (k + 1) /\ n - k = m + 1
    <3>1. n - (k + 1) \in Nat /\ n - k = (n - (k + 1)) + 1
      BY <1>6
    <3>2. QED BY <3>1
  <2>2. k \in Nat
    OBVIOUS
  <2>3. PICK p, q \in Nat : p = Power(b, m) /\ q = Power(c, k)
    BY <1>1, <2>2
  <2>4. Power(b, n - k) = b * p /\ Power(c, k + 1) = c * q
    BY <1>1, <2>1, <2>2, <2>3
  <2>5. b * (p * (c * q)) = c * ((b * p) * q)
    OBVIOUS
  <2>6. QED BY <2>1, <2>3, <2>4, <2>5
<1>7. QED BY <1>5, <1>6 DEF Mixed

\* The amounts a loan owes after each of its n monthly instalments a at rate e, from x to nothing.
PaysOff(o, x, e, n, a) ==
  /\ o[0] = x /\ o[n] = 0
  /\ \A k \in 0..n : o[k] \in Nat
  /\ \A k \in 0..n : k < n => Grown(o[k], e, 1) - a = o[k + 1]

LEMMA WithoutInterest ==
  ASSUME NEW x \in Nat, NEW n \in Nat \ {0}, x % (Year * n) = 0
  PROVE  \E o : PaysOff(o, x, 0, n, Annuity(x, 0, n, 12))
<1>1. PICK y \in Nat \ {0} : y = Year
  BY YearIs
<1>2. PICK q \in Nat : x = (y * n) * q
  <2>1. y * n \in Nat \ {0}
    OBVIOUS
  <2>2. QED BY <1>1, <2>1, ExactQuotient, ZenonT(60)
<1>3. PICK a \in Nat : a = y * q
  OBVIOUS
<1>4. x = n * a
  BY <1>2, <1>3
<1>5. Annuity(x, 0, n, 12) = a
  <2>1. (n * a) \div n = a
    BY Cancelled
  <2>2. QED BY <1>4, <2>1 DEF Annuity
<1>6. PICK o : o = [k \in 0..n |-> a * (n - k)]
  OBVIOUS
<1>7. ASSUME NEW k \in 0..n
      PROVE  o[k] \in Nat /\ o[k] = y * (q * (n - k)) /\ q * (n - k) \in Nat
  <2>1. PICK m \in Nat : m = n - k
    OBVIOUS
  <2>2. a * m \in Nat /\ q * m \in Nat /\ a * m = y * (q * m)
    BY <1>3
  <2>3. QED BY <1>6, <2>1, <2>2
<1>8. o[0] = x /\ o[n] = 0
  <2>1. 0 \in 0..n /\ n \in 0..n /\ n - n = 0 /\ n - 0 = n
    OBVIOUS
  <2>2. a * 0 = 0 /\ a * n = n * a
    OBVIOUS
  <2>3. QED BY <1>4, <1>6, <2>1, <2>2
<1>9. ASSUME NEW k \in 0..n, k < n PROVE Grown(o[k], 0, 1) - a = o[k + 1]
  <2>1. PICK m \in Nat : m = n - (k + 1) /\ n - k = m + 1
    <3>1. n - (k + 1) \in Nat /\ n - k = (n - (k + 1)) + 1
      BY <1>9
    <3>2. QED BY <3>1
  <2>2. k + 1 \in 0..n
    BY <1>9
  <2>3. PICK z \in Nat : z = q * (m + 1)
    OBVIOUS
  <2>4. o[k] = y * z /\ o[k + 1] = a * m
    BY <1>6, <1>7, <2>1, <2>2, <2>3
  <2>5. Grown(y * z, 0, 1) = z * (y + 0)
    <3>1. 0 \in 0..RateUnit
      OBVIOUS
    <3>2. QED BY <1>1, <3>1, GrownByMonth
  <2>6. z * (y + 0) - a = a * m
    <3>1. z * y = y * q * m + y * q
      BY <2>3
    <3>2. a * m = y * q * m
      BY <1>3
    <3>3. QED BY <1>3, <3>1, <3>2
  <2>7. QED BY <2>4, <2>5, <2>6
<1>10. QED BY <1>5, <1>7, <1>8, <1>9 DEF PaysOff

\* One instalment: b and c are the parts of a year without and with a month's interest, u and v what
\* a debt has grown to before and after it.
LEMMA OneInstalment ==
  ASSUME NEW b \in Nat, NEW e \in Nat, NEW q \in Nat, NEW t \in Nat, NEW u \in Nat, NEW v \in Nat,
         b * v = (b + e) * u
  PROVE  (q * (t - u)) * (b + e) - q * e * t = b * (q * (t - v))
<1>1. PICK y, w \in Nat : y = q * t /\ w = q * u
  OBVIOUS
<1>2. q * (t - u) = y - w
  BY <1>1
<1>3. (y - w) * (b + e) = b * y + e * y - (b + e) * w
  OBVIOUS
<1>4. q * e * t = e * y
  BY <1>1
<1>5. b * (q * (t - v)) = b * y - q * (b * v)
  BY <1>1
<1>6. q * (b * v) = (b + e) * w
  BY <1>1
<1>7. PICK i, j, k \in Int : i = b * y /\ j = e * y /\ k = (b + e) * w
  OBVIOUS
<1>8. QED BY <1>2, <1>3, <1>4, <1>5, <1>6, <1>7

LEMMA WithInterest ==
  ASSUME NEW x \in Nat, NEW e \in 1..RateUnit, NEW n \in Nat \ {0},
         x % (Year * (Power(Year + e, n) - Power(Year, n))) = 0
  PROVE  \E o : PaysOff(o, x, e, n, Annuity(x, e, n, 12))
<1>1. PICK b, c \in Nat \ {0} : b = Year /\ c = Year + e /\ b < c /\ c = b + e
  BY YearIs
<1>2. PICK p, t \in Nat \ {0} : p = Power(b, n) /\ t = Power(c, n) /\ t > p
  <2>1. Power(b, n) \in Nat \ {0} /\ Power(c, n) \in Nat \ {0}
    BY PowerPositive
  <2>2. Power(c, n) > Power(b, n)
    BY <1>1, PowerGrows
  <2>3. QED BY <2>1, <2>2
<1>3. PICK d \in Nat \ {0} : d = b * (t - p)
  <2>1. PICK k \in Nat \ {0} : k = t - p
    BY <1>2
  <2>2. b * k \in Nat \ {0}
    OBVIOUS
  <2>3. QED BY <2>1, <2>2
<1>4. PICK q \in Nat : x = d * q /\ x \div d = q
  BY <1>1, <1>2, <1>3, ExactQuotient, ZenonT(60)
<1>5. PICK a \in Nat : a = q * e * t
  <2>1. e \in Nat
    OBVIOUS
  <2>2. QED BY <2>1
<1>6. Annuity(x, e, n, 12) = a
  <2>1. e # 0
    OBVIOUS
  <2>2. Annuity(x, e, n, 12)
          = (x \div (Year * (Power(Year + e, n) - Power(Year, n)))) * e * Power(Year + e, n)
    BY <2>1, Zenon DEF Annuity, Year
  <2>3. x \div (b * (t - p)) = q
    BY <1>3, <1>4
  <2>4. QED BY ONLY <1>1, <1>2, <1>5, <2>2, <2>3, Zenon
<1>7. PICK g : g = [k \in 0..n |-> Mixed(b, c, n, k)]
  OBVIOUS
<1>8. \A k \in 0..n : g[k] \in Nat /\ g[k] <= t /\ (k < n => b * g[k + 1] = c * g[k])
  <2>1. SUFFICES ASSUME NEW k \in 0..n
                 PROVE  g[k] \in Nat /\ g[k] <= t /\ (k < n => b * g[k + 1] = c * g[k])
    OBVIOUS
  <2>2. g[k] = Mixed(b, c, n, k) /\ (k < n => g[k + 1] = Mixed(b, c, n, k + 1))
    BY <1>7
  <2>3. n \in Nat /\ b <= c
    BY <1>1
  <2>4. /\ Mixed(b, c, n, k) \in Nat /\ Mixed(b, c, n, k) <= Power(c, n)
        /\ k < n => b * Mixed(b, c, n, k + 1) = c * Mixed(b, c, n, k)
    BY ONLY <2>3, b \in Nat \ {0}, c \in Nat \ {0}, k \in 0..n, MixedPowers
  <2>5. QED BY <1>2, <2>2, <2>4
<1>9. g[0] = p /\ g[n] = t
  <2>1. 0 \in 0..n /\ n \in 0..n /\ n - n = 0 /\ n - 0 = n
    OBVIOUS
  <2>2. g[0] = Power(b, n) * Power(c, 0) /\ g[n] = Power(b, 0) * Power(c, n)
    BY <1>7, <2>1 DEF Mixed
  <2>3. Power(b, 0) = 1 /\ Power(c, 0) = 1
    BY PowerZero
  <2>4. QED BY <1>2, <2>2, <2>3
<1>10. PICK o : o = [k \in 0..n |-> b * (q * (t - g[k]))]
  OBVIOUS
<1>11. ASSUME NEW k \in 0..n PROVE q * (t - g[k]) \in Nat /\ o[k] \in Nat
  <2>1. PICK m \in Nat : m = t - g[k]
    BY <1>8
  <2>2. PICK z \in Nat : z = q * m
    OBVIOUS
  <2>3. b * z \in Nat
    OBVIOUS
  <2>4. QED BY <1>10, <2>1, <2>2, <2>3
<1>12. o[0] = x /\ o[n] = 0
  <2>1. 0 \in 0..n /\ n \in 0..n
    OBVIOUS
  <2>2. o[0] = b * (q * (t - p)) /\ o[n] = b * (q * (t - t))
    BY <1>9, <1>10, <2>1
  <2>3. b * (q * (t - p)) = d * q
    BY <1>3
  <2>4. t - t = 0 /\ q * 0 = 0 /\ b * 0 = 0
    OBVIOUS
  <2>5. QED BY <1>4, <2>2, <2>3, <2>4
<1>13. ASSUME NEW k \in 0..n, k < n PROVE Grown(o[k], e, 1) - a = o[k + 1]
  <2>1. k + 1 \in 0..n
    BY <1>13
  <2>2. PICK u, v \in Nat : u = g[k] /\ v = g[k + 1] /\ b * v = c * u
    BY <1>8, <1>13, <2>1
  <2>3. PICK z \in Nat : z = q * (t - u)
    BY <1>11, <2>2
  <2>4. o[k] = b * z /\ o[k + 1] = b * (q * (t - v))
    BY <1>10, <2>1, <2>2, <2>3
  <2>5. Grown(b * z, e, 1) = z * (b + e)
    <3>1. e \in 0..RateUnit
      OBVIOUS
    <3>2. QED BY <1>1, <3>1, GrownByMonth
  <2>6. z * (b + e) - a = b * (q * (t - v))
    <3>1. e \in Nat /\ b * v = (b + e) * u
      BY <1>1, <2>2
    <3>2. (q * (t - u)) * (b + e) - q * e * t = b * (q * (t - v))
      BY ONLY <3>1, b \in Nat \ {0}, q \in Nat, t \in Nat \ {0}, u \in Nat, v \in Nat, OneInstalment
    <3>3. QED BY <1>5, <2>3, <3>2
  <2>7. QED BY ONLY <2>4, <2>5, <2>6, Zenon
<1>14. QED BY <1>6, <1>11, <1>12, <1>13 DEF PaysOff

\* A walk follows the amounts of the annuity.
LEMMA WalkPaysOff ==
  ASSUME NEW w, NEW r, r.freq = "MTH", NEW e \in 0..RateUnit, NEW a \in Int, Walked(w, r, e, a),
         NEW n \in Nat \ {0}, NEW o, PaysOff(o, r.outstanding, e, n, a), n \in DOMAIN w
  PROVE  w[n].repaid = 0
<1>1. /\ w \in Seq([repaid : Int, missed : Int]) /\ Len(w) \in Nat /\ DOMAIN w = 1..Len(w)
      /\ \A k \in DOMAIN w : w[k].repaid = Repaid(w, r, e, a, k)
  BY DEF Walked
<1>2. \A k : PaymentRow(r, k)
  BY DEF PaymentRow
<1> DEFINE G == {k \in Nat : k <= n => OpenedWith(w, r, k + 1) = o[k]}
<1>3. 0 \in G
  BY DEF OpenedWith, PaysOff
<1>4. ASSUME NEW k \in Nat, k \in G PROVE k + 1 \in G
  <2>1. SUFFICES ASSUME k + 1 <= n PROVE OpenedWith(w, r, (k + 1) + 1) = o[k + 1]
    OBVIOUS
  <2>2. k \in 0..n /\ k + 1 \in 0..n /\ k < n /\ k + 1 \in DOMAIN w
    BY <1>1, <2>1
  <2>3. OpenedWith(w, r, k + 1) = o[k]
    BY <1>4, <2>2
  <2>4. OpenedWith(w, r, (k + 1) + 1) = w[k + 1].repaid
    BY DEF OpenedWith
  <2>5. w[k + 1].repaid = Clamped(Grown(o[k], e, 1) - a)
    BY <1>1, <1>2, <2>2, <2>3 DEF Repaid
  <2>6. Grown(o[k], e, 1) - a = o[k + 1] /\ o[k + 1] \in Nat
    BY <2>2 DEF PaysOff
  <2>7. Clamped(o[k + 1]) = o[k + 1]
    <3>1. PICK y \in Nat : y = o[k + 1]
      BY <2>6
    <3>2. Max({y, 0}) = y
      BY MaxOfTwo
    <3>3. QED BY <3>1, <3>2 DEF Clamped
  <2>8. QED BY <2>4, <2>5, <2>6, <2>7
<1>5. \A k \in Nat : k \in G
  <2> HIDE DEF G
  <2>1. QED BY <1>3, <1>4, Successors
<1>6. OpenedWith(w, r, n + 1) = o[n]
  BY <1>5
<1>7. OpenedWith(w, r, n + 1) = w[n].repaid
  BY DEF OpenedWith
<1>8. QED BY <1>6, <1>7 DEF PaysOff

LEMMA ValidatedAmount ==
  ASSUME GateInv, phase \notin {"uploaded", "validated"}, NEW i \in EadRows
  PROVE  Row(i).outstanding \in Nat
<1>1. GivenBook /\ Judged /\ MayExecute /\ accepted = [k \in Kinds |-> FALSE]
  BY DEF GateInv
<1>2. verdict["EAD"] # "error"
  BY <1>1 DEF MayExecute, Kinds
<1>3. ~(Blocks("EAD") > 0)
  BY <1>1, <1>2 DEF Judged, Kinds
<1>4. ~(ValidateEad(book.ead, Segments) > 0)
  BY <1>3 DEF Blocks
<1>5. IsFiniteSet(book.ead.absent) /\ IsFiniteSet(DOMAIN book.ead.rows)
  BY <1>1, BookFields DEF EadRows, LgdRows
<1>6. book.ead.absent = {} /\ NumericRange(book.ead, "outstanding", 0, Highest) = 0
  BY <1>4, <1>5, PassedEad
<1>7. book.ead.rows[i]["outstanding"] \in Int /\ i \in DOMAIN book.ead.rows
  BY <1>1, BookFields DEF EadRows, Row
<1>8. book.ead.rows[i]["outstanding"] \in Nat
  BY <1>5, <1>6, <1>7, NumberInRange
<1>9. QED BY <1>8 DEF Row

\* The last instalment of a monthly loan leaves nothing, whatever its amount, its term, its rate and
\* the file the rate comes from, as long as the unit of the amounts divides its instalments.
THEOREM MonthlyLoansArePaidOff ==
  ASSUME WholeInstalments
  PROVE  Spec => []PaidOffAtMaturity
<1>1. GateInv /\ SnapsOK /\ BalancesOK => PaidOffAtMaturity
  <2>1. SUFFICES ASSUME GateInv, SnapsOK, BalancesOK, NEW i \in DOMAIN walk, Row(i).freq = "MTH",
                        TermKnown(Row(i)),
                        MonthsBetween(Row(i).reporting, Row(i).adjusted) \in DOMAIN walk[i]
                 PROVE  walk[i][MonthsBetween(Row(i).reporting, Row(i).adjusted)].repaid = 0
    BY DEF PaidOffAtMaturity
  <2>2. i \in EadRows /\ phase \notin {"uploaded", "validated"} /\ InstalmentKnown(Row(i))
    BY <2>1, Expansion DEF Early, InstalmentKnown
  <2>3. PICK w, r, e, a, n : /\ w = walk[i] /\ r = Row(i) /\ e = Eir(Row(i)) /\ a = Instalment(Row(i))
                             /\ n = MonthsBetween(Row(i).reporting, Row(i).adjusted)
    OBVIOUS
  <2>4. e \in 0..RateUnit /\ a \in Int /\ Walked(w, r, e, a)
    BY <2>1, <2>2, <2>3, ValidatedRates, InstalmentIsNumber DEF BalancesOK
  <2>5. n \in DOMAIN w /\ n \in Nat \ {0} /\ r.freq = "MTH"
    <3>1. DOMAIN w = 1..Len(w) /\ Len(w) \in Nat
      BY <2>4 DEF Walked
    <3>2. QED BY <2>1, <2>3, <3>1
  <2>6. Remaining(r) = n
    BY <2>1, <2>2, <2>3, MonthsLeft
  <2>7. a = Annuity(r.outstanding, e, n, 12)
    BY <2>1, <2>3, <2>5, <2>6 DEF Instalment
  <2>8. r.outstanding \in Nat
    BY <2>1, <2>2, <2>3, ValidatedAmount
  <2>9. r.outstanding > 0 =>
          /\ r.outstanding % (Year * n) = 0
          /\ e # 0 => r.outstanding % (Year * (Power(Year + e, n) - Power(Year, n))) = 0
    <3>1. PICK f \in DOMAIN Books : book \in Books[f]
      BY <2>1 DEF GateInv, GivenBook
    <3>2. i \in DOMAIN book.ead.rows /\ r = book.ead.rows[i]
      BY <2>2, <2>3 DEF EadRows, Row
    <3>3. {r.reporting, r.adjusted} \subseteq BookDates
      BY <2>1, <2>2, <2>3, ValidatedDates DEF TermKnown
    <3>4. r.outstanding > 0 =>
            /\ r.outstanding % (Year * n) = 0
            /\ \A x \in 1..RateUnit : r.outstanding % (Year * (Power(Year + x, n) - Power(Year, n))) = 0
      <4>1. n > 0 /\ n = MonthsBetween(r.reporting, r.adjusted)
        BY <2>3, <2>5
      <4>2. QED BY <2>5, <3>1, <3>2, <3>3, <4>1, Zenon DEF WholeInstalments, Year
    <3>5. e # 0 => e \in 1..RateUnit
      BY <2>4
    <3>6. QED BY ONLY <3>4, <3>5, Zenon
  <2>10. \E o : PaysOff(o, r.outstanding, e, n, a)
    <3>1. CASE e = 0
      <4>1. r.outstanding % (Year * n) = 0
        <5>1. PICK c \in Nat \ {0} : c = Year * n
          BY <2>5, YearIs
        <5>2. 0 % c = 0
          OBVIOUS
        <5>3. QED BY <2>8, <2>9, <5>1, <5>2
      <4>2. QED BY <2>5, <2>7, <2>8, <3>1, <4>1, WithoutInterest
    <3>2. CASE e # 0
      <4>1. e \in 1..RateUnit
        BY <2>4, <3>2
      <4>2. r.outstanding % (Year * (Power(Year + e, n) - Power(Year, n))) = 0
        <5>1. PICK c \in Nat \ {0} : c = Year * (Power(Year + e, n) - Power(Year, n))
          <6>1. Year \in Nat \ {0} /\ Year + e \in Nat \ {0} /\ Year < Year + e /\ n \in Nat
            BY <2>5, <4>1, YearIs
          <6>2. PICK p, t \in Nat \ {0} : p = Power(Year, n) /\ t = Power(Year + e, n)
            BY <6>1, PowerPositive
          <6>3. t > p
            BY <2>5, <6>1, <6>2, PowerGrows
          <6>4. PICK k \in Nat \ {0} : k = t - p
            BY <6>3
          <6>5. Year * k \in Nat \ {0}
            BY <6>1
          <6>6. QED BY <6>2, <6>4, <6>5
        <5>2. 0 % c = 0
          OBVIOUS
        <5>3. QED BY <2>8, <2>9, <3>2, <5>1, <5>2
      <4>3. QED BY <2>5, <2>7, <2>8, <4>1, <4>2, WithInterest
    <3>3. QED BY <3>1, <3>2
  <2>11. w[n].repaid = 0
    BY <2>4, <2>5, <2>10, WalkPaysOff
  <2>12. QED BY <2>3, <2>11
<1>2. QED BY <1>1, Gate, Snaps, Balances, PTL

-----------------------------------------------------------------------------
(* compute_lgd.                                                            *)

Shared == lgd = [i \in LgdRows |-> Discounted(book.lgd.rows[i])]

LgdOK ==
  \/ phase \in {"uploaded", "validated", "lgd", "failed"} /\ lgd = <<>>
  \/ phase \notin {"uploaded", "validated", "lgd"} /\ Shared

LEMMA Lgds == Spec => []LgdOK
<1>1. Init => LgdOK
  BY DEF Init, LgdOK
<1>2. ASSUME UNCHANGED book PROVE LgdRows' = LgdRows /\ \A r : Discounted(r)' = Discounted(r)
  BY <1>2 DEF LgdRows, Discounted, ProportionalCollateral, CustomerTotal
<1>3. LgdOK /\ [Next]_vars => LgdOK'
  <2> SUFFICES ASSUME LgdOK, [Next]_vars PROVE LgdOK'
    OBVIOUS
  <2>1. ASSUME UNCHANGED <<book, lgd>>,
               phase \in {"uploaded", "validated", "lgd"} <=> phase' \in {"uploaded", "validated", "lgd"},
               phase = "failed" => phase' = "failed"
        PROVE  LgdOK'
    BY <1>2, <2>1 DEF LgdOK, Shared
  <2>2. ASSUME NEW accept \in BOOLEAN, ValidateFiles(accept) PROVE LgdOK'
    BY <2>1, <2>2 DEF ValidateFiles
  <2>3. ASSUME ComputeLgd PROVE LgdOK'
    <3>1. CASE LgdLoans \cap Numbers # {} /\ ~(LgdLoans \subseteq Numbers)
      BY <2>3, <3>1 DEF ComputeLgd, LgdOK
    <3>2. CASE ~(LgdLoans \cap Numbers # {} /\ ~(LgdLoans \subseteq Numbers))
      BY <1>2, <2>3, <3>2 DEF ComputeLgd, LgdOK, Shared
    <3>3. QED BY <3>1, <3>2
  <2>4. ASSUME ExecuteRun \/ ExpandSnapshots \/ WalkRow \/ JoinPd PROVE LgdOK'
    BY <2>1, <2>4 DEF ExecuteRun, ExpandSnapshots, WalkRow, JoinPd
  <2>5. ASSUME UNCHANGED vars PROVE LgdOK'
    BY <2>1, <2>5 DEF vars
  <2>6. QED BY <2>2, <2>3, <2>4, <2>5 DEF Next
<1>4. QED BY <1>1, <1>3, PTL DEF Spec

\* The numbers of a validated LGD sheet.
LEMMA ValidatedLgd ==
  ASSUME GateInv, phase \notin {"uploaded", "validated"}, NEW i \in LgdRows
  PROVE  /\ book.lgd.rows[i].eir \in 0..RateUnit /\ book.lgd.rows[i].outstanding \in Nat
         /\ book.lgd.extra # {} => book.lgd.rows[i].pledged \in Nat
<1>1. GivenBook /\ Judged /\ MayExecute /\ accepted = [k \in Kinds |-> FALSE]
  BY DEF GateInv
<1>2. verdict["LGD"] # "error"
  BY <1>1 DEF MayExecute, Kinds
<1>3. ~(ValidateLgd(book.lgd, book.lgd.extra) > 0)
  BY <1>1, <1>2 DEF Judged, Kinds, Blocks
<1>4. IsFiniteSet(book.lgd.absent) /\ IsFiniteSet(book.lgd.extra) /\ IsFiniteSet(DOMAIN book.lgd.rows)
  BY <1>1, BookFields DEF LgdRows
<1>5. /\ book.lgd.absent = {} /\ NumericRange(book.lgd, "eir", 0, RateUnit) = 0
      /\ NumericRange(book.lgd, "outstanding", 0, Highest) = 0
      /\ book.lgd.extra # {} => NumericRange(book.lgd, "pledged", 0, Highest) = 0
  <2>1. book.lgd.extra \cap book.lgd.extra = book.lgd.extra
    OBVIOUS
  <2>2. QED BY <1>3, <1>4, <2>1, PassedLgd
<1>6. /\ book.lgd.rows[i]["eir"] \in Int /\ book.lgd.rows[i]["outstanding"] \in Int
      /\ book.lgd.rows[i]["pledged"] \in Int /\ i \in DOMAIN book.lgd.rows
  BY <1>1, BookFields DEF LgdRows
<1>7. book.lgd.rows[i]["eir"] \in 0..RateUnit
  BY <1>4, <1>5, <1>6, RateInRange
<1>8. book.lgd.rows[i]["outstanding"] \in Nat
  BY <1>4, <1>5, <1>6, NumberInRange
<1>9. book.lgd.extra # {} => book.lgd.rows[i]["pledged"] \in Nat
  BY <1>4, <1>5, <1>6, NumberInRange
<1>10. QED BY <1>7, <1>8, <1>9

\* A haircut and a discount take something away.
LEMMA DiscountedAtMost ==
  ASSUME NEW x \in Nat, NEW h \in 0..100, NEW u \in Nat \ {0}, NEW v \in Nat \ {0}, u <= v
  PROVE  ((x \div 100) * (100 - h) * u) \div v \in 0..x
<1>1. PICK q \in Nat : q = x \div 100 /\ 100 * q <= x
  <2>1. 100 \in Nat \ {0}
    OBVIOUS
  <2>2. QED BY <2>1, Quotient
<1>2. q * (100 - h) \in Nat /\ q * (100 - h) <= 100 * q
  <2>1. PICK k \in Nat : k = 100 - h /\ k <= 100
    OBVIOUS
  <2>2. q * k <= q * 100 /\ q * k \in Nat
    BY <2>1
  <2>3. QED BY <2>1, <2>2
<1>3. PICK y \in Nat : y = q * (100 - h) /\ y <= x
  BY <1>1, <1>2
<1>4. PICK z \in Nat : z = y * u /\ z <= y * v
  <2>1. y * u <= y * v /\ y * u \in Nat
    OBVIOUS
  <2>2. QED BY <2>1
<1>5. PICK d \in Nat : d = z \div v /\ v * d <= z
  BY Quotient
<1>6. d <= y
  <2>1. SUFFICES ASSUME d > y PROVE FALSE
    OBVIOUS
  <2>2. PICK k \in Nat \ {0} : d = y + k
    <3>1. d - y \in Nat \ {0} /\ d = y + (d - y)
      BY <2>1
    <3>2. QED BY <3>1
  <2>3. v * d = y * v + v * k /\ v * k > 0
    BY <2>2
  <2>4. v * d \in Int /\ y * v \in Int /\ v * k \in Int
    OBVIOUS
  <2>5. QED BY ONLY <1>4, <1>5, <2>3, <2>4, z \in Nat
<1>7. QED BY <1>1, <1>3, <1>4, <1>5, <1>6

\* The discount over Config.delay years.
LEMMA DiscountFactors ==
  ASSUME NEW e \in 0..RateUnit
  PROVE  /\ Config.haircut \in 0..100
         /\ Power(RateUnit, Config.delay) \in Nat \ {0} /\ Power(RateUnit + e, Config.delay) \in Nat \ {0}
         /\ Power(RateUnit, Config.delay) <= Power(RateUnit + e, Config.delay)
<1>1. RateUnit \in Nat \ {0} /\ RateUnit + e \in Nat \ {0} /\ RateUnit <= RateUnit + e
  OBVIOUS
<1>2. Config.haircut \in 0..100 /\ Config.delay \in Nat
  BY BooksAssumption
<1>3. QED BY <1>1, <1>2, PowerPositive, PowerAtMost

\* What a loan gets is at most its share: t is what the customer owes, o what the loan does.
LEMMA ShareAtMost ==
  ASSUME NEW p \in Nat, NEW o \in Nat, NEW t \in Nat \ {0}, NEW m \in Nat, p <= m,
         NEW d \in 0..((p * o) \div t)
  PROVE  t * d <= m * o
<1>1. PICK z \in Nat : z = p * o
  OBVIOUS
<1>2. PICK q \in Nat : q = z \div t /\ t * q <= z
  BY Quotient
<1>3. d \in Nat /\ d <= q
  BY <1>1, <1>2
<1>4. t * d <= t * q
  BY <1>3
<1>5. z <= m * o
  BY <1>1
<1>6. t * d \in Int /\ t * q \in Int /\ m * o \in Int
  BY <1>3
<1>7. QED BY ONLY <1>2, <1>4, <1>5, <1>6, z \in Nat

LEMMA SharedOut ==
  ASSUME GateInv, Shared, phase \notin {"uploaded", "validated", "lgd"}, NEW i \in LgdRows
  PROVE  LET same == {j \in LgdRows : book.lgd.rows[j].customer = book.lgd.rows[i].customer}
         IN  SumFunctionOnSet(lgd, same) <= Max({0} \cup {book.lgd.rows[j].pledged : j \in same})
<1> DEFINE same == {j \in LgdRows : book.lgd.rows[j].customer = book.lgd.rows[i].customer}
           P == {0} \cup {book.lgd.rows[j].pledged : j \in same}
           owed == [j \in same |-> book.lgd.rows[j].outstanding]
<1>1. IsFiniteSet(same) /\ same \subseteq LgdRows
  <2>1. IsFiniteSet(LgdRows)
    BY BookFields DEF GateInv
  <2>2. QED BY <2>1, FS_Subset
<1>2. /\ P \in SUBSET Int /\ IsFiniteSet(P) /\ P # {}
  <2> DEFINE A == {book.lgd.rows[j].pledged : j \in same}
             f == [j \in same |-> book.lgd.rows[j].pledged]
  <2>1. f \in Surjection(same, A)
    BY DEF Surjection
  <2>2. IsFiniteSet(A)
    <3> HIDE DEF A, f, same
    <3>1. QED BY <1>1, <2>1, FS_Surjection
  <2>3. A \subseteq Int
    BY <1>1, BookFields DEF GateInv
  <2>4. IsFiniteSet({0})
    BY FS_Singleton
  <2>5. P = {0} \cup A
    OBVIOUS
  <2> HIDE DEF A, P
  <2>6. IsFiniteSet({0} \cup A)
    BY ONLY <2>2, <2>4, FS_Union
  <2>7. {0} \cup A \subseteq Int /\ {0} \cup A # {}
    BY ONLY <2>3
  <2>8. QED BY ONLY <2>5, <2>6, <2>7
<1>3. PICK m \in Nat : m = Max(P) /\ \A j \in same : book.lgd.rows[j].pledged <= m
  <2>1. Max(P) \in P /\ \A y \in P : y <= Max(P)
    <3> HIDE DEF P
    <3>1. QED BY <1>2, MaxInSet
  <2>2. PICK k : k = Max(P)
    OBVIOUS
  <2>3. k \in Int /\ 0 \in P /\ \A y \in P : y <= k
    <3> HIDE DEF P
    <3>1. k \in Int /\ \A y \in P : y <= k
      BY <1>2, <2>1, <2>2
    <3>2. 0 \in P
      BY DEF P
    <3>3. QED BY <3>1, <3>2
  <2>4. k \in Nat /\ \A j \in same : book.lgd.rows[j].pledged <= k
    <3>1. \A j \in same : book.lgd.rows[j].pledged \in P
      OBVIOUS
    <3>2. k \in Nat
      <4> HIDE DEF P
      <4>1. 0 <= k
        BY ONLY <2>3, Zenon
      <4>2. QED BY ONLY <2>3, <4>1
    <3>3. \A j \in same : book.lgd.rows[j].pledged <= k
      BY ONLY <2>3, <3>1, Zenon
    <3>4. QED BY ONLY <3>2, <3>3, Zenon
  <2>5. QED BY ONLY <2>2, <2>4, Zenon
<1>4. ASSUME NEW j \in same
      PROVE  /\ lgd[j] = Discounted(book.lgd.rows[j])
             /\ owed[j] = book.lgd.rows[j].outstanding /\ owed[j] \in Nat
             /\ book.lgd.rows[j].eir \in 0..RateUnit
             /\ book.lgd.extra # {} => book.lgd.rows[j].pledged \in Nat
  BY <1>1, ValidatedLgd DEF Shared
<1>5. ASSUME NEW j \in same PROVE CustomerTotal(book.lgd.rows[j].customer) = SumFunctionOnSet(owed, same)
  BY DEF CustomerTotal, SumFunction
<1>6. PICK t \in Nat : t = SumFunctionOnSet(owed, same)
  <2>1. \A j \in same : owed[j] \in Nat
    BY <1>4
  <2> HIDE DEF same, owed
  <2>2. QED BY <1>1, <2>1, SumNat
<1>7. ASSUME NEW j \in same
      PROVE  /\ lgd[j] \in Nat
             /\ (book.lgd.extra = {} \/ t = 0) => lgd[j] = 0
             /\ t # 0 => t * lgd[j] <= m * owed[j]
  <2>1. PICK p, o, e, u, v, h : /\ p = book.lgd.rows[j].pledged /\ o = book.lgd.rows[j].outstanding
                                /\ e = book.lgd.rows[j].eir /\ u = Power(RateUnit, Config.delay)
                                /\ v = Power(RateUnit + e, Config.delay) /\ h = Config.haircut
    OBVIOUS
  <2>2. o \in Nat /\ h \in 0..100 /\ u \in Nat \ {0} /\ v \in Nat \ {0} /\ u <= v /\ owed[j] = o
    <3>1. o \in Nat /\ e \in 0..RateUnit /\ owed[j] = o
      BY <1>4, <2>1
    <3>2. QED BY <2>1, <3>1, DiscountFactors
  <2>3. CASE book.lgd.extra = {}
    <3>1. lgd[j] = 0
      BY <1>4, <2>3 DEF Discounted
    <3>2. t * 0 <= m * o
      BY <2>2
    <3>3. QED BY <2>2, <3>1, <3>2
  <2>4. CASE book.lgd.extra # {}
    <3>1. PICK s : s = ProportionalCollateral(book.lgd.rows[j])
      OBVIOUS
    <3>2. lgd[j] = ((s \div 100) * (100 - h) * u) \div v
      BY <1>4, <2>1, <2>4, <3>1 DEF Discounted
    <3>3. s = IF t = 0 THEN 0 ELSE (p * o) \div t
      BY <1>5, <1>6, <2>1, <3>1 DEF ProportionalCollateral
    <3>4. p \in Nat /\ p <= m
      BY <1>3, <1>4, <2>1, <2>4
    <3>5. p * o \in Nat
      BY <2>2, <3>4
    <3>6. CASE t = 0
      <4>1. s \in Nat /\ s = 0
        BY <3>3, <3>6
      <4>2. lgd[j] \in 0..s
        BY ONLY <2>2, <3>2, <4>1, DiscountedAtMost
      <4>3. QED BY <3>6, <4>1, <4>2
    <3>7. CASE t # 0
      <4>1. t \in Nat \ {0} /\ s = (p * o) \div t
        BY <3>3, <3>7
      <4>2. s \in Nat
        BY <3>5, <4>1, Quotient
      <4>3. lgd[j] \in 0..s
        <5>1. ((s \div 100) * (100 - h) * u) \div v \in 0..s
          BY ONLY <2>2, <4>2, DiscountedAtMost
        <5>2. QED BY ONLY <3>2, <5>1
      <4>4. t * lgd[j] <= m * o
        BY ONLY <2>2, <3>4, <4>1, <4>3, m \in Nat, ShareAtMost
      <4>5. QED BY <2>2, <2>4, <3>7, <4>2, <4>3, <4>4
    <3>8. QED BY <3>6, <3>7
  <2>5. QED BY <2>3, <2>4
<1>8. SumFunctionOnSet(lgd, same) <= m
  <2>1. SumFunctionOnSet(lgd, same) \in Nat
    <3> HIDE DEF same, owed
    <3>1. QED BY <1>1, <1>7, SumNat
  <2>2. CASE t = 0
    <3>1. \A j \in same : lgd[j] = 0 /\ lgd[j] \in Int
      BY <1>7, <2>2
    <3>2. {} \in SUBSET same /\ same \ {} = same
      OBVIOUS
    <3>3. SumFunctionOnSet(lgd, same) = SumFunctionOnSet(lgd, {})
      <4> HIDE DEF same, owed
      <4>1. QED BY <1>1, <3>1, <3>2, SumOfRest
    <3>4. QED BY <3>3, SumEmpty
  <2>3. CASE t # 0
    <3>1. \A j \in same : lgd[j] \in Int /\ owed[j] \in Int /\ t * lgd[j] <= m * owed[j]
      <4>1. SUFFICES ASSUME NEW j \in same PROVE lgd[j] \in Int /\ owed[j] \in Int /\ t * lgd[j] <= m * owed[j]
        OBVIOUS
      <4>2. lgd[j] \in Nat /\ owed[j] \in Nat
        BY <1>4, <1>7
      <4> HIDE DEF same, owed
      <4>3. QED BY <1>7, <2>3, <4>2
    <3>2. t * SumFunctionOnSet(lgd, same) <= m * SumFunctionOnSet(owed, same)
      <4> HIDE DEF same, owed
      <4>1. t \in Int /\ m \in Int
        OBVIOUS
      <4>2. QED BY <1>1, <3>1, <4>1, SumBounded
    <3>3. PICK x \in Nat : x = SumFunctionOnSet(lgd, same)
      BY <2>1
    <3>4. t * x <= m * t
      BY <1>6, <3>2, <3>3
    <3>5. x <= m
      <4>1. SUFFICES ASSUME x > m PROVE FALSE
        OBVIOUS
      <4>2. PICK k \in Nat \ {0} : x = m + k
        <5>1. x - m \in Nat \ {0} /\ x = m + (x - m)
          BY <4>1
        <5>2. QED BY <5>1
      <4>3. t * x = m * t + t * k
        BY <4>2
      <4>4. t * k > 0 /\ t * k \in Int /\ m * t \in Int
        BY <2>3
      <4>5. QED BY ONLY <3>4, <4>3, <4>4
    <3>6. QED BY <3>3, <3>5
  <2>4. QED BY <2>2, <2>3
<1>9. QED BY <1>3, <1>8

\* The collateral of a customer is never counted more than once, however many loans and rows state it.
THEOREM CollateralOnce == Spec => []CollateralIsSharedOut
<1>1. GateInv /\ LgdOK => CollateralIsSharedOut
  <2>1. SUFFICES ASSUME GateInv, LgdOK, NEW i \in DOMAIN lgd
                 PROVE  LET same == {j \in LgdRows : book.lgd.rows[j].customer = book.lgd.rows[i].customer}
                        IN  SumFunctionOnSet(lgd, same) <= Max({0} \cup {book.lgd.rows[j].pledged : j \in same})
    BY DEF CollateralIsSharedOut
  <2>2. phase \notin {"uploaded", "validated", "lgd"} /\ Shared /\ i \in LgdRows
    <3>1. lgd = <<>> => DOMAIN lgd = {}
      OBVIOUS
    <3>2. QED BY <2>1, <3>1 DEF LgdOK, Shared
  <2>3. QED BY <2>1, <2>2, SharedOut
<1>2. QED BY <1>1, Gate, Lgds, PTL

-----------------------------------------------------------------------------
(* The rows of the results.                                                *)

LossOK ==
  IF phase = "done" THEN Unwalked = {} /\ Refused = {} /\ loss = [i \in EadRows |-> [k \in snaps[i] |-> Exposed(i, k)]]
  ELSE loss = <<>>

LEMMA Losses == Spec => []LossOK
<1>1. Init => LossOK
  BY DEF Init, LossOK
<1>2. ASSUME UNCHANGED <<book, lgd, snaps, walk>>
      PROVE  /\ Unwalked' = Unwalked /\ EadRows' = EadRows /\ Refused' = Refused
             /\ \A i, k : Exposed(i, k)' = Exposed(i, k)
  BY <1>2 DEF Unwalked, EadRows, Refused, Exposed, Found, InTable, PdSegments, RowAt, Collateral, LgdOf, LgdRows, Row
<1>3. LossOK /\ [Next]_vars => LossOK'
  <2> SUFFICES ASSUME LossOK, [Next]_vars PROVE LossOK'
    OBVIOUS
  <2>1. ASSUME phase # "done", phase' # "done", UNCHANGED loss PROVE LossOK'
    BY <2>1 DEF LossOK
  <2>2. ASSUME NEW accept \in BOOLEAN, ValidateFiles(accept) PROVE LossOK'
    BY <2>1, <2>2 DEF ValidateFiles
  <2>3. ASSUME ExecuteRun \/ ComputeLgd \/ ExpandSnapshots \/ WalkRow PROVE LossOK'
    BY <2>1, <2>3 DEF ExecuteRun, ComputeLgd, ExpandSnapshots, WalkRow
  <2>4. ASSUME JoinPd PROVE LossOK'
    <3>1. phase = "walk" /\ Unwalked = {} /\ UNCHANGED <<book, lgd, snaps, walk>>
      BY <2>4 DEF JoinPd
    <3>2. CASE SegmentsWithoutPd # {} \/ Refused # {}
      BY <2>1, <2>4, <3>1, <3>2 DEF JoinPd
    <3>3. CASE SegmentsWithoutPd = {} /\ Refused = {}
      <4>1. phase' = "done" /\ loss' = [i \in EadRows |-> [k \in snaps[i] |-> Exposed(i, k)]]
        BY <2>4, <3>3 DEF JoinPd
      <4>2. QED BY <1>2, <3>1, <3>3, <4>1 DEF LossOK
    <3>4. QED BY <3>2, <3>3
  <2>5. ASSUME UNCHANGED vars PROVE LossOK'
    <3>1. UNCHANGED <<book, phase, lgd, snaps, walk, loss>>
      BY <2>5 DEF vars
    <3>2. QED BY <1>2, <3>1 DEF LossOK
  <2>6. QED BY <2>2, <2>3, <2>4, <2>5 DEF Next
<1>4. QED BY <1>1, <1>3, PTL DEF Spec

LEMMA LgdIsNumber ==
  ASSUME GateInv, Shared, phase \notin {"uploaded", "validated", "lgd"}, NEW i \in LgdRows
  PROVE  lgd[i] \in Int
<1>1. PICK r : r = book.lgd.rows[i]
  OBVIOUS
<1>2. lgd[i] = Discounted(r)
  BY <1>1 DEF Shared
<1>3. r.pledged \in Int /\ r.outstanding \in Int /\ r.eir \in 0..RateUnit
  BY <1>1, ValidatedLgd, BookFields DEF GateInv
<1>4. CustomerTotal(r.customer) \in Nat
  <2> DEFINE same == {j \in LgdRows : book.lgd.rows[j].customer = r.customer}
             owed == [j \in same |-> book.lgd.rows[j].outstanding]
  <2>1. IsFiniteSet(same)
    <3>1. IsFiniteSet(LgdRows)
      BY BookFields DEF GateInv
    <3>2. QED BY <3>1, FS_Subset
  <2>2. \A j \in same : owed[j] \in Nat
    BY ValidatedLgd
  <2>3. CustomerTotal(r.customer) = SumFunctionOnSet(owed, same)
    BY DEF CustomerTotal, SumFunction
  <2> HIDE DEF same, owed
  <2>4. QED BY <2>1, <2>2, <2>3, SumNat
<1>5. PICK s \in Int : s = ProportionalCollateral(r)
  <2>1. PICK z \in Int : z = r.pledged * r.outstanding
    BY <1>3
  <2>2. PICK t \in Nat : t = CustomerTotal(r.customer)
    BY <1>4
  <2>3. t # 0 => z \div t \in Int
    OBVIOUS
  <2>4. QED BY <2>1, <2>2, <2>3 DEF ProportionalCollateral
<1>6. PICK u \in Nat \ {0}, v \in Nat \ {0}, h \in 0..100 :
         u = Power(RateUnit, Config.delay) /\ v = Power(RateUnit + r.eir, Config.delay) /\ h = Config.haircut
  BY <1>3, DiscountFactors
<1>7. PICK y \in Int : y = (s \div 100) * (100 - h) * u
  <2>1. PICK z \in Int : z = s \div 100
    OBVIOUS
  <2>2. z * (100 - h) * u \in Int
    OBVIOUS
  <2>3. QED BY <2>1, <2>2
<1>8. y \div v \in Int
  OBVIOUS
<1>9. QED BY <1>2, <1>5, <1>6, <1>7, <1>8 DEF Discounted

LEMMA SnapshotsFinite ==
  ASSUME GateInv, phase \notin {"uploaded", "validated"}, NEW i \in EadRows
  PROVE  IsFiniteSet(Expanded(Row(i))) /\ Expanded(Row(i)) \subseteq Nat
<1>1. \A a, b \in Int : IsFiniteSet(a..b)
  BY FS_Interval
<1>2. Offsets - 1 \in Int /\ 0 \in Int /\ IsFiniteSet({0})
  <2>1. Offsets \in Nat
    BY BookFields DEF GateInv
  <2>2. IsFiniteSet({0})
    BY FS_Singleton
  <2>3. QED BY ONLY <2>1, <2>2
<1>3. CASE Row(i).staging = "Stage 1"
  <2>1. Expanded(Row(i)) \subseteq 0..(Offsets - 1)
    BY <1>3 DEF Expanded
  <2>2. 0..(Offsets - 1) \subseteq Nat
    OBVIOUS
  <2>3. QED BY <1>1, <1>2, <2>1, <2>2, FS_Subset
<1>4. CASE Row(i).staging = "Stage 2"
  <2>1. Expanded(Row(i)) \subseteq MaxMonths(Row(i))
    BY <1>4 DEF Expanded
  <2>2. IsFiniteSet(MaxMonths(Row(i))) /\ MaxMonths(Row(i)) \subseteq Nat
    <3>1. CASE ~Bounded(Row(i))
      BY <1>2, <3>1 DEF MaxMonths
    <3>2. CASE Bounded(Row(i))
      <4>1. PICK rep \in BookDates, mat \in BookDates \cup {BadDate} : rep = Row(i).reporting /\ mat = Row(i).maturity
        BY <3>2, ValidatedDates DEF Bounded
      <4>2. PICK span \in Int : span = MonthsBetween(rep, mat)
        <5>1. rep[1] \in Int /\ mat[1] \in Int
          BY MonthsToMaturity
        <5>2. QED BY <5>1 DEF MonthsBetween
      <4>3. PICK n \in Int : n = Max({0, span})
        BY MaxOfTwo
      <4>4. MaxMonths(Row(i)) = 0..n
        BY <3>2, <4>1, <4>2, <4>3 DEF MaxMonths
      <4>5. 0..n \subseteq Nat
        OBVIOUS
      <4>6. QED BY <1>1, <1>2, <4>4, <4>5
    <3>3. QED BY <3>1, <3>2
  <2>3. QED BY <2>1, <2>2, FS_Subset
<1>5. CASE Row(i).staging \notin {"Stage 1", "Stage 2"}
  <2>1. Expanded(Row(i)) = {0}
    BY <1>5 DEF Expanded
  <2>2. {0} \subseteq Nat
    OBVIOUS
  <2>3. QED BY ONLY <1>2, <2>1, <2>2
<1>6. QED BY <1>3, <1>4, <1>5

\* A snapshot's row is one of the rows that were walked.
LEMMA RowOfSnapshot ==
  ASSUME NEW i, IsFiniteSet(snaps[i]), snaps[i] \subseteq Nat, NEW k \in snaps[i]
  PROVE  RowAt(i, k) \in 1..Cardinality(snaps[i])
<1> DEFINE upTo == {j \in snaps[i] : j <= k}
<1>1. IsFiniteSet(upTo) /\ Cardinality(upTo) \in Nat /\ Cardinality(snaps[i]) \in Nat
      /\ Cardinality(upTo) <= Cardinality(snaps[i])
  BY FS_Subset, FS_CardinalityType
<1>2. k \in upTo
  OBVIOUS
<1>3. Cardinality(upTo) > 0
  <2> HIDE DEF upTo
  <2>1. QED BY <1>1, <1>2, OneLess
<1>4. RowAt(i, k) = Cardinality(upTo)
  BY DEF RowAt
<1> HIDE DEF upTo
<1>5. QED BY <1>1, <1>3, <1>4

\* What the join leaves of a balance is a loss or nothing, and nothing where it found no PD.
LEMMA ExposureIs ==
  ASSUME GateInv, SnapsOK, LgdOK, BalancesOK, Unwalked = {}, Refused = {}, phase = "done",
         NEW i \in EadRows, NEW k \in snaps[i]
  PROVE  /\ Exposed(i, k) \in Nat /\ walk[i][RowAt(i, k)].missed \in Int /\ RowAt(i, k) - 1 \in Nat
         /\ ~Found(i, k) => Exposed(i, k) = 0
<1>1. phase \notin {"uploaded", "validated", "lgd"} /\ Shared
  BY DEF LgdOK
<1>2. snaps[i] = Expanded(Row(i)) /\ i \in DOMAIN walk /\ InstalmentKnown(Row(i))
  <2>1. snaps[i] = Expanded(Row(i)) /\ i \in DOMAIN walk
    BY DEF SnapsOK, Early
  <2>2. i \notin Refused
    OBVIOUS
  <2>3. QED BY <2>1, <2>2 DEF Refused, Storable
<1>3. IsFiniteSet(snaps[i]) /\ snaps[i] \subseteq Nat
  BY <1>1, <1>2, SnapshotsFinite
<1>4. PICK n \in Nat : n = Cardinality(snaps[i])
  BY <1>3, FS_CardinalityType
<1>5. PICK m \in 1..n : m = RowAt(i, k)
  BY <1>3, <1>4, RowOfSnapshot
<1>6. PICK w : w = walk[i]
  OBVIOUS
<1>7. PICK R : R = [repaid : Int, missed : Int]
  OBVIOUS
<1>8. w \in Seq(R) /\ Len(w) \in Nat
  BY <1>2, <1>6, <1>7 DEF BalancesOK, Walked
<1>9. ~(Len(w) < n)
  BY <1>4, <1>6 DEF Unwalked
<1>10. w[m] \in R
  <2>1. m \in 1..Len(w)
    BY <1>8, <1>9
  <2>2. QED BY ONLY <1>8, <2>1
<1>11. w[m].missed \in Int
  BY ONLY <1>7, <1>10
<1>12. Collateral(Row(i)) \in Int
  <2>1. CASE LgdOf(Row(i)) = {}
    BY <2>1 DEF Collateral
  <2>2. CASE LgdOf(Row(i)) # {}
    <3>1. LgdOf(Row(i)) \in SUBSET Nat /\ LgdOf(Row(i)) \subseteq LgdRows
      BY BookFields DEF LgdOf, GateInv
    <3>2. PICK j \in LgdRows : j = Min(LgdOf(Row(i)))
      BY <2>2, <3>1, MinInSet
    <3>3. QED BY <1>1, <2>2, <3>2, LgdIsNumber DEF Collateral
  <2>3. QED BY <2>1, <2>2
<1>13. PICK x \in Int : x = w[m].missed - Collateral(Row(i))
  BY <1>11, <1>12
<1>14. Max({0, x}) \in Nat
  <2>1. Max({0, x}) = IF 0 >= x THEN 0 ELSE x
    BY ONLY x \in Int, 0 \in Int, MaxOfTwo
  <2>2. QED BY ONLY <2>1, x \in Int
<1>15. Exposed(i, k) = IF ~Found(i, k) THEN 0 ELSE Max({0, x})
  BY <1>2, <1>5, <1>6, <1>13 DEF Exposed
<1>16. m - 1 \in Nat
  OBVIOUS
<1>17. QED BY <1>5, <1>6, <1>11, <1>14, <1>15, <1>16

\* What validate_files and execute_run let through, compute_ead provisions, and no run completes with a
\* loss that is not a number.
THEOREM ValidatedMeansProvisioned == Spec => []ValidatedLoansAreProvisioned
<1>1. ASSUME GateInv, SnapsOK, EndsOK, Ended, Exact PROVE \A i \in EadRows : 0 \in snaps[i]
  <2>1. phase \notin {"uploaded", "validated"} /\ phase \notin Early
    BY <1>1 DEF Ended, Early
  <2>2. ~Mistyped
    BY <1>1 DEF Mistyped, Exact
  <2>3. \A i \in EadRows : snaps[i] = Expanded(Row(i))
    BY <1>1, <2>1, <2>2 DEF SnapsOK
  <2>4. \A i \in EadRows : Bounded(Row(i))
    BY <1>1 DEF Exact, Storable, Bounded
  <2>5. \A i \in EadRows : 0 \in Expanded(Row(i))
    BY <1>1, <2>1, <2>4, FirstSnapshot
  <2>6. QED BY <2>3, <2>5
<1>2. ASSUME GateInv, SnapsOK, EndsOK, Ended, Exact,
             \A i \in EadRows : \E j \in EadRows : Row(j).segment = Row(i).segment /\ InTable(j, 0)
      PROVE  phase = "done"
  <2>1. \A i \in EadRows : 0 \in snaps[i]
    BY <1>1, <1>2
  <2>2. phase # "empty"
    <3>1. EadRows # {}
      BY <1>2, BookFields DEF GateInv
    <3>2. QED BY <1>2, <2>1, <3>1 DEF EndsOK
  <2>3. ~Mistyped /\ Refused = {}
    BY <1>2 DEF Mistyped, Refused, Exact
  <2>4. SegmentsWithoutPd = {}
    <3>1. ASSUME NEW i \in EadRows
          PROVE  \E j \in EadRows : Row(j).segment = Row(i).segment /\ \E k \in snaps[j] : Found(j, k)
      <4>1. PICK j \in EadRows : Row(j).segment = Row(i).segment /\ InTable(j, 0)
        BY <1>2
      <4>2. Found(j, 0)
        BY <1>2, <4>1 DEF Found, Exact
      <4>3. QED BY <2>1, <4>1, <4>2
    <3>2. QED BY <3>1 DEF SegmentsWithoutPd
  <2>5. phase # "failed"
    BY <1>2, <2>3, <2>4 DEF EndsOK
  <2>6. QED BY <1>2, <2>2, <2>5 DEF Ended
<1>3. ASSUME GateInv, SnapsOK, LgdOK, BalancesOK, LossOK, NEW i \in DOMAIN loss, NEW k \in DOMAIN loss[i]
      PROVE  loss[i][k] \in Nat
  <2>1. phase = "done"
    <3>1. loss = <<>> => DOMAIN loss = {}
      OBVIOUS
    <3>2. QED BY <1>3, <3>1 DEF LossOK
  <2>2. Unwalked = {} /\ Refused = {} /\ loss = [j \in EadRows |-> [m \in snaps[j] |-> Exposed(j, m)]]
    BY <1>3, <2>1 DEF LossOK
  <2>3. i \in EadRows /\ k \in snaps[i] /\ loss[i][k] = Exposed(i, k)
    BY <1>3, <2>2
  <2>4. QED BY <1>3, <2>1, <2>2, <2>3, ExposureIs
<1>4. GateInv /\ SnapsOK /\ EndsOK /\ LgdOK /\ BalancesOK /\ LossOK => ValidatedLoansAreProvisioned
  BY <1>1, <1>2, <1>3, Zenon DEF ValidatedLoansAreProvisioned
<1>5. QED BY <1>4, Gate, Snaps, Ends, Lgds, Balances, Losses, PTL

LEMMA LoansAreListedOnce ==
  ASSUME GateInv, phase \notin {"uploaded", "validated"}
  PROVE  \A i, j \in EadRows : Row(i).loan = Row(j).loan => i = j
<1>1. GivenBook /\ Judged /\ MayExecute /\ accepted = [k \in Kinds |-> FALSE]
  BY DEF GateInv
<1>2. verdict["EAD"] # "error"
  BY <1>1 DEF MayExecute, Kinds
<1>3. ~(ValidateEad(book.ead, Segments) > 0)
  BY <1>1, <1>2 DEF Judged, Kinds, Blocks
<1>4. IsFiniteSet(book.ead.absent) /\ IsFiniteSet(DOMAIN book.ead.rows)
  BY <1>1, BookFields DEF EadRows
<1>5. \A i, j \in DOMAIN book.ead.rows : book.ead.rows[i]["loan"] = book.ead.rows[j]["loan"] => i = j
  BY <1>3, <1>4, PassedEad
<1>6. QED BY <1>5 DEF EadRows, Row

\* What the views rely on: finitely many rows without a negative loss, and the rows of one loan
\* agree on its segment, stage and customer.
RowsOK ==
  /\ IsFiniteSet(EadResults)
  /\ \A r \in EadResults : r.ecl \in Nat /\ r.balance \in Int /\ r.period \in Nat
  /\ \A q, r \in EadResults : q.loan = r.loan => q.segment = r.segment /\ q.stage = r.stage

\* The row stored for snapshot k of EAD row i.
ResultOf(i, k) ==
  [loan |-> Row(i).loan, customer |-> Row(i).customer, segment |-> Row(i).segment,
   stage |-> Row(i).staging, period |-> RowAt(i, k) - 1,
   balance |-> walk[i][RowAt(i, k)].missed, ecl |-> loss[i][k]]

LEMMA ResultsAre == EadResults = UNION {{ResultOf(i, k) : k \in snaps[i]} : i \in DOMAIN loss}
BY Zenon DEF EadResults, ResultOf

LEMMA StoredRows ==
  ASSUME GateInv, SnapsOK, LgdOK, BalancesOK, LossOK, Reported
  PROVE  /\ RowsOK
         /\ \A r \in EadResults : \E i \in EadRows :
              /\ r.customer = Row(i).customer /\ r.segment = Row(i).segment /\ r.stage = Row(i).staging
              /\ (Row(i).segment \notin PdSegments \/ Row(i).staging \notin StagingValues) => r.ecl = 0
<1>1. CASE phase = "empty"
  <2>1. loss = <<>> /\ DOMAIN loss = {}
    BY <1>1 DEF LossOK
  <2>2. EadResults = {}
    BY <2>1 DEF EadResults
  <2>3. QED BY <2>2, FS_EmptySet DEF RowsOK
<1>2. CASE phase = "done"
  <2>1. /\ DOMAIN loss = EadRows /\ Unwalked = {} /\ Refused = {}
        /\ \A i \in EadRows : \A k \in snaps[i] : loss[i][k] = Exposed(i, k)
    BY <1>2 DEF LossOK
  <2>2. phase \notin Early /\ phase \notin {"uploaded", "validated"}
    BY <1>2 DEF Early
  <2>3. IsFiniteSet(EadRows) /\ \A i \in EadRows : IsFiniteSet(snaps[i])
    <3>1. \A i \in EadRows : snaps[i] = Expanded(Row(i))
      BY <1>2, <2>2 DEF SnapsOK
    <3>2. QED BY <2>2, <3>1, SnapshotsFinite, BookFields DEF GateInv
  <2>4. IsFiniteSet(EadResults)
    <3> DEFINE rows(i) == {ResultOf(i, k) : k \in snaps[i]}
               f == [i \in EadRows |-> rows(i)]
    <3>1. ASSUME NEW i \in EadRows PROVE IsFiniteSet(rows(i))
      <4> DEFINE g == [k \in snaps[i] |-> ResultOf(i, k)]
      <4>1. g \in Surjection(snaps[i], rows(i))
        BY DEF Surjection
      <4> HIDE DEF g, rows
      <4>2. QED BY <2>3, <4>1, FS_Surjection
    <3>2. f \in Surjection(EadRows, {rows(i) : i \in EadRows})
      BY DEF Surjection
    <3>3. IsFiniteSet({rows(i) : i \in EadRows})
      <4> HIDE DEF f, rows
      <4>1. QED BY <2>3, <3>2, FS_Surjection
    <3>4. EadResults = UNION {rows(i) : i \in EadRows}
      BY ONLY <2>1, ResultsAre, Zenon
    <3>5. \A T \in {rows(i) : i \in EadRows} : IsFiniteSet(T)
      BY <3>1
    <3> HIDE DEF rows
    <3>6. QED BY ONLY <3>3, <3>4, <3>5, FS_UNION
  <2>5. ASSUME NEW r \in EadResults PROVE \E i \in EadRows : \E k \in snaps[i] : r = ResultOf(i, k)
    BY ONLY <2>1, ResultsAre, r \in EadResults, Zenon
  <2>6. ASSUME NEW i \in EadRows, NEW k \in snaps[i], NEW r, r = ResultOf(i, k)
        PROVE  /\ r.loan = Row(i).loan /\ r.customer = Row(i).customer
               /\ r.segment = Row(i).segment /\ r.stage = Row(i).staging
               /\ r.ecl \in Nat /\ r.balance \in Int /\ r.period \in Nat
               /\ ~Found(i, k) => r.ecl = 0
    <3>1. /\ r.loan = Row(i).loan /\ r.customer = Row(i).customer
          /\ r.segment = Row(i).segment /\ r.stage = Row(i).staging
          /\ r.ecl = loss[i][k] /\ r.balance = walk[i][RowAt(i, k)].missed /\ r.period = RowAt(i, k) - 1
      BY <2>6 DEF ResultOf
    <3>2. /\ Exposed(i, k) \in Nat /\ walk[i][RowAt(i, k)].missed \in Int /\ RowAt(i, k) - 1 \in Nat
          /\ ~Found(i, k) => Exposed(i, k) = 0
      BY <1>2, <2>1, ExposureIs
    <3>3. QED BY <2>1, <3>1, <3>2
  <2>7. \A r \in EadResults : r.ecl \in Nat /\ r.balance \in Int /\ r.period \in Nat
    BY <2>5, <2>6
  <2>8. ASSUME NEW q \in EadResults, NEW r \in EadResults, q.loan = r.loan
        PROVE  q.segment = r.segment /\ q.stage = r.stage
    <3>1. PICK i \in EadRows : \E k \in snaps[i] : q = ResultOf(i, k)
      BY <2>5
    <3>2. PICK j \in EadRows : \E k \in snaps[j] : r = ResultOf(j, k)
      BY <2>5
    <3>3. /\ q.loan = Row(i).loan /\ q.segment = Row(i).segment /\ q.stage = Row(i).staging
          /\ r.loan = Row(j).loan /\ r.segment = Row(j).segment /\ r.stage = Row(j).staging
      BY <2>6, <3>1, <3>2
    <3>4. i = j
      BY <2>2, <2>8, <3>3, LoansAreListedOnce
    <3>5. QED BY <3>3, <3>4
  <2>9. ASSUME NEW r \in EadResults
        PROVE  \E i \in EadRows :
                 /\ r.customer = Row(i).customer /\ r.segment = Row(i).segment /\ r.stage = Row(i).staging
                 /\ (Row(i).segment \notin PdSegments \/ Row(i).staging \notin StagingValues) => r.ecl = 0
    <3>1. PICK i \in EadRows : \E k \in snaps[i] : r = ResultOf(i, k)
      BY <2>5
    <3>2. PICK k \in snaps[i] : r = ResultOf(i, k)
      BY <3>1
    <3>3. /\ r.customer = Row(i).customer /\ r.segment = Row(i).segment /\ r.stage = Row(i).staging
          /\ ~Found(i, k) => r.ecl = 0
      BY <2>6, <3>2
    <3>4. QED BY <3>3 DEF Found
  <2>10. RowsOK
    BY <2>4, <2>7, <2>8 DEF RowsOK
  <2>11. QED BY <2>9, <2>10
<1>3. QED BY <1>1, <1>2 DEF Reported

-----------------------------------------------------------------------------
(* The views and the workbook.                                             *)

LEMMA EclIn ==
  ASSUME NEW S, IsFiniteSet(S), NEW T \in SUBSET S
  PROVE  Ecl(T) = SumFunctionOnSet([r \in S |-> r.ecl], T)
<1> DEFINE u == [r \in T |-> r.ecl]
           v == [r \in S |-> r.ecl]
<1>1. Ecl(T) = SumFunctionOnSet(u, T)
  BY DEF Ecl, SumFunction
<1>2. IsFiniteSet(T) /\ \A r \in T : u[r] = v[r]
  BY FS_Subset
<1>3. SumFunctionOnSet(u, T) = SumFunctionOnSet(v, T)
  <2> HIDE DEF u, v
  <2>1. QED BY <1>2, SameSum
<1>4. QED BY <1>1, <1>3

LEMMA EclIsNatural ==
  ASSUME RowsOK, NEW S \in SUBSET EadResults
  PROVE  Ecl(S) \in Nat
<1> DEFINE u == [r \in S |-> r.ecl]
<1>1. IsFiniteSet(S) /\ \A r \in S : u[r] \in Nat
  BY FS_Subset DEF RowsOK
<1>2. Ecl(S) = SumFunctionOnSet(u, S)
  BY DEF Ecl, SumFunction
<1> HIDE DEF u
<1>3. QED BY <1>1, <1>2, SumNat

LEMMA EclOfRest ==
  ASSUME RowsOK, NEW S \in SUBSET EadResults, NEW T \in SUBSET S, \A r \in S \ T : r.ecl = 0
  PROVE  Ecl(S) = Ecl(T)
<1> DEFINE u == [r \in S |-> r.ecl]
<1>1. IsFiniteSet(S) /\ (\A r \in S : u[r] \in Int) /\ \A r \in S \ T : u[r] = 0
  BY FS_Subset DEF RowsOK
<1>2. S \in SUBSET S
  OBVIOUS
<1>3. Ecl(S) = SumFunctionOnSet(u, S) /\ Ecl(T) = SumFunctionOnSet(u, T)
  BY <1>1, <1>2, EclIn
<1> HIDE DEF u
<1>4. QED BY <1>1, <1>3, SumOfRest

\* The rows that the filters of the explorer keep.
Kept(stage, min) == ApplyMinEcl(InStage(EadResults, stage), min)

\* The threshold 0 keeps every row, and no stage every stage.
LEMMA NoFilter == ASSUME RowsOK PROVE Kept(AnyStage, 0) = EadResults
<1>1. InStage(EadResults, AnyStage) = EadResults
  BY DEF InStage
<1>2. \A l : Ecl(OfLoan(EadResults, l)) >= 0
  <2>1. SUFFICES ASSUME NEW l PROVE Ecl(OfLoan(EadResults, l)) >= 0
    OBVIOUS
  <2>2. OfLoan(EadResults, l) \in SUBSET EadResults
    BY DEF OfLoan
  <2>3. Ecl(OfLoan(EadResults, l)) \in Nat
    BY <2>2, EclIsNatural
  <2>4. QED BY <2>3
<1>3. QED BY <1>1, <1>2 DEF ApplyMinEcl, Kept

LEMMA SegmentRows ==
  ASSUME NEW stage, NEW min
  PROVE  DOMAIN SegmentAggregates(stage, min) = {r.segment : r \in Kept(stage, min)}
BY DEF SegmentAggregates, Kept

LEMMA SegmentRow ==
  ASSUME NEW stage, NEW min, NEW s \in DOMAIN SegmentAggregates(stage, min)
  PROVE  /\ SegmentAggregates(stage, min)[s].ecl = Ecl(InSegment(Kept(stage, min), s))
         /\ SegmentAggregates(stage, min)[s].outstanding = Outstanding(InSegment(Kept(stage, min), s))
         /\ SegmentAggregates(stage, min)[s].loans = Cardinality(LoansOf(InSegment(Kept(stage, min), s)))
BY DEF SegmentAggregates, Kept

LEMMA SegmentMix ==
  ASSUME NEW stage, NEW min, NEW s \in DOMAIN SegmentAggregates(stage, min)
  PROVE  SegmentAggregates(stage, min)[s].mix
           = [g \in {r.stage : r \in InSegment(Kept(stage, min), s)} |->
                Cardinality(LoansOf({r \in InitialRows(InSegment(Kept(stage, min), s)) : r.stage = g}))]
BY DEF SegmentAggregates, Kept

\* The workbook reports the losses of the run: what groupby leaves out has none.
THEOREM WorkbookAgrees == Spec => []SummaryAgrees
<1>1. GateInv /\ SnapsOK /\ LgdOK /\ BalancesOK /\ LossOK => SummaryAgrees
  <2>1. SUFFICES ASSUME GateInv, SnapsOK, LgdOK, BalancesOK, LossOK, Reported,
                        \A i \in EadRows : Row(i).customer # Null
                 PROVE  /\ EclTotal.ecl = RunTotals.ecl
                        /\ \A s \in DOMAIN EclBySegment :
                             EclBySegment[s].ecl = SegmentAggregates(AnyStage, 0)[s].ecl
    BY DEF SummaryAgrees
  <2>2. /\ RowsOK
        /\ \A r \in EadResults : \E i \in EadRows :
              /\ r.customer = Row(i).customer /\ r.segment = Row(i).segment /\ r.stage = Row(i).staging
              /\ (Row(i).segment \notin PdSegments \/ Row(i).staging \notin StagingValues) => r.ecl = 0
    BY <2>1, StoredRows
  <2>3. Null \notin PdSegments /\ Null \notin StagingValues
    <3> DEFINE used == IF book.combine THEN DOMAIN book.pd ELSE {1}
               U == UNION {{Stored(book.pd[f].rows[i].segment) : i \in DOMAIN book.pd[f].rows} : f \in used}
    <3>1. PdSegments = U \ {Null}
      BY Zenon DEF PdSegments
    <3>2. Null \notin PdSegments
      <4> HIDE DEF U
      <4>1. QED BY <3>1
    <3>3. Null \notin StagingValues
      BY DEF StagingValues, Null
    <3>4. QED BY <3>2, <3>3
  <2>4. LoanEcl \subseteq EadResults /\ \A r \in EadResults \ LoanEcl : r.ecl = 0
    <3>1. SUFFICES ASSUME NEW r \in EadResults, Null \in {r.customer, r.segment, r.stage} PROVE r.ecl = 0
      BY DEF LoanEcl
    <3>2. PICK i \in EadRows :
            /\ r.customer = Row(i).customer /\ r.segment = Row(i).segment /\ r.stage = Row(i).staging
            /\ (Row(i).segment \notin PdSegments \/ Row(i).staging \notin StagingValues) => r.ecl = 0
      BY <2>2
    <3>3. QED BY <2>1, <2>3, <3>1, <3>2
  <2>5. EclTotal.ecl = RunTotals.ecl
    <3>1. EadResults \in SUBSET EadResults /\ LoanEcl \in SUBSET EadResults
      BY <2>4
    <3>2. Ecl(EadResults) = Ecl(LoanEcl)
      BY <2>2, <2>4, <3>1, EclOfRest
    <3>3. EclTotal.ecl = Ecl(LoanEcl)
      BY DEF EclTotal
    <3>4. RunTotals.ecl = Ecl(EadResults)
      BY DEF RunTotals
    <3>5. QED BY <3>2, <3>3, <3>4
  <2>6. ASSUME NEW s \in DOMAIN EclBySegment
        PROVE  EclBySegment[s].ecl = SegmentAggregates(AnyStage, 0)[s].ecl
    <3>1. s \in {r.segment : r \in LoanEcl} /\ EclBySegment[s].ecl = Ecl(InSegment(LoanEcl, s))
      BY <2>6 DEF EclBySegment
    <3>2. s \in {r.segment : r \in EadResults}
      BY <2>4, <3>1
    <3>3. Kept(AnyStage, 0) = EadResults
      BY <2>2, NoFilter
    <3>4. SegmentAggregates(AnyStage, 0)[s].ecl = Ecl(InSegment(EadResults, s))
      <4>1. s \in DOMAIN SegmentAggregates(AnyStage, 0)
        BY <3>2, <3>3, SegmentRows
      <4>2. SegmentAggregates(AnyStage, 0)[s].ecl = Ecl(InSegment(Kept(AnyStage, 0), s))
        BY ONLY <4>1, SegmentRow
      <4>3. QED BY <3>3, <4>2
    <3>5. /\ InSegment(EadResults, s) \in SUBSET EadResults
          /\ InSegment(LoanEcl, s) \in SUBSET InSegment(EadResults, s)
          /\ \A r \in InSegment(EadResults, s) \ InSegment(LoanEcl, s) : r.ecl = 0
      BY <2>4 DEF InSegment
    <3>6. Ecl(InSegment(EadResults, s)) = Ecl(InSegment(LoanEcl, s))
      BY <2>2, <3>5, EclOfRest
    <3>7. QED BY <3>1, <3>4, <3>6
  <2>7. QED BY <2>5, <2>6
<1>2. QED BY <1>1, Gate, Snaps, Lgds, Balances, Losses, PTL

\* Rows of whole loans: with a row of a loan, all that the run stored for it.
Whole(S) == S \in SUBSET EadResults /\ \A r \in S : \A q \in EadResults : q.loan = r.loan => q \in S

StageOf(l) == (CHOOSE r \in EadResults : r.loan = l).stage
SegmentOf(l) == (CHOOSE r \in EadResults : r.loan = l).segment

LEMMA OneStage ==
  ASSUME RowsOK, NEW r \in EadResults
  PROVE  r.stage = StageOf(r.loan) /\ r.segment = SegmentOf(r.loan)
<1>1. PICK q \in EadResults : q.loan = r.loan /\ StageOf(r.loan) = q.stage /\ SegmentOf(r.loan) = q.segment
  BY DEF StageOf, SegmentOf
<1>2. QED BY <1>1 DEF RowsOK

LEMMA WholeLoan ==
  ASSUME RowsOK, NEW S, Whole(S)
  PROVE  /\ IsFiniteSet(S)
         /\ \A l \in LoansOf(S) : OfLoan(S, l) = OfLoan(EadResults, l)
         /\ \A l \in LoansOf(S) : /\ OfLoan(S, l) # {} /\ OfLoan(S, l) \subseteq S
                                  /\ IsFiniteSet(OfLoan(S, l)) /\ \A r \in OfLoan(S, l) : r.loan = l
<1>1. IsFiniteSet(S) /\ S \subseteq EadResults
  BY FS_Subset DEF RowsOK, Whole
<1>2. ASSUME NEW l \in LoansOf(S) PROVE OfLoan(S, l) = OfLoan(EadResults, l) /\ OfLoan(S, l) # {}
  <2>1. PICK r \in S : r.loan = l
    BY DEF LoansOf
  <2>2. \A q \in EadResults : q.loan = l => q \in S
    BY <2>1 DEF Whole
  <2>3. QED BY <1>1, <2>1, <2>2 DEF OfLoan
<1>3. \A l : OfLoan(S, l) \subseteq S /\ \A r \in OfLoan(S, l) : r.loan = l
  BY DEF OfLoan
<1>4. QED BY <1>1, <1>2, <1>3, FS_Subset

LEMMA FiltersKeepLoans ==
  ASSUME RowsOK, NEW S, Whole(S)
  PROVE  /\ \A stage : Whole(InStage(S, stage))
         /\ \A s : Whole(InSegment(S, s))
         /\ \A min : Whole(ApplyMinEcl(S, min))
<1>1. \A q, r \in EadResults : q.loan = r.loan => q.segment = r.segment /\ q.stage = r.stage
  BY DEF RowsOK
<1>2. ASSUME NEW stage PROVE Whole(InStage(S, stage))
  BY <1>1 DEF Whole, InStage
<1>3. ASSUME NEW s PROVE Whole(InSegment(S, s))
  BY <1>1 DEF Whole, InSegment
<1>4. ASSUME NEW min PROVE Whole(ApplyMinEcl(S, min))
  BY DEF Whole, ApplyMinEcl
<1>5. QED BY <1>2, <1>3, <1>4

LEMMA AllRowsAreWhole == Whole(EadResults)
BY DEF Whole

\* The filters commute: a loan has one segment, so its losses in the segment are its losses.
LEMMA FilteredSegment ==
  ASSUME RowsOK, NEW stage, NEW min, NEW s
  PROVE  /\ Whole(InSegment(Kept(stage, min), s))
         /\ InSegment(Kept(stage, min), s) = ApplyMinEcl(InStage(InSegment(EadResults, s), stage), min)
<1>1. PICK A, B : A = InStage(EadResults, stage) /\ B = InStage(InSegment(EadResults, s), stage)
  OBVIOUS
<1>2. Whole(A) /\ Whole(B)
  <2>1. Whole(InSegment(EadResults, s)) /\ Whole(InStage(EadResults, stage))
    BY AllRowsAreWhole, FiltersKeepLoans
  <2>2. Whole(InStage(InSegment(EadResults, s), stage))
    BY <2>1, FiltersKeepLoans
  <2>3. QED BY <1>1, <2>1, <2>2
<1>3. Kept(stage, min) = ApplyMinEcl(A, min)
  BY <1>1 DEF Kept
<1>4. Whole(InSegment(Kept(stage, min), s))
  <2>1. Whole(ApplyMinEcl(A, min))
    BY <1>2, FiltersKeepLoans
  <2>2. QED BY <1>3, <2>1, FiltersKeepLoans
<1>5. \A r : r \in B <=> r \in A /\ r.segment = s
  BY <1>1 DEF InStage, InSegment
<1>6. \A r \in B : OfLoan(A, r.loan) = OfLoan(B, r.loan)
  <2>1. SUFFICES ASSUME NEW r \in B PROVE OfLoan(A, r.loan) = OfLoan(B, r.loan)
    OBVIOUS
  <2>2. r.loan \in LoansOf(A) /\ r.loan \in LoansOf(B)
    BY <1>5 DEF LoansOf
  <2>3. QED BY <1>2, <2>2, WholeLoan
<1>7. InSegment(ApplyMinEcl(A, min), s) = ApplyMinEcl(B, min)
  BY <1>5, <1>6 DEF InSegment, ApplyMinEcl
<1>8. QED BY <1>1, <1>3, <1>4, <1>7

LEMMA LoansFinite ==
  ASSUME NEW S, IsFiniteSet(S)
  PROVE  IsFiniteSet(LoansOf(S))
<1> DEFINE f == [r \in S |-> r.loan]
<1>1. f \in Surjection(S, LoansOf(S))
  BY DEF Surjection, LoansOf
<1> HIDE DEF f
<1>2. QED BY <1>1, FS_Surjection

LEMMA LargestIsNumber ==
  ASSUME RowsOK, NEW S, Whole(S), NEW l \in LoansOf(S)
  PROVE  Largest(OfLoan(S, l)) \in Int
<1> DEFINE T == OfLoan(S, l)
           f == [r \in T |-> r.balance]
           B == {r.balance : r \in T}
<1>1. IsFiniteSet(T) /\ T # {} /\ \A r \in T : r.balance \in Int
  BY WholeLoan DEF Whole, RowsOK
<1>2. f \in Surjection(T, B) /\ B \in SUBSET Int /\ B # {}
  BY <1>1 DEF Surjection
<1>3. IsFiniteSet(B)
  <2> HIDE DEF T, f, B
  <2>1. QED BY <1>1, <1>2, FS_Surjection
<1>4. Max(B) \in Int
  <2> HIDE DEF T, f, B
  <2>1. QED BY <1>2, <1>3, MaxInSet
<1>5. QED BY <1>4 DEF Largest

\* The losses of some loans, loan by loan.
LEMMA EclByLoan ==
  ASSUME RowsOK, NEW S, Whole(S)
  PROVE  Ecl(S) = SumFunctionOnSet([l \in LoansOf(S) |-> Ecl(OfLoan(S, l))], LoansOf(S))
<1> DEFINE w == [r \in S |-> r.ecl]
           f == [r \in S |-> r.loan]
           u == [l \in LoansOf(S) |-> SumFunctionOnSet(w, {r \in S : f[r] = l})]
           v == [l \in LoansOf(S) |-> Ecl(OfLoan(S, l))]
<1>1. IsFiniteSet(S) /\ IsFiniteSet(LoansOf(S))
  BY WholeLoan, LoansFinite
<1>2. (\A r \in S : w[r] \in Int) /\ \A r \in S : f[r] \in LoansOf(S)
  BY DEF Whole, RowsOK, LoansOf
<1>3. SumFunctionOnSet(w, S) = SumFunctionOnSet(u, LoansOf(S))
  <2> HIDE DEF w, f
  <2>1. QED BY <1>1, <1>2, SumGrouped
<1>4. \A l \in LoansOf(S) : u[l] = v[l]
  <2>1. SUFFICES ASSUME NEW l \in LoansOf(S) PROVE u[l] = v[l]
    OBVIOUS
  <2>2. {r \in S : f[r] = l} = OfLoan(S, l) /\ OfLoan(S, l) \in SUBSET S
    BY DEF OfLoan
  <2>3. Ecl(OfLoan(S, l)) = SumFunctionOnSet(w, OfLoan(S, l))
    BY <1>1, <2>2, EclIn
  <2>4. u[l] = SumFunctionOnSet(w, OfLoan(S, l))
    BY <2>2
  <2>5. QED BY <2>3, <2>4
<1>5. S \in SUBSET S
  OBVIOUS
<1>6. Ecl(S) = SumFunctionOnSet(w, S)
  BY <1>1, <1>5, EclIn
<1>7. SumFunctionOnSet(u, LoansOf(S)) = SumFunctionOnSet(v, LoansOf(S))
  <2> HIDE DEF u, v
  <2>1. QED BY <1>1, <1>4, SameSum
<1>8. QED BY <1>3, <1>6, <1>7

\* The first period of every loan has a row.
LEMMA InitialRowExists ==
  ASSUME RowsOK, NEW S, Whole(S), NEW l \in LoansOf(S)
  PROVE  \E r \in OfLoan(S, l) : r.loan = l /\ \A q \in OfLoan(S, l) : r.period <= q.period
<1> DEFINE P == {r.period : r \in OfLoan(S, l)}
<1>1. OfLoan(S, l) # {} /\ \A r \in OfLoan(S, l) : r.period \in Nat /\ r.loan = l
  BY WholeLoan DEF Whole, RowsOK
<1>2. P \in SUBSET Nat /\ P # {}
  BY <1>1
<1>3. \E m \in P : \A k \in P : m <= k
  <2> HIDE DEF P
  <2>1. QED BY <1>2, LeastNatural
<1>4. QED BY <1>1, <1>3

\* The list of the loans of a segment has one row for each of them, the one get_loan shows.
LEMMA OneRowEach ==
  ASSUME RowsOK, NEW S, Whole(S), NEW l \in LoansOf(S)
  PROVE  /\ {LoanRow(S, l, r.stage) : r \in InitialRows(OfLoan(S, l))} = {LoanRow(S, l, StageOf(l))}
         /\ GetLoan(l) = {LoanRow(S, l, StageOf(l))}
<1>1. PICK T : T = OfLoan(S, l)
  OBVIOUS
<1>2. T = OfLoan(EadResults, l) /\ T \subseteq EadResults /\ \A r \in T : r.loan = l
  BY <1>1, WholeLoan DEF Whole
<1>3. \A r \in T : r.stage = StageOf(l)
  BY <1>2, OneStage
<1>4. PICK first \in T : \A q \in T : first.period <= q.period
  BY <1>1, InitialRowExists
<1>5. first \in InitialRows(T) /\ InitialRows(T) \subseteq T
  BY <1>4 DEF InitialRows, OfLoan
<1>6. \A X : {LoanRow(X, l, r.stage) : r \in InitialRows(T)} = {LoanRow(X, l, StageOf(l))}
  BY <1>3, <1>5
<1>7. LoanRow(EadResults, l, StageOf(l)) = LoanRow(S, l, StageOf(l))
  BY <1>1, <1>2 DEF LoanRow
<1>8. GetLoan(l) = {LoanRow(EadResults, l, r.stage) : r \in InitialRows(T)}
  BY <1>2 DEF GetLoan
<1>9. QED BY <1>1, <1>6, <1>7, <1>8

LEMMA OnesCount ==
  ASSUME NEW R, IsFiniteSet(R), NEW T \in SUBSET R
  PROVE  Cardinality(T) = SumFunctionOnSet([l \in R |-> 1], T)
<1> DEFINE w == [l \in R |-> 1]
<1>1. IsFiniteSet(T) /\ \A l \in T : w[l] = 1
  BY FS_Subset
<1>2. SumFunctionOnSet(w, T) = Cardinality(T)
  <2> HIDE DEF w
  <2>1. QED BY <1>1, SumCounts
<1>3. QED BY <1>2

\* A list with one row for every loan of R has as many rows, and adds up as the loans do.
LEMMA ListCounts ==
  ASSUME NEW R, IsFiniteSet(R), NEW f, \A k, l \in R : f[k] = f[l] => k = l,
         NEW L, L = {f[l] : l \in R}
  PROVE  Cardinality(L) = Cardinality(R)
<1> DEFINE u == [l \in R |-> 1]
           v == [x \in L |-> 1]
           g == [l \in R |-> f[l]]
<1>1. g \in Surjection(R, L)
  BY DEF Surjection
<1>2. IsFiniteSet(L)
  <2> HIDE DEF g
  <2>1. QED BY <1>1, FS_Surjection
<1>3. \A l \in R : u[l] \in Int /\ u[l] = v[f[l]]
  OBVIOUS
<1>4. L \in SUBSET L /\ R \in SUBSET R
  OBVIOUS
<1>5. Cardinality(L) = SumFunctionOnSet(v, L) /\ Cardinality(R) = SumFunctionOnSet(u, R)
  BY <1>2, <1>4, OnesCount
<1>6. SumFunctionOnSet(u, R) = SumFunctionOnSet(v, {f[l] : l \in R})
  <2> HIDE DEF u, v
  <2>1. QED BY <1>3, SumMoves
<1>7. QED BY <1>5, <1>6

\* The rows f makes of R, and what a field of some rows adds up to.
RowsOf(f, R) == {f[l] : l \in R}
Listed(L, field) == SumFunction([x \in L |-> x[field]])
Taken(f, R, field) == SumFunctionOnSet([l \in R |-> f[l][field]], R)

LEMMA ListAddsUp ==
  ASSUME NEW R, IsFiniteSet(R), NEW f, \A k, l \in R : f[k] = f[l] => k = l,
         NEW field, \A l \in R : f[l][field] \in Int
  PROVE  Listed(RowsOf(f, R), field) = Taken(f, R, field)
<1>0. PICK L : L = {f[l] : l \in R}
  OBVIOUS
<1> DEFINE u == [l \in R |-> f[l][field]]
           v == [x \in L |-> x[field]]
<1>1. \A l \in R : u[l] \in Int /\ u[l] = v[f[l]]
  BY <1>0
<1>2. SumFunction(v) = SumFunctionOnSet(v, L)
  BY DEF SumFunction
<1>3. SumFunctionOnSet(u, R) = SumFunctionOnSet(v, {f[l] : l \in R})
  <2> HIDE DEF u, v
  <2>1. QED BY <1>1, SumMoves
<1>4. QED BY <1>0, <1>2, <1>3 DEF Listed, RowsOf, Taken

\* One segment of the explorer and its list of loans, under any filter.
ListAgrees(segment, stage, min) ==
  LET a == SegmentAggregates(stage, min)[segment]
      L == LoanRows(segment, stage, min)
  IN  /\ a.ecl = SumFunction([x \in L |-> x["ecl"]])
      /\ a.outstanding = SumFunction([x \in L |-> x["outstanding"]])
      /\ a.loans = Cardinality(L)
      /\ \A x \in L : {x} = GetLoan(x.loan)

LEMMA SegmentAgrees ==
  ASSUME RowsOK, NEW stage, NEW min, NEW segment \in DOMAIN SegmentAggregates(stage, min)
  PROVE  ListAgrees(segment, stage, min)
<1>1. PICK S : S = InSegment(Kept(stage, min), segment)
  OBVIOUS
<1>2. Whole(S) /\ S = ApplyMinEcl(InStage(InSegment(EadResults, segment), stage), min)
  BY <1>1, FilteredSegment
<1>3. PICK R : R = LoansOf(S)
  OBVIOUS
<1>4. IsFiniteSet(S) /\ IsFiniteSet(R)
  BY <1>2, <1>3, WholeLoan, LoansFinite
<1>5. PICK f : f = [l \in R |-> LoanRow(S, l, StageOf(l))]
  OBVIOUS
<1>6. \A l \in R : /\ f[l].loan = l /\ f[l].ecl = Ecl(OfLoan(S, l))
                   /\ f[l].outstanding = Largest(OfLoan(S, l))
  BY <1>5 DEF LoanRow
<1>7. PICK L : L = LoanRows(segment, stage, min)
  OBVIOUS
<1>8. L = {f[l] : l \in R}
  <2>1. L = UNION {{LoanRow(S, l, r.stage) : r \in InitialRows(OfLoan(S, l))} : l \in R}
    BY <1>2, <1>3, <1>7 DEF LoanRows
  <2>2. \A l \in R : {LoanRow(S, l, r.stage) : r \in InitialRows(OfLoan(S, l))} = {f[l]}
    <3>1. ASSUME NEW l \in R
          PROVE  {LoanRow(S, l, r.stage) : r \in InitialRows(OfLoan(S, l))} = {LoanRow(S, l, StageOf(l))}
      <4>1. Whole(S) /\ l \in LoansOf(S)
        BY ONLY <1>2, <1>3
      <4>2. QED BY ONLY RowsOK, <4>1, OneRowEach, Zenon
    <3>2. \A l \in R : f[l] = LoanRow(S, l, StageOf(l))
      BY ONLY <1>5
    <3>3. QED BY ONLY <3>1, <3>2, Zenon
  <2>3. ASSUME NEW x PROVE x \in L <=> \E l \in R : x = f[l]
    <3>1. x \in L <=> \E l \in R : x \in {LoanRow(S, l, r.stage) : r \in InitialRows(OfLoan(S, l))}
      BY ONLY <2>1, Zenon
    <3>2. \A l \in R : x \in {LoanRow(S, l, r.stage) : r \in InitialRows(OfLoan(S, l))} <=> x = f[l]
      BY ONLY <2>2, Zenon
    <3>3. QED BY ONLY <3>1, <3>2, Zenon
  <2>4. QED BY ONLY <2>3
<1>9. \A k, l \in R : f[k] = f[l] => k = l
  BY <1>6
<1>10. ASSUME NEW l \in R PROVE Ecl(OfLoan(S, l)) \in Int /\ Largest(OfLoan(S, l)) \in Int
  <2>1. OfLoan(S, l) \in SUBSET EadResults
    BY <1>2 DEF OfLoan, Whole
  <2>2. Ecl(OfLoan(S, l)) \in Nat
    BY <2>1, EclIsNatural
  <2>3. QED BY <1>2, <1>3, <2>2, LargestIsNumber
<1>11. Cardinality(L) = Cardinality(R)
  BY <1>4, <1>8, <1>9, ListCounts
<1>12. SumFunction([x \in L |-> x["ecl"]]) = Ecl(S)
  <2> DEFINE u == [l \in R |-> f[l]["ecl"]]
             v == [l \in R |-> Ecl(OfLoan(S, l))]
  <2>1. \A l \in R : f[l]["ecl"] \in Int
    BY <1>6, <1>10
  <2>2. SumFunction([x \in L |-> x["ecl"]]) = SumFunctionOnSet(u, R)
    <3>1. PICK field : field = "ecl"
      OBVIOUS
    <3>2. \A l \in R : f[l][field] \in Int
      BY ONLY <2>1, <3>1, Zenon
    <3>3. Listed(RowsOf(f, R), field) = Taken(f, R, field)
      BY ONLY <1>4, <1>9, <3>2, ListAddsUp
    <3>4. L = RowsOf(f, R)
      BY ONLY <1>8, Zenon DEF RowsOf
    <3>5. QED BY ONLY <3>1, <3>3, <3>4, Zenon DEF Listed, Taken
  <2>3. \A l \in R : u[l] = v[l]
    BY <1>6
  <2>4. SumFunctionOnSet(u, R) = SumFunctionOnSet(v, R)
    <3> HIDE DEF u, v
    <3>1. QED BY <1>4, <2>3, SameSum
  <2>5. Ecl(S) = SumFunctionOnSet(v, R)
    BY <1>2, <1>3, EclByLoan
  <2>6. QED BY <2>2, <2>4, <2>5
<1>13. SumFunction([x \in L |-> x["outstanding"]]) = Outstanding(S)
  <2> DEFINE u == [l \in R |-> f[l]["outstanding"]]
             v == [l \in R |-> Largest(OfLoan(S, l))]
  <2>1. \A l \in R : f[l]["outstanding"] \in Int
    BY <1>6, <1>10
  <2>2. SumFunction([x \in L |-> x["outstanding"]]) = SumFunctionOnSet(u, R)
    <3>1. PICK field : field = "outstanding"
      OBVIOUS
    <3>2. \A l \in R : f[l][field] \in Int
      BY ONLY <2>1, <3>1, Zenon
    <3>3. Listed(RowsOf(f, R), field) = Taken(f, R, field)
      BY ONLY <1>4, <1>9, <3>2, ListAddsUp
    <3>4. L = RowsOf(f, R)
      BY ONLY <1>8, Zenon DEF RowsOf
    <3>5. QED BY ONLY <3>1, <3>3, <3>4, Zenon DEF Listed, Taken
  <2>3. \A l \in R : u[l] = v[l]
    BY <1>6
  <2>4. SumFunctionOnSet(u, R) = SumFunctionOnSet(v, R)
    <3> HIDE DEF u, v
    <3>1. QED BY <1>4, <2>3, SameSum
  <2>5. Outstanding(S) = SumFunctionOnSet(v, R)
    BY <1>3 DEF Outstanding, SumFunction
  <2>6. QED BY <2>2, <2>4, <2>5
<1>14. \A x \in L : {x} = GetLoan(x.loan)
  <2>1. SUFFICES ASSUME NEW l \in R PROVE {f[l]} = GetLoan(f[l].loan)
    BY <1>8
  <2>2. GetLoan(l) = {LoanRow(S, l, StageOf(l))}
    BY <1>2, <1>3, OneRowEach
  <2>3. QED BY <1>5, <1>6, <2>2
<1>15. /\ SegmentAggregates(stage, min)[segment].ecl = Ecl(S)
       /\ SegmentAggregates(stage, min)[segment].outstanding = Outstanding(S)
       /\ SegmentAggregates(stage, min)[segment].loans = Cardinality(R)
  BY <1>1, <1>3, SegmentRow
<1>16. QED BY <1>7, <1>11, <1>12, <1>13, <1>14, <1>15 DEF ListAgrees

\* Every loan of a segment is counted in one stage.
LEMMA MixAddsUp ==
  ASSUME RowsOK, NEW stage, NEW min, NEW segment \in DOMAIN SegmentAggregates(stage, min)
  PROVE  SegmentAggregates(stage, min)[segment].loans = SumFunction(SegmentAggregates(stage, min)[segment].mix)
<1>1. PICK S : S = InSegment(Kept(stage, min), segment)
  OBVIOUS
<1>2. Whole(S)
  BY <1>1, FilteredSegment
<1>3. PICK R : R = LoansOf(S)
  OBVIOUS
<1>4. IsFiniteSet(S) /\ IsFiniteSet(R)
  BY <1>2, <1>3, WholeLoan, LoansFinite
<1> DEFINE Stages3 == {r.stage : r \in S}
           ones == [l \in R |-> 1]
           stages == [l \in R |-> StageOf(l)]
           counts == [g \in Stages3 |-> SumFunctionOnSet(ones, {l \in R : stages[l] = g})]
           mix == [g \in Stages3 |-> Cardinality(LoansOf({r \in InitialRows(S) : r.stage = g}))]
<1>5. IsFiniteSet(Stages3)
  <2> DEFINE f == [r \in S |-> r.stage]
  <2>1. f \in Surjection(S, Stages3)
    BY DEF Surjection
  <2> HIDE DEF f, Stages3
  <2>2. QED BY <1>4, <2>1, FS_Surjection
<1>6. \A r \in S : r.stage = StageOf(r.loan) /\ r.loan \in R
  BY <1>2, <1>3, OneStage DEF Whole, LoansOf
<1>7. \A l \in R : stages[l] \in Stages3
  <2>1. SUFFICES ASSUME NEW l \in R PROVE \E r \in S : r.stage = StageOf(l)
    OBVIOUS
  <2>2. PICK r \in S : r.loan = l
    BY <1>3 DEF LoansOf
  <2>3. QED BY <1>6, <2>2
<1>8. SumFunctionOnSet(ones, R) = SumFunctionOnSet(counts, Stages3)
  <2>1. \A l \in R : ones[l] \in Int
    OBVIOUS
  <2> HIDE DEF ones, stages, Stages3
  <2>2. QED BY <1>4, <1>5, <1>7, <2>1, SumGrouped
<1>9. ASSUME NEW g \in Stages3 PROVE counts[g] = mix[g]
  <2> DEFINE A == LoansOf({r \in InitialRows(S) : r.stage = g})
             B == {l \in R : stages[l] = g}
  <2>1. A \subseteq B
    <3>1. SUFFICES ASSUME NEW r \in InitialRows(S), r.stage = g PROVE r.loan \in B
      BY DEF LoansOf
    <3>2. r \in S
      BY DEF InitialRows
    <3>3. QED BY <1>6, <3>1, <3>2
  <2>2. B \subseteq A
    <3>1. SUFFICES ASSUME NEW l \in R, StageOf(l) = g PROVE l \in A
      OBVIOUS
    <3>2. PICK r \in OfLoan(S, l) : r.loan = l /\ \A q \in OfLoan(S, l) : r.period <= q.period
      BY <1>2, <1>3, InitialRowExists
    <3>3. r \in S /\ r \in InitialRows(S)
      BY <3>2 DEF InitialRows, OfLoan
    <3>4. r.stage = g
      BY <1>6, <3>1, <3>2, <3>3
    <3>5. QED BY <3>2, <3>3, <3>4 DEF LoansOf
  <2>3. B \in SUBSET R
    OBVIOUS
  <2>4. Cardinality(B) = SumFunctionOnSet(ones, B)
    BY ONLY <1>4, <2>3, OnesCount
  <2>5. A = B
    BY <2>1, <2>2
  <2>6. mix[g] = Cardinality(A) /\ counts[g] = SumFunctionOnSet(ones, B)
    OBVIOUS
  <2> HIDE DEF A, B
  <2>7. QED BY <2>4, <2>5, <2>6
<1>10. SumFunctionOnSet(counts, Stages3) = SumFunctionOnSet(mix, Stages3)
  <2> HIDE DEF counts, mix, Stages3
  <2>1. QED BY <1>5, <1>9, SameSum
<1>11. Cardinality(R) = SumFunctionOnSet(ones, R)
  <2>1. R \in SUBSET R
    OBVIOUS
  <2>2. QED BY ONLY <1>4, <2>1, OnesCount
<1>12. SegmentAggregates(stage, min)[segment].mix = mix
  BY <1>1, SegmentMix
<1>13. SumFunction(mix) = SumFunctionOnSet(mix, Stages3)
  BY DEF SumFunction
<1>14. SegmentAggregates(stage, min)[segment].loans = Cardinality(R)
  BY <1>1, <1>3, SegmentRow
<1>15. QED BY <1>8, <1>10, <1>11, <1>12, <1>13, <1>14
\* A loan is a loan of one segment.
LEMMA LoansOfSegment ==
  ASSUME RowsOK, NEW s
  PROVE  LoansOf(InSegment(EadResults, s)) = {l \in LoansOf(EadResults) : SegmentOf(l) = s}
<1>1. \A r \in EadResults : r.segment = SegmentOf(r.loan)
  BY OneStage
<1>2. ASSUME NEW l PROVE l \in LoansOf(InSegment(EadResults, s)) <=> \E r \in EadResults : r.loan = l /\ r.segment = s
  BY DEF LoansOf, InSegment
<1>3. ASSUME NEW l PROVE l \in LoansOf(EadResults) <=> \E r \in EadResults : r.loan = l
  BY DEF LoansOf
<1>4. QED BY ONLY <1>1, <1>2, <1>3

\* The losses, the outstanding amounts and the loans of the run, segment by segment.
Segmented == {r.segment : r \in EadResults}

LEMMA EclBySegments ==
  ASSUME RowsOK, IsFiniteSet(Segmented), NEW v, \A s \in Segmented : v[s] = Ecl(InSegment(EadResults, s))
  PROVE  SumFunctionOnSet(v, Segmented) = Ecl(EadResults)
<1> DEFINE w == [r \in EadResults |-> r.ecl]
           f == [r \in EadResults |-> r.segment]
           u == [s \in Segmented |-> SumFunctionOnSet(w, {r \in EadResults : f[r] = s})]
<1>1. IsFiniteSet(EadResults) /\ (\A r \in EadResults : w[r] \in Int) /\ \A r \in EadResults : f[r] \in Segmented
  BY DEF RowsOK, Segmented
<1>2. SumFunctionOnSet(w, EadResults) = SumFunctionOnSet(u, Segmented)
  <2> HIDE DEF w, f
  <2>1. QED BY <1>1, SumGrouped
<1>3. \A s \in Segmented : u[s] = v[s]
  <2>1. SUFFICES ASSUME NEW s \in Segmented PROVE u[s] = v[s]
    OBVIOUS
  <2>2. {r \in EadResults : f[r] = s} = InSegment(EadResults, s) /\ InSegment(EadResults, s) \in SUBSET EadResults
    BY DEF InSegment
  <2>3. Ecl(InSegment(EadResults, s)) = SumFunctionOnSet(w, InSegment(EadResults, s))
    BY <1>1, <2>2, EclIn
  <2>4. u[s] = SumFunctionOnSet(w, InSegment(EadResults, s))
    BY <2>2
  <2>5. QED BY <2>3, <2>4
<1>4. EadResults \in SUBSET EadResults
  OBVIOUS
<1>5. Ecl(EadResults) = SumFunctionOnSet(w, EadResults)
  BY <1>1, <1>4, EclIn
<1>6. SumFunctionOnSet(u, Segmented) = SumFunctionOnSet(v, Segmented)
  <2> HIDE DEF u
  <2>1. QED BY <1>3, SameSum
<1>7. QED BY <1>2, <1>5, <1>6

\* The loans of a segment add up to the loans of the run, whatever is added up.
LEMMA LoansBySegments ==
  ASSUME RowsOK, IsFiniteSet(Segmented), NEW w, \A l \in LoansOf(EadResults) : w[l] \in Int,
         NEW v, \A s \in Segmented : v[s] = SumFunctionOnSet(w, LoansOf(InSegment(EadResults, s)))
  PROVE  SumFunctionOnSet(v, Segmented) = SumFunctionOnSet(w, LoansOf(EadResults))
<1>1. PICK R : R = LoansOf(EadResults)
  OBVIOUS
<1> DEFINE f == [l \in R |-> SegmentOf(l)]
           u == [s \in Segmented |-> SumFunctionOnSet(w, {l \in R : f[l] = s})]
<1>2. IsFiniteSet(R) /\ \A l \in R : w[l] \in Int
  BY <1>1, LoansFinite DEF RowsOK
<1>3. \A l \in R : f[l] \in Segmented
  <2>1. SUFFICES ASSUME NEW l \in R PROVE SegmentOf(l) \in Segmented
    OBVIOUS
  <2>2. PICK r \in EadResults : r.loan = l
    BY <1>1 DEF LoansOf
  <2>3. QED BY <2>2, OneStage DEF Segmented
<1>4. SumFunctionOnSet(w, R) = SumFunctionOnSet(u, Segmented)
  <2> HIDE DEF f
  <2>1. QED BY <1>2, <1>3, SumGrouped
<1>5. \A s \in Segmented : u[s] = v[s]
  <2>1. SUFFICES ASSUME NEW s \in Segmented PROVE u[s] = v[s]
    OBVIOUS
  <2>2. {l \in R : f[l] = s} = LoansOf(InSegment(EadResults, s))
    BY <1>1, LoansOfSegment
  <2>3. QED BY <2>2
<1>6. SumFunctionOnSet(u, Segmented) = SumFunctionOnSet(v, Segmented)
  <2> HIDE DEF u
  <2>1. QED BY <1>5, SameSum
<1>7. QED BY <1>1, <1>4, <1>6

\* Without filters the portfolio is what the task stored with the run.
LEMMA PortfolioAgrees ==
  ASSUME RowsOK
  PROVE  GetPortfolio(AnyStage, 0) = RunTotals
<1>1. PICK A : A = SegmentAggregates(AnyStage, 0)
  OBVIOUS
<1>2. IsFiniteSet(EadResults) /\ Kept(AnyStage, 0) = EadResults
  BY NoFilter DEF RowsOK
<1>3. DOMAIN A = Segmented
  BY <1>1, <1>2, SegmentRows DEF Segmented
<1>4. ASSUME NEW s \in Segmented
      PROVE  /\ A[s].ecl = Ecl(InSegment(EadResults, s))
             /\ A[s].outstanding = Outstanding(InSegment(EadResults, s))
             /\ A[s].loans = Cardinality(LoansOf(InSegment(EadResults, s)))
  BY <1>1, <1>2, <1>3, SegmentRow
<1>5. IsFiniteSet(Segmented)
  <2> DEFINE f == [r \in EadResults |-> r.segment]
  <2>1. f \in Surjection(EadResults, Segmented)
    BY DEF Surjection, Segmented
  <2> HIDE DEF f
  <2>2. QED BY <1>2, <2>1, FS_Surjection
<1>6. PICK R : R = LoansOf(EadResults)
  OBVIOUS
<1>7. IsFiniteSet(R)
  BY <1>2, <1>6, LoansFinite
<1>8. ASSUME NEW s \in Segmented
      PROVE  IsFiniteSet(LoansOf(InSegment(EadResults, s))) /\ LoansOf(InSegment(EadResults, s)) \in SUBSET R
  <2>1. LoansOf(InSegment(EadResults, s)) \in SUBSET R
    BY <1>6, LoansOfSegment
  <2>2. QED BY <1>7, <2>1, FS_Subset
<1>9. SumFunctionOnSet([s \in Segmented |-> A[s].ecl], Segmented) = RunTotals.ecl
  <2> DEFINE v == [s \in Segmented |-> A[s].ecl]
  <2>1. \A s \in Segmented : v[s] = Ecl(InSegment(EadResults, s))
    BY <1>4
  <2>2. SumFunctionOnSet(v, Segmented) = Ecl(EadResults)
    <3> HIDE DEF v
    <3>1. QED BY <1>5, <2>1, EclBySegments
  <2>3. QED BY <2>2 DEF RunTotals
<1>10. SumFunctionOnSet([s \in Segmented |-> A[s].outstanding], Segmented) = RunTotals.outstanding
  <2> DEFINE v == [s \in Segmented |-> A[s].outstanding]
             w == [l \in R |-> Largest(OfLoan(EadResults, l))]
  <2>1. \A l \in R : w[l] \in Int
    BY <1>6, AllRowsAreWhole, LargestIsNumber
  <2>2. ASSUME NEW s \in Segmented PROVE v[s] = SumFunctionOnSet(w, LoansOf(InSegment(EadResults, s)))
    <3>1. PICK S, T : S = InSegment(EadResults, s) /\ T = LoansOf(S)
      OBVIOUS
    <3> DEFINE x == [l \in T |-> Largest(OfLoan(S, l))]
    <3>2. Whole(S)
      BY <3>1, AllRowsAreWhole, FiltersKeepLoans
    <3>3. \A l \in T : OfLoan(S, l) = OfLoan(EadResults, l)
      BY <3>1, <3>2, WholeLoan
    <3>4. \A l \in T : x[l] = w[l]
      BY <1>8, <3>1, <3>3
    <3>5. SumFunctionOnSet(x, T) = SumFunctionOnSet(w, T)
      <4> HIDE DEF x, w
      <4>1. QED BY <1>8, <3>1, <3>4, SameSum
    <3>6. Outstanding(S) = SumFunctionOnSet(x, T)
      BY <3>1 DEF Outstanding, SumFunction
    <3>7. v[s] = Outstanding(S)
      BY <1>4, <3>1
    <3>8. QED BY <3>1, <3>5, <3>6, <3>7
  <2>3. SumFunctionOnSet(v, Segmented) = SumFunctionOnSet(w, R)
    <3> HIDE DEF v, w
    <3>1. QED BY <1>5, <1>6, <2>1, <2>2, LoansBySegments
  <2>4. RunTotals.outstanding = SumFunctionOnSet(w, R)
    BY <1>6 DEF RunTotals, Outstanding, SumFunction
  <2>5. QED BY <2>3, <2>4
<1>11. SumFunctionOnSet([s \in Segmented |-> A[s].loans], Segmented) = RunTotals.loans
  <2> DEFINE v == [s \in Segmented |-> A[s].loans]
             w == [l \in R |-> 1]
  <2>1. \A l \in R : w[l] \in Int
    OBVIOUS
  <2>2. ASSUME NEW s \in Segmented PROVE v[s] = SumFunctionOnSet(w, LoansOf(InSegment(EadResults, s)))
    <3>1. Cardinality(LoansOf(InSegment(EadResults, s))) = SumFunctionOnSet(w, LoansOf(InSegment(EadResults, s)))
      BY <1>7, <1>8, OnesCount
    <3>2. QED BY <1>4, <3>1
  <2>3. SumFunctionOnSet(v, Segmented) = SumFunctionOnSet(w, R)
    <3> HIDE DEF v, w
    <3>1. QED BY <1>5, <1>6, <2>1, <2>2, LoansBySegments
  <2>4. R \in SUBSET R
    OBVIOUS
  <2>5. Cardinality(R) = SumFunctionOnSet(w, R)
    BY <1>7, <2>4, OnesCount
  <2>6. QED BY <1>6, <2>3, <2>5 DEF RunTotals
<1>12. GetPortfolio(AnyStage, 0)
         = [ecl |-> SumFunctionOnSet([s \in Segmented |-> A[s].ecl], Segmented),
            outstanding |-> SumFunctionOnSet([s \in Segmented |-> A[s].outstanding], Segmented),
            loans |-> SumFunctionOnSet([s \in Segmented |-> A[s].loans], Segmented)]
  BY <1>1, <1>3 DEF GetPortfolio, SumFunction
<1>13. RunTotals = [ecl |-> RunTotals.ecl, outstanding |-> RunTotals.outstanding, loans |-> RunTotals.loans]
  BY DEF RunTotals
<1>14. QED BY <1>9, <1>10, <1>11, <1>12, <1>13

\* Every view of a run shows the same run, under every filter.
THEOREM ViewsAreOne == Spec => []ViewsAgree
<1>1. GateInv /\ SnapsOK /\ LgdOK /\ BalancesOK /\ LossOK => ViewsAgree
  <2>1. SUFFICES ASSUME GateInv, SnapsOK, LgdOK, BalancesOK, LossOK, Reported PROVE ViewsAgree
    BY DEF ViewsAgree
  <2>2. RowsOK
    BY <2>1, StoredRows
  <2>3. GetPortfolio(AnyStage, 0) = RunTotals
    BY <2>2, PortfolioAgrees
  <2>4. ASSUME NEW stage \in StageFilters, NEW min \in Thresholds,
               NEW segment \in DOMAIN SegmentAggregates(stage, min)
        PROVE  LET a == SegmentAggregates(stage, min)[segment]
                   L == LoanRows(segment, stage, min)
               IN  /\ a.ecl = SumFunction([x \in L |-> x["ecl"]])
                   /\ a.outstanding = SumFunction([x \in L |-> x["outstanding"]])
                   /\ a.loans = Cardinality(L)
                   /\ a.loans = SumFunction(a.mix)
                   /\ \A x \in L : {x} = GetLoan(x.loan)
    <3>1. ListAgrees(segment, stage, min)
      BY ONLY <2>2, <2>4, SegmentAgrees
    <3>2. SegmentAggregates(stage, min)[segment].loans = SumFunction(SegmentAggregates(stage, min)[segment].mix)
      BY ONLY <2>2, <2>4, MixAddsUp
    <3>3. QED BY ONLY <3>1, <3>2, Zenon DEF ListAgrees
  <2>5. QED BY <2>3, <2>4 DEF ViewsAgree
<1>2. QED BY <1>1, Gate, Snaps, Lgds, Balances, Losses, PTL

=============================================================================
