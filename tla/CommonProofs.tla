---------------------------- MODULE CommonProofs ----------------------------
(***************************************************************************)
(* Facts that the proofs of several components use.  First the flat array  *)
(* of an event, for every size of the plan.  Then induction over the       *)
(* natural numbers, for recursive functions, partial sums and folds over   *)
(* sequences: it is stated with sets, because an induction theorem with an *)
(* operator for parameter cannot be instantiated by the provers here.      *)
(***************************************************************************)
EXTENDS SeatGrid, SequenceTheorems, FiniteSetsExt, WellFoundedInduction, TLAPS

(* A product grows with its left factor.                                   *)
LEMMA ProductMonotone ==
  ASSUME NEW a \in Nat, NEW b \in Nat, NEW c \in Nat, a <= b
  PROVE  a * c <= b * c
BY Z3

(* seat_index maps a seat of the plan to a place of the array              *)
(* (server/operations.c:33): no access is out of bounds.                   *)
THEOREM SeatIndexInRange ==
  ASSUME NEW e, e.rows \in Nat, e.cols \in Nat, NEW row, NEW col,
         <<row, col>> \in Coords(e)
  PROVE  SeatIndex(e, row, col) \in Places(e)
<1> DEFINE R == e.rows
           C == e.cols
<1>1. row \in 1 .. R /\ col \in 1 .. C
  BY DEF Coords
<1>2. R \in Nat /\ C \in Nat /\ row \in Nat /\ row - 1 \in Nat /\ row - 1 <= R - 1 /\ R - 1 \in Nat
  BY <1>1
<1> HIDE DEF R, C
<1>3. (row - 1) * C <= (R - 1) * C
  BY <1>2, ProductMonotone
<1>4. (R - 1) * C = R * C - C
  BY <1>2, Z3
<1>5. (row - 1) * C \in Nat /\ R * C \in Nat
  BY <1>2, Z3
<1>6. (row - 1) * C + col - 1 \in 0 .. (R * C - 1)
  <2> DEFINE x == (row - 1) * C
             y == R * C
  <2>1. x \in Nat /\ y \in Nat /\ x <= y - C
    BY <1>3, <1>4, <1>5
  <2> HIDE DEF x, y
  <2>2. x + col - 1 \in 0 .. (y - 1)
    BY <2>1, <1>1, <1>2
  <2> QED BY <2>2 DEF x, y
<1> QED BY <1>6 DEF SeatIndex, Places, R, C

(* Two seats of a plan never share a place: a reservation marks the seats  *)
(* it asked for and no other.                                              *)
THEOREM SeatIndexInjective ==
  ASSUME NEW e, e.rows \in Nat, e.cols \in Nat,
         NEW r1, NEW c1, <<r1, c1>> \in Coords(e),
         NEW r2, NEW c2, <<r2, c2>> \in Coords(e),
         SeatIndex(e, r1, c1) = SeatIndex(e, r2, c2)
  PROVE  r1 = r2 /\ c1 = c2
<1> DEFINE R == e.rows
           C == e.cols
<1>1. /\ R \in Nat /\ C \in Nat
      /\ r1 \in 1 .. R /\ c1 \in 1 .. C /\ r2 \in 1 .. R /\ c2 \in 1 .. C
  BY DEF Coords
<1>2. (r1 - 1) * C + c1 - 1 = (r2 - 1) * C + c2 - 1
  BY DEF SeatIndex
<1> HIDE DEF R, C
<1>3. \A a, b \in Nat : \A x, y \in 1 .. C :
        a * C + x = b * C + y => ~ (a < b)
  <2> SUFFICES ASSUME NEW a \in Nat, NEW b \in Nat, NEW x \in 1 .. C, NEW y \in 1 .. C,
                      a * C + x = b * C + y, a < b
               PROVE  FALSE
    OBVIOUS
  <2>1. (a + 1) * C <= b * C
    BY <1>1, ProductMonotone
  <2>2. (a + 1) * C = a * C + C
    BY <1>1, Z3
  <2>3. a * C \in Nat /\ b * C \in Nat
    BY <1>1, Z3
  <2> DEFINE p == a * C
             q == b * C
  <2>4. p \in Nat /\ q \in Nat /\ p + C <= q /\ p + x = q + y
    BY <2>1, <2>2, <2>3
  <2> HIDE DEF p, q
  <2> QED BY <2>4, <1>1
<1>4. (r1 - 1) * C + c1 = (r2 - 1) * C + c2
  <2>1. (r1 - 1) * C \in Int /\ (r2 - 1) * C \in Int
    BY <1>1, Z3
  <2> DEFINE p == (r1 - 1) * C
             q == (r2 - 1) * C
  <2>2. p \in Int /\ q \in Int /\ p + c1 - 1 = q + c2 - 1
    BY <2>1, <1>2
  <2> HIDE DEF p, q
  <2>3. p + c1 = q + c2
    BY <2>2, <1>1
  <2> QED BY <2>3 DEF p, q
<1>5. r1 - 1 \in Nat /\ r2 - 1 \in Nat
  BY <1>1
<1>6. r1 = r2
  <2>1. ~ (r1 - 1 < r2 - 1)
    BY <1>1, <1>3, <1>4, <1>5
  <2>2. ~ (r2 - 1 < r1 - 1)
    BY <1>1, <1>3, <1>4, <1>5
  <2> QED BY <2>1, <2>2, <1>1
<1>7. c1 = c2
  <2>1. (r1 - 1) * C \in Int
    BY <1>1, Z3
  <2> DEFINE p == (r1 - 1) * C
  <2>2. p \in Int /\ p + c1 = p + c2
    BY <2>1, <1>4, <1>6
  <2> HIDE DEF p
  <2> QED BY <2>2, <1>1
<1> QED BY <1>6, <1>7

(* SHOW walks the array from its first place to its last.                  *)
THEOREM RowMajorIndex ==
  ASSUME NEW e, e.rows \in Nat, e.cols \in Nat, NEW k \in 1 .. e.rows * e.cols
  PROVE  SeatIndex(e, RowMajor(e, k)[1], RowMajor(e, k)[2]) = k - 1
<1> DEFINE C == e.cols
           n == k - 1
<1>1. C \in Nat /\ C > 0
  <2>1. e.rows * e.cols >= 1 BY Z3
  <2> QED BY <2>1, Z3
<1>2. n \in Nat /\ k = n + 1
  BY Z3
<1> HIDE DEF C, n
<1>3. n \div C \in Nat /\ n % C \in Nat /\ n = C * (n \div C) + (n % C)
  BY <1>1, <1>2, Z3
<1>4. C * (n \div C) = (n \div C) * C
  BY <1>1, <1>3, Z3
<1>5. RowMajor(e, k) = <<(n \div C) + 1, (n % C) + 1>>
  BY DEF RowMajor, C, n
<1>6. SeatIndex(e, (n \div C) + 1, (n % C) + 1) = n
  <2> DEFINE q == n \div C
             m == n % C
  <2>1. q \in Nat /\ m \in Nat /\ n = q * C + m
    BY <1>3, <1>4
  <2> HIDE DEF q, m
  <2>2. ((q + 1) - 1) * C + (m + 1) - 1 = n
    <3>1. (q + 1) - 1 = q BY <2>1
    <3>2. q * C \in Nat BY <2>1, <1>1, Z3
    <3> DEFINE p == q * C
    <3>3. p \in Nat /\ n = p + m BY <3>2, <2>1
    <3> HIDE DEF p
    <3>4. p + (m + 1) - 1 = n BY <3>3, <2>1
    <3> QED BY <3>1, <3>4 DEF p
  <2>3. (((n \div C) + 1) - 1) * e.cols + ((n % C) + 1) - 1 = n
    BY <2>2 DEF q, m, C
  <2> QED BY <2>3 DEF SeatIndex
<1> QED BY <1>5, <1>6 DEF n

(* SHOW walks over seats of the plan only: every turn of its loops reads a *)
(* seat that exists.                                                       *)
THEOREM RowMajorInPlan ==
  ASSUME NEW e, e.rows \in Nat, e.cols \in Nat, NEW k \in 1 .. e.rows * e.cols
  PROVE  RowMajor(e, k) \in Coords(e)
<1> DEFINE R == e.rows
           C == e.cols
           n == k - 1
<1>1. C \in Nat /\ C > 0 /\ R \in Nat
  <2>1. e.rows * e.cols >= 1 BY Z3
  <2> QED BY <2>1, Z3
<1>2. n \in Nat /\ n < R * C /\ R * C \in Nat
  BY Z3
<1> HIDE DEF R, C, n
<1> DEFINE q == n \div C
           m == n % C
<1>3. q \in Nat /\ m \in 0 .. (C - 1) /\ n = C * q + m
  BY <1>1, <1>2, Z3
<1>4. RowMajor(e, k) = <<q + 1, m + 1>>
  BY DEF RowMajor, C, n
<1> HIDE DEF q, m
<1>5. q < R
  <2>1. ASSUME R <= q
        PROVE  FALSE
    <3>1. R * C <= q * C
      BY <1>1, <1>3, <2>1, ProductMonotone
    <3>2. q * C = C * q /\ C * q \in Nat
      BY <1>1, <1>3, Z3
    <3> DEFINE x == C * q
               y == R * C
    <3>3. x \in Nat /\ y \in Nat /\ y <= x /\ n = x + m /\ n < y
      BY <1>2, <1>3, <3>1, <3>2
    <3> HIDE DEF x, y
    <3> QED BY <1>3, <3>3
  <2> QED BY <1>1, <1>3, <2>1
<1>6. q + 1 \in 1 .. R /\ m + 1 \in 1 .. C
  BY <1>1, <1>3, <1>5
<1> QED BY <1>4, <1>6 DEF Coords, R, C

-----------------------------------------------------------------------------
(* A function on 1 .. n + 1 is its restriction to 1 .. n with one value    *)
(* appended.                                                               *)
LEMMA AppendIs ==
  ASSUME NEW n \in Nat, NEW s, NEW f, NEW x, DOMAIN s = 1 .. n, DOMAIN f = 1 .. (n + 1),
         s = [i \in 1 .. n |-> s[i]], f = [i \in 1 .. (n + 1) |-> f[i]],
         \A i \in 1 .. n : f[i] = s[i], f[n + 1] = x
  PROVE  f = Append(s, x)
<1> DEFINE S == {s[i] : i \in 1 .. n} \cup {x}
<1>1. x \in S /\ \A i \in 1 .. n : s[i] \in S
  OBVIOUS
<1> HIDE DEF S
<1>2. s \in Seq(S) /\ f \in Seq(S) /\ Len(s) = n /\ Len(f) = n + 1
  <2>1. s \in [1 .. n -> S]
    BY <1>1
  <2>2. ASSUME NEW i \in 1 .. (n + 1)
        PROVE  f[i] \in S
    <3>1. i \in 1 .. n \/ i = n + 1
      OBVIOUS
    <3> QED BY <1>1, <3>1
  <2>3. f \in [1 .. (n + 1) -> S]
    BY <2>2
  <2>4. n + 1 \in Nat
    OBVIOUS
  <2> QED BY <2>1, <2>3, <2>4, SeqDef
<1>3. Append(s, x) \in Seq(S) /\ Len(Append(s, x)) = n + 1
  BY <1>1, <1>2
<1>4. \A i \in 1 .. (n + 1) : f[i] = Append(s, x)[i]
  <2>1. \A i \in 1 .. n : Append(s, x)[i] = s[i]
    BY <1>1, <1>2
  <2>2. Append(s, x)[n + 1] = x
    BY <1>1, <1>2
  <2>3. \A i \in 1 .. (n + 1) : i \in 1 .. n \/ i = n + 1
    OBVIOUS
  <2> QED BY <2>1, <2>2, <2>3
<1> QED BY <1>2, <1>3, <1>4, SeqEqual

-----------------------------------------------------------------------------
(* A set of natural numbers that is not empty has a least element.         *)
THEOREM LeastElement ==
  ASSUME NEW S \in SUBSET Nat, S # {}
  PROVE  \E m \in S : \A n \in S : m <= n
<1> DEFINE R == OpToRel(<, Nat)
<1>1. IsWellFoundedOn(R, Nat)
  BY NatLessThanWellFounded
<1>2. \A a, b \in Nat : a < b => <<a, b>> \in R
  BY DEF OpToRel
<1> HIDE DEF R
<1>3. PICK m \in S : \A n \in S : ~ (<<n, m>> \in R)
  BY <1>1, WFMin
<1>4. ASSUME NEW n \in S
      PROVE  m <= n
  <2>1. ~ (n < m)
    BY <1>2, <1>3
  <2> QED BY <2>1
<1> QED BY <1>4

(* A set that holds 0 and the successor of all it holds is Nat.            *)
THEOREM SetInduction ==
  ASSUME NEW S \in SUBSET Nat, 0 \in S, \A n \in S : n + 1 \in S
  PROVE  S = Nat
<1> SUFFICES ASSUME Nat \ S # {} PROVE FALSE
  OBVIOUS
<1>1. PICK m \in Nat \ S : \A n \in Nat \ S : m <= n
  BY LeastElement
<1>2. m # 0 /\ m - 1 \in Nat /\ ~ (m <= m - 1)
  BY <1>1
<1>3. m - 1 \in S
  BY <1>1, <1>2
<1>4. (m - 1) + 1 \in S /\ (m - 1) + 1 = m
  BY <1>2, <1>3
<1> QED BY <1>1, <1>4

(* A set of natural numbers with a bound has a greatest element, unless it *)
(* is empty.                                                               *)
THEOREM GreatestElement ==
  ASSUME NEW b \in Nat, NEW S \in SUBSET (0 .. b), S # {}
  PROVE  \E m \in S : \A n \in S : n <= m
<1> DEFINE T == {b - n : n \in S}
<1>1. T \in SUBSET Nat /\ T # {}
  <2>1. \A n \in S : b - n \in Nat
    OBVIOUS
  <2>2. PICK n : n \in S
    OBVIOUS
  <2> QED BY <2>1, <2>2
<1>2. PICK d \in T : \A e \in T : d <= e
  <2> HIDE DEF T
  <2> QED BY <1>1, LeastElement
<1>3. PICK m \in S : d = b - m
  BY <1>2
<1>4. \A n \in S : b - m <= b - n
  BY <1>2, <1>3
<1> QED BY <1>3, <1>4

(* The sums of the first elements of a finite sequence of numbers exist.   *)
THEOREM PartialSums ==
  ASSUME NEW len \in Nat, NEW b, \A k \in 1 .. len : b[k] \in Nat
  PROVE  \E sum \in [0 .. len -> Nat] :
           sum = [k \in 0 .. len |-> IF k = 0 THEN 0 ELSE sum[k - 1] + b[k]]
<1> DEFINE Sums(n) == {s \in [0 .. n -> Nat] :
                         s = [k \in 0 .. n |-> IF k = 0 THEN 0 ELSE s[k - 1] + b[k]]}
           S == {n \in Nat : n <= len => Sums(n) # {}}
<1>1. 0 \in S
  <2>1. [k \in 0 .. 0 |-> 0] \in Sums(0)
    OBVIOUS
  <2> QED BY <2>1
<1>2. ASSUME NEW n \in S
      PROVE  n + 1 \in S
  <2>0. n \in Nat
    OBVIOUS
  <2> SUFFICES ASSUME n + 1 <= len PROVE Sums(n + 1) # {}
    <3> HIDE DEF Sums
    <3> QED BY <2>0
  <2>1. PICK s \in [0 .. n -> Nat] :
          s = [k \in 0 .. n |-> IF k = 0 THEN 0 ELSE s[k - 1] + b[k]]
    BY <1>2
  <2>2. n \in Nat /\ b[n + 1] \in Nat /\ s[n] \in Nat
    BY <1>2
  <2> DEFINE t == [k \in 0 .. (n + 1) |-> IF k = n + 1 THEN s[n] + b[n + 1] ELSE s[k]]
  <2>3. t \in [0 .. (n + 1) -> Nat]
    BY <2>2
  <2>4. ASSUME NEW k \in 0 .. (n + 1)
        PROVE  t[k] = IF k = 0 THEN 0 ELSE t[k - 1] + b[k]
    <3>1. CASE k = n + 1
      BY <2>2, <3>1
    <3>2. CASE k \in 0 .. n
      <4>1. s[k] = IF k = 0 THEN 0 ELSE s[k - 1] + b[k]
        BY <2>1, <3>2
      <4> QED BY <2>2, <3>2, <4>1
    <3> QED BY <2>2, <3>1, <3>2
  <2>5. t = [k \in 0 .. (n + 1) |-> IF k = 0 THEN 0 ELSE t[k - 1] + b[k]]
    <3> HIDE DEF t
    <3> QED BY <2>3, <2>4
  <2> QED BY <2>3, <2>5
<1>3. S = Nat
  <2> HIDE DEF S
  <2> SUFFICES S \in SUBSET Nat
    BY <1>1, <1>2, SetInduction
  <2> QED BY DEF S
<1>4. PICK s : s \in Sums(len)
  <2> HIDE DEF Sums
  <2>1. len \in S
    <3> HIDE DEF S
    <3> QED BY <1>3
  <2> QED BY <2>1
<1> QED BY <1>4
(* Whatever satisfies that recursion is such sums.                         *)
THEOREM PartialSumsAreNumbers ==
  ASSUME NEW len \in Nat, NEW b, \A k \in 1 .. len : b[k] \in Nat,
         NEW sum, sum = [k \in 0 .. len |-> IF k = 0 THEN 0 ELSE sum[k - 1] + b[k]]
  PROVE  sum \in [0 .. len -> Nat]
<1> DEFINE S == {n \in Nat : n <= len => sum[n] \in Nat}
<1>0. \A k \in 0 .. len : sum[k] = IF k = 0 THEN 0 ELSE sum[k - 1] + b[k]
  OBVIOUS
<1>1. 0 \in S
  BY <1>0
<1>2. ASSUME NEW n \in S
      PROVE  n + 1 \in S
  <2>1. n \in Nat
    OBVIOUS
  <2>2. ASSUME n + 1 <= len
        PROVE  sum[n + 1] \in Nat
    <3>1. sum[n] \in Nat
      BY <2>1, <2>2
    <3>2. sum[n + 1] = sum[n] + b[n + 1]
      BY <1>0, <2>1, <2>2
    <3> QED BY <2>1, <2>2, <3>1, <3>2
  <2> QED BY <2>1, <2>2
<1>3. S = Nat
  <2>1. S \in SUBSET Nat
    OBVIOUS
  <2> HIDE DEF S
  <2> QED BY <1>1, <1>2, <2>1, SetInduction
<1>4. ASSUME NEW k \in 0 .. len
      PROVE  sum[k] \in Nat
  <2>1. k \in S
    <3> HIDE DEF S
    <3> QED BY <1>3
  <2> QED BY <2>1
<1> HIDE DEF S
<1> QED BY <1>4
-----------------------------------------------------------------------------
(* FoldLeft of the community modules takes the greatest element from a set *)
(* of indices, again and again.                                            *)
THEOREM MaxIsGreatest ==
  ASSUME NEW n \in Nat, NEW s \in SUBSET (1 .. n), s # {}
  PROVE  Max(s) \in s /\ \A y \in s : Max(s) >= y
<1>1. s \in SUBSET (0 .. n)
  OBVIOUS
<1>2. PICK m \in s : \A y \in s : y <= m
  BY <1>1, GreatestElement
<1>3. \A y \in s : m >= y
  BY <1>1, <1>2
<1> QED BY <1>2, <1>3 DEF Max

THEOREM PrefixesOfIndices ==
  ASSUME NEW n \in Nat, NEW k \in 1 .. n
  PROVE  /\ 1 .. k \in SUBSET (1 .. n) /\ 1 .. k # {}
         /\ Max(1 .. k) = k /\ (1 .. k) \ {k} = 1 .. (k - 1)
<1>1. k \in Nat /\ 1 .. k \in SUBSET (1 .. n) /\ k \in 1 .. k
  OBVIOUS
<1>2. Max(1 .. k) \in 1 .. k /\ Max(1 .. k) >= k
  BY <1>1, MaxIsGreatest
<1>3. Max(1 .. k) = k
  BY <1>1, <1>2
<1>4. (1 .. k) \ {k} = 1 .. (k - 1)
  BY <1>1
<1> QED BY <1>1, <1>3, <1>4

(* So the function that a fold chooses exists, if its steps stay in a set. *)
IsFold(it, n, base, step) ==
  \A s \in SUBSET (1 .. n) :
    it[s] = IF s = {} THEN base ELSE step[Max(s)][it[s \ {Max(s)}]]

THEOREM FoldExists ==
  ASSUME NEW n \in Nat, NEW S, NEW base \in S, NEW step \in [1 .. n -> [S -> S]]
  PROVE  \E it \in [SUBSET (1 .. n) -> S] : IsFold(it, n, base, step)
<1> DEFINE Folds(m) ==
             {it \in [SUBSET (1 .. m) -> S] :
                \A s \in SUBSET (1 .. m) :
                  it[s] = IF s = {} THEN base ELSE step[Max(s)][it[s \ {Max(s)}]]}
           N == {m \in Nat : m <= n => Folds(m) # {}}
<1>1. 0 \in N
  <2>1. SUBSET (1 .. 0) = {{}}
    OBVIOUS
  <2>2. [s \in SUBSET (1 .. 0) |-> base] \in Folds(0)
    BY <2>1
  <2> QED BY <2>2
<1>2. ASSUME NEW m \in N
      PROVE  m + 1 \in N
  <2>0. m \in Nat
    OBVIOUS
  <2> SUFFICES ASSUME m + 1 <= n PROVE Folds(m + 1) # {}
    <3> HIDE DEF Folds
    <3> QED BY <2>0
  <2>1. PICK it \in Folds(m) : TRUE
    <3> HIDE DEF Folds
    <3> QED BY <2>0
  <2>2. /\ it \in [SUBSET (1 .. m) -> S]
        /\ \A s \in SUBSET (1 .. m) :
             it[s] = IF s = {} THEN base ELSE step[Max(s)][it[s \ {Max(s)}]]
    BY <2>1
  <2>3. step[m + 1] \in [S -> S]
    BY <2>0
  <2> DEFINE t == [s \in SUBSET (1 .. (m + 1)) |->
                     IF m + 1 \in s THEN step[m + 1][it[s \ {m + 1}]] ELSE it[s]]
  <2>4. ASSUME NEW s \in SUBSET (1 .. (m + 1))
        PROVE  s \ {m + 1} \in SUBSET (1 .. m) /\ (m + 1 \notin s => s \in SUBSET (1 .. m))
    <3>1. \A k \in 1 .. (m + 1) : k # m + 1 => k \in 1 .. m
      BY <2>0
    <3> QED BY <3>1
  <2>5. t \in [SUBSET (1 .. (m + 1)) -> S]
    BY <2>2, <2>3, <2>4
  <2>6. ASSUME NEW s \in SUBSET (1 .. (m + 1))
        PROVE  t[s] = IF s = {} THEN base ELSE step[Max(s)][t[s \ {Max(s)}]]
    <3>1. CASE m + 1 \in s
      <4>1. Max(s) \in s /\ Max(s) >= m + 1
        <5> DEFINE j == m + 1
        <5>1. j \in Nat /\ s \in SUBSET (1 .. j) /\ s # {} /\ j \in s
          BY <2>0, <3>1
        <5> HIDE DEF j
        <5>2. Max(s) \in s /\ Max(s) >= j
          BY <5>1, MaxIsGreatest
        <5> QED BY <5>2 DEF j
      <4>2. Max(s) = m + 1
        <5>1. Max(s) \in 1 .. (m + 1)
          BY <4>1
        <5> QED BY <2>0, <4>1, <5>1
      <4>3. t[s] = step[m + 1][it[s \ {m + 1}]]
        BY <3>1
      <4>4. t[s \ {m + 1}] = it[s \ {m + 1}]
        OBVIOUS
      <4> HIDE DEF t
      <4> QED BY <3>1, <4>2, <4>3, <4>4
    <3>2. CASE m + 1 \notin s /\ s # {}
      <4>1. s \in SUBSET (1 .. m)
        BY <2>4, <3>2
      <4>2. Max(s) \in s
        BY <2>0, <3>2, <4>1, MaxIsGreatest
      <4>3. t[s] = it[s] /\ t[s \ {Max(s)}] = it[s \ {Max(s)}]
        BY <3>2
      <4> HIDE DEF t
      <4> QED BY <2>2, <3>2, <4>1, <4>3
    <3>3. CASE s = {}
      <4>1. t[s] = it[s] /\ s \in SUBSET (1 .. m)
        BY <3>3
      <4> HIDE DEF t
      <4> QED BY <2>2, <3>3, <4>1
    <3> HIDE DEF t
    <3> QED BY <3>1, <3>2, <3>3
  <2> HIDE DEF t
  <2>7. t \in Folds(m + 1)
    BY <2>5, <2>6
  <2> HIDE DEF Folds
  <2> QED BY <2>7
<1>3. N = Nat
  <2>1. N \in SUBSET Nat
    OBVIOUS
  <2> HIDE DEF N
  <2> QED BY <1>1, <1>2, <2>1, SetInduction
<1>4. n \in N
  <2> HIDE DEF N
  <2> QED BY <1>3
<1>5. PICK it : it \in Folds(n)
  <2> HIDE DEF Folds
  <2> QED BY <1>4
<1> QED BY <1>5 DEF IsFold

(* And what it returns is found going through the sequence: T[k] is what   *)
(* the first k steps may lead to.                                          *)
THEOREM FoldSteps ==
  ASSUME NEW n \in Nat, NEW T, NEW it, it[{}] \in T[0],
         \A k \in 1 .. n : it[1 .. (k - 1)] \in T[k - 1] => it[1 .. k] \in T[k]
  PROVE  it[1 .. n] \in T[n]
<1> DEFINE N == {k \in Nat : k <= n => it[1 .. k] \in T[k]}
<1>1. 0 \in N
  <2>1. 1 .. 0 = {}
    OBVIOUS
  <2> QED BY <2>1
<1>2. ASSUME NEW k \in N
      PROVE  k + 1 \in N
  <2>1. k \in Nat /\ k <= n => it[1 .. k] \in T[k]
    OBVIOUS
  <2>2. k + 1 <= n => k + 1 \in 1 .. n /\ (k + 1) - 1 = k /\ k <= n
    BY <2>1
  <2> QED BY <2>1, <2>2
<1>3. N = Nat
  <2>1. N \in SUBSET Nat
    OBVIOUS
  <2> HIDE DEF N
  <2> QED BY <1>1, <1>2, <2>1, SetInduction
<1>4. n \in N
  <2> HIDE DEF N
  <2> QED BY <1>3
<1> QED BY <1>4
=============================================================================
