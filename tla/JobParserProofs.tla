-------------------------- MODULE JobParserProofs --------------------------
(***************************************************************************)
(* Proofs about JobParser, for files of any contents: it stays in the file *)
(* and reads numbers, and it reads every line as JobGrammar says, to its   *)
(* end if the grammar knows it.  What an invalid line takes with it is     *)
(* bounded.  The numbers are read digit by digit and the lists seat by     *)
(* seat, with the folds of CommonProofs; the grammar names the same places *)
(* by counting the marks between the fields of a line.                     *)
(***************************************************************************)
EXTENDS JobGrammar, CommonProofs, FiniteSetTheorems, SequenceTheorems, TLAPS

(* Digits that follow each other.                                          *)
DigitChars == {c \in STRING : IsDigit(c)}
DigitRuns == Seq(DigitChars)

(* What they are worth is found digit by digit, and is a number.           *)
LEMMA NumberRun ==
  ASSUME NEW s \in DigitRuns
  PROVE  \E sum : /\ sum[{}] = 0 /\ Number(s) = sum[1 .. Len(s)]
                 /\ \A k \in 1 .. Len(s) :
                      /\ sum[1 .. k] = 10 * sum[1 .. (k - 1)] + DigitValue(s[k])
                      /\ DigitValue(s[k]) \in Nat
<1> DEFINE n == Len(s)
           v == [k \in 1 .. n |-> DigitValue(s[k])]
           Chosen(it) == it = [t \in SUBSET (1 .. n) |->
                                IF t = {} THEN 0
                                ELSE 10 * it[t \ {Max(t)}] + DigitValue(s[Max(t)])]
           sum == CHOOSE it : Chosen(it)
           step == [k \in 1 .. n |-> [m \in Nat |-> 10 * m + v[k]]]
<1>1. n \in Nat /\ DOMAIN s = 1 .. n
  BY DEF DigitRuns
<1>2. \A k \in 1 .. n : v[k] = DigitValue(s[k]) /\ v[k] \in Nat
  <2> SUFFICES ASSUME NEW k \in 1 .. n PROVE DigitValue(s[k]) \in Nat
    OBVIOUS
  <2>1. s[k] \in DigitChars
    BY <1>1 DEF DigitRuns
  <2> QED BY <2>1 DEF DigitChars, DigitValue, IsDigit
<1>3. Number(s) = sum[1 .. n]
  BY <1>1 DEF Number, FoldLeft, MapThenFoldSet
<1>4. step \in [1 .. n -> [Nat -> Nat]]
  <2> HIDE DEF v
  <2> QED BY <1>2
<1>5. PICK it \in [SUBSET (1 .. n) -> Nat] : IsFold(it, n, 0, step)
  <2> HIDE DEF n, step
  <2> QED BY <1>1, <1>4, FoldExists
<1>6. ASSUME NEW t \in SUBSET (1 .. n)
      PROVE  it[t] = IF t = {} THEN 0 ELSE 10 * it[t \ {Max(t)}] + DigitValue(s[Max(t)])
  <2>1. CASE t # {}
    <3>1. Max(t) \in 1 .. n
      BY <1>1, <2>1, MaxIsGreatest
    <3>2. it[t \ {Max(t)}] \in Nat
      OBVIOUS
    <3>3. step[Max(t)][it[t \ {Max(t)}]] = 10 * it[t \ {Max(t)}] + v[Max(t)]
      BY <3>1, <3>2
    <3> HIDE DEF step, v
    <3> QED BY <1>2, <1>5, <2>1, <3>1, <3>3 DEF IsFold
  <2> HIDE DEF step, v
  <2> QED BY <1>5, <2>1 DEF IsFold
<1>7. Chosen(it)
  BY <1>5, <1>6
<1>8. Chosen(sum)
  <2> HIDE DEF Chosen
  <2> QED BY <1>7
<1>9. \A t \in SUBSET (1 .. n) :
        sum[t] = IF t = {} THEN 0 ELSE 10 * sum[t \ {Max(t)}] + DigitValue(s[Max(t)])
  <2> HIDE DEF sum
  <2> QED BY <1>8
<1>10. sum[{}] = 0
  <2> HIDE DEF sum
  <2> QED BY <1>9
<1>11. ASSUME NEW k \in 1 .. n
       PROVE  sum[1 .. k] = 10 * sum[1 .. (k - 1)] + DigitValue(s[k])
  <2>1. /\ 1 .. k \in SUBSET (1 .. n) /\ 1 .. k # {}
        /\ Max(1 .. k) = k /\ (1 .. k) \ {k} = 1 .. (k - 1)
    <3> HIDE DEF n, sum
    <3> QED BY <1>1, PrefixesOfIndices
  <2> HIDE DEF sum, v
  <2> QED BY <1>9, <2>1
<1> HIDE DEF sum
<1> QED BY <1>2, <1>3, <1>10, <1>11

LEMMA NumberIsNat ==
  ASSUME NEW s \in DigitRuns
  PROVE  Number(s) \in Nat
<1> DEFINE n == Len(s)
           T == [k \in 0 .. n |-> Nat]
<1>1. n \in Nat
  BY DEF DigitRuns
<1>2. PICK sum : /\ sum[{}] = 0 /\ Number(s) = sum[1 .. n]
                 /\ \A k \in 1 .. n :
                      /\ sum[1 .. k] = 10 * sum[1 .. (k - 1)] + DigitValue(s[k])
                      /\ DigitValue(s[k]) \in Nat
  BY NumberRun
<1> HIDE DEF n
<1>3. \A k \in 0 .. n : T[k] = Nat
  OBVIOUS
<1>4. sum[{}] \in T[0]
  BY <1>1, <1>2, <1>3
<1>5. ASSUME NEW k \in 1 .. n, sum[1 .. (k - 1)] \in T[k - 1]
      PROVE  sum[1 .. k] \in T[k]
  <2>1. T[k - 1] = Nat /\ T[k] = Nat
    BY <1>1
  <2> HIDE DEF T
  <2>2. sum[1 .. (k - 1)] \in Nat
    BY <1>5, <2>1
  <2>3. 10 * sum[1 .. (k - 1)] + DigitValue(s[k]) \in Nat
    BY <1>2, <2>2
  <2> QED BY <1>2, <2>1, <2>3
<1>6. sum[1 .. n] \in T[n]
  <2> HIDE DEF T
  <2> QED BY <1>1, <1>4, <1>5, FoldSteps
<1> QED BY <1>1, <1>2, <1>3, <1>6

(* More digits are worth no less.                                          *)
LEMMA NumberGrows ==
  ASSUME NEW s \in DigitRuns, NEW t \in DigitRuns
  PROVE  s \o t \in DigitRuns /\ Number(s) <= Number(s \o t)
<1> DEFINE m == Len(s)
           n == Len(t)
           u == s \o t
<1>1. /\ m \in Nat /\ n \in Nat /\ u \in DigitRuns /\ Len(u) = m + n
      /\ \A k \in 1 .. m : u[k] = s[k]
  <2>1. /\ u \in DigitRuns /\ Len(u) = m + n
        /\ \A k \in 1 .. m + n : u[k] = IF k <= m THEN s[k] ELSE t[k - m]
    BY ConcatProperties DEF DigitRuns
  <2>2. m \in Nat /\ n \in Nat
    BY DEF DigitRuns
  <2> HIDE DEF m, n, u
  <2> QED BY <2>1, <2>2
<1>2. PICK a : /\ a[{}] = 0 /\ Number(s) = a[1 .. m]
               /\ \A k \in 1 .. m :
                    /\ a[1 .. k] = 10 * a[1 .. (k - 1)] + DigitValue(s[k])
                    /\ DigitValue(s[k]) \in Nat
  BY NumberRun
<1>3. PICK b : /\ b[{}] = 0 /\ Number(u) = b[1 .. (m + n)]
               /\ \A k \in 1 .. (m + n) :
                    /\ b[1 .. k] = 10 * b[1 .. (k - 1)] + DigitValue(u[k])
                    /\ DigitValue(u[k]) \in Nat
  <2> HIDE DEF u
  <2>1. PICK b : /\ b[{}] = 0 /\ Number(u) = b[1 .. Len(u)]
                 /\ \A k \in 1 .. Len(u) :
                      /\ b[1 .. k] = 10 * b[1 .. (k - 1)] + DigitValue(u[k])
                      /\ DigitValue(u[k]) \in Nat
    BY <1>1, NumberRun
  <2> QED BY <1>1, <2>1
<1>4. Number(s) \in Nat
  BY NumberIsNat
<1> HIDE DEF m, n, u
<1> DEFINE Reached(k) == {x \in Nat : /\ k <= m => x = a[1 .. k]
                                      /\ k >= m => Number(s) <= x}
           T == [k \in 0 .. (m + n) |-> Reached(k)]
<1>5. \A k \in 0 .. (m + n) : T[k] = Reached(k)
  OBVIOUS
<1>6. 1 .. 0 = {} /\ m + n \in Nat /\ 0 \in 0 .. (m + n)
  BY <1>1
<1> HIDE DEF T
<1>7. b[{}] \in T[0]
  <2>1. m = 0 => Number(s) = 0
    BY <1>2, <1>6
  <2>2. b[{}] = 0 /\ a[1 .. 0] = 0
    BY <1>2, <1>3, <1>6
  <2>3. 0 >= m => m = 0
    BY <1>1
  <2> QED BY <1>5, <1>6, <2>1, <2>2, <2>3
<1>8. ASSUME NEW k \in 1 .. (m + n), b[1 .. (k - 1)] \in T[k - 1]
      PROVE  b[1 .. k] \in T[k]
  <2>1. k - 1 \in 0 .. (m + n) /\ k \in 0 .. (m + n) /\ k \in Nat
    BY <1>1
  <2>2. /\ b[1 .. (k - 1)] \in Nat /\ (k - 1 <= m => b[1 .. (k - 1)] = a[1 .. (k - 1)])
        /\ (k - 1 >= m => Number(s) <= b[1 .. (k - 1)])
    <3>1. b[1 .. (k - 1)] \in Reached(k - 1)
      <4> HIDE DEF Reached
      <4> QED BY <1>5, <1>8, <2>1
    <3>2. \A x \in Reached(k - 1) : /\ x \in Nat /\ (k - 1 <= m => x = a[1 .. (k - 1)])
                                    /\ (k - 1 >= m => Number(s) <= x)
      OBVIOUS
    <3> HIDE DEF Reached
    <3> QED BY <3>1, <3>2
  <2>3. b[1 .. k] = 10 * b[1 .. (k - 1)] + DigitValue(u[k]) /\ DigitValue(u[k]) \in Nat
    BY <1>3
  <2>4. b[1 .. k] \in Nat /\ b[1 .. k] >= b[1 .. (k - 1)]
    BY <2>2, <2>3
  <2>5. ASSUME k <= m
        PROVE  b[1 .. k] = a[1 .. k] /\ (k >= m => Number(s) <= b[1 .. k])
    <3>1. k \in 1 .. m /\ k - 1 <= m /\ (k >= m => k = m)
      BY <1>1, <2>1, <2>5
    <3>2. b[1 .. k] = a[1 .. k]
      BY <1>1, <1>2, <2>2, <2>3, <3>1
    <3>3. k = m => Number(s) = b[1 .. k]
      BY <1>2, <3>2
    <3> QED BY <1>4, <3>1, <3>2, <3>3
  <2>6. ASSUME ~ (k <= m)
        PROVE  Number(s) <= b[1 .. k]
    <3>1. k - 1 >= m
      BY <1>1, <2>1, <2>6
    <3> QED BY <1>4, <2>2, <2>4, <3>1
  <2> QED BY <1>5, <2>1, <2>4, <2>5, <2>6
<1>9. b[1 .. (m + n)] \in T[m + n]
  BY <1>6, <1>7, <1>8, FoldSteps
<1>10. m + n \in 0 .. (m + n) /\ m + n >= m
  BY <1>1
<1>11. b[1 .. (m + n)] \in Reached(m + n)
  <2> HIDE DEF Reached
  <2> QED BY <1>5, <1>9, <1>10
<1>12. Number(s) <= b[1 .. (m + n)]
  <2>1. \A x \in Reached(m + n) : Number(s) <= x
    BY <1>10
  <2> HIDE DEF Reached
  <2> QED BY <1>11, <2>1
<1> QED BY <1>1, <1>3, <1>12 DEF u

-----------------------------------------------------------------------------
(* Where the digits end: after the last character, or at the first one     *)
(* that is no digit.                                                       *)
Texts == Seq(STRING)

LEMMA DigitsEndIs ==
  ASSUME NEW f \in Texts, NEW pos \in 0 .. Len(f)
  PROVE  /\ DigitsEnd(f, pos) \in (pos + 1) .. (Len(f) + 1)
         /\ DigitsEnd(f, pos) = Len(f) + 1 \/ ~ IsDigit(f[DigitsEnd(f, pos)])
         /\ \A i \in (pos + 1) .. (DigitsEnd(f, pos) - 1) : IsDigit(f[i])
<1> DEFINE n == Len(f)
           Ends == {q \in (pos + 1) .. (n + 1) : q = n + 1 \/ ~ IsDigit(f[q])}
<1>1. n \in Nat /\ pos \in Nat /\ pos <= n
  BY DEF Texts
<1>2. Ends \in SUBSET Nat /\ n + 1 \in Ends
  <2> HIDE DEF n
  <2> QED BY <1>1
<1>3. PICK q \in Ends : \A p \in Ends : q <= p
  <2> HIDE DEF Ends
  <2> QED BY <1>2, LeastElement
<1>4. q \in (pos + 1) .. (n + 1) /\ (q = n + 1 \/ ~ IsDigit(f[q]))
  <2> HIDE DEF n
  <2> QED BY <1>3
<1>5. ASSUME NEW i \in (pos + 1) .. (q - 1)
      PROVE  IsDigit(f[i])
  <2> HIDE DEF n
  <2>1. i \in (pos + 1) .. (n + 1) /\ ~ (q <= i)
    BY <1>1, <1>4
  <2>2. i \notin Ends
    <3> HIDE DEF Ends
    <3> QED BY <1>3, <2>1
  <2> QED BY <2>1, <2>2
<1> DEFINE Good(p) == /\ p = n + 1 \/ ~ IsDigit(f[p])
                      /\ \A i \in (pos + 1) .. (p - 1) : IsDigit(f[i])
<1>6. \E p \in (pos + 1) .. (n + 1) : Good(p)
  BY <1>4, <1>5
<1>7. DigitsEnd(f, pos) = CHOOSE p \in (pos + 1) .. (n + 1) : Good(p)
  BY DEF DigitsEnd
<1>8. DigitsEnd(f, pos) \in (pos + 1) .. (n + 1) /\ Good(DigitsEnd(f, pos))
  <2> HIDE DEF Good, n
  <2> QED BY <1>6, <1>7
<1> QED BY <1>8

(* read_uint stays in the file, and reads a number.                        *)
LEMMA ReadsNumber ==
  ASSUME NEW f \in Texts, NEW pos \in 0 .. Len(f), NEW stale \in DigitRuns
  PROVE  /\ read_uint(f, pos, stale).at \in 0 .. Len(f)
         /\ read_uint(f, pos, stale).value \in Nat
         /\ read_uint(f, pos, stale).ok \in BOOLEAN
<1> DEFINE q == DigitsEnd(f, pos)
           digits == SubSeq(f, pos + 1, q - 1)
           atEnd == q = Len(f) + 1
           value == Number(IF atEnd THEN digits \o stale ELSE digits)
<1>1. Len(f) \in Nat /\ q \in (pos + 1) .. (Len(f) + 1)
  BY DigitsEndIs DEF Texts
<1>2. ASSUME NEW i \in (pos + 1) .. (q - 1)
      PROVE  f[i] \in DigitChars
  <2>1. i \in 1 .. Len(f)
    <3> HIDE DEF q
    <3> QED BY <1>1
  <2>2. f[i] \in STRING /\ IsDigit(f[i])
    BY <2>1, DigitsEndIs DEF Texts
  <2> QED BY <2>2 DEF DigitChars
<1>3. digits \in DigitRuns
  <2>1. pos + 1 \in Int /\ q - 1 \in Int
    <3> HIDE DEF q
    <3> QED BY <1>1
  <2> HIDE DEF q
  <2> QED BY <1>2, <2>1, SubSeqProperties DEF DigitRuns
<1>4. digits \o stale \in DigitRuns
  <2> HIDE DEF digits
  <2> QED BY <1>3, ConcatProperties DEF DigitRuns
<1>5. value \in Nat
  <2> HIDE DEF digits, atEnd
  <2> QED BY <1>3, <1>4, NumberIsNat
<1>6. read_uint(f, pos, stale) =
        [at |-> IF atEnd THEN Len(f) ELSE q, next |-> IF atEnd THEN Nul ELSE f[q],
         value |-> value, ok |-> value <= UINT_MAX]
  BY DEF read_uint
<1>7. (IF atEnd THEN Len(f) ELSE q) \in 0 .. Len(f)
  <2> HIDE DEF q
  <2> QED BY <1>1
<1>8. (value <= UINT_MAX) \in BOOLEAN
  OBVIOUS
<1> HIDE DEF q, value, atEnd
<1> QED BY <1>5, <1>6, <1>7, <1>8

(* cleanup stays in the file.                                              *)
LEMMA CleansUp ==
  ASSUME NEW f \in Texts, NEW pos \in 0 .. Len(f)
  PROVE  cleanup(f, pos) \in 0 .. Len(f)
<1> DEFINE n == Len(f)
           Newlines == {q \in (pos + 1) .. n : f[q] = Newline}
           First(q) == f[q] = Newline /\ \A i \in (pos + 1) .. (q - 1) : f[i] # Newline
<1>1. n \in Nat /\ pos \in Nat /\ pos <= n
  BY DEF Texts
<1>2. CASE Newlines # {}
  <2> HIDE DEF n
  <2>1. Newlines \in SUBSET Nat
    BY <1>1
  <2>2. PICK q \in Newlines : \A p \in Newlines : q <= p
    <3> HIDE DEF Newlines
    <3> QED BY <1>2, <2>1, LeastElement
  <2>3. q \in (pos + 1) .. n /\ f[q] = Newline
    OBVIOUS
  <2>4. ASSUME NEW i \in (pos + 1) .. (q - 1)
        PROVE  f[i] # Newline
    <3>1. i \in (pos + 1) .. n /\ ~ (q <= i)
      BY <1>1, <2>3
    <3>2. i \notin Newlines
      <4> HIDE DEF Newlines
      <4> QED BY <2>2, <3>1
    <3> QED BY <3>1, <3>2
  <2>5. First(q)
    BY <2>3, <2>4
  <2>6. cleanup(f, pos) = CHOOSE p \in (pos + 1) .. n : First(p)
    BY <2>3 DEF cleanup, n
  <2>7. cleanup(f, pos) \in (pos + 1) .. n
    <3> HIDE DEF First
    <3> QED BY <2>3, <2>5, <2>6
  <2> QED BY <1>1, <2>7 DEF n
<1>3. CASE Newlines = {}
  <2>1. cleanup(f, pos) = n
    BY <1>3 DEF cleanup
  <2> QED BY <1>1, <2>1
<1> QED BY <1>2, <1>3

LEMMA AfterInFile ==
  ASSUME NEW f \in Texts, NEW pos \in 0 .. Len(f), NEW k \in Nat
  PROVE  After(f, pos, k) \in 0 .. Len(f)
BY DEF After, Texts

-----------------------------------------------------------------------------
(* What the loop over numbers goes through: where it is, whether it goes   *)
(* on, and the numbers it has read, as many as turns while it goes on.     *)
NumberStates(f) == [at : 0 .. Len(f), ok : BOOLEAN, values : Seq(Nat)]

LEMMA NumberStep ==
  ASSUME NEW f \in Texts, NEW stale \in DigitRuns, NEW s \in NumberStates(f), NEW set
  PROVE  /\ WithNumber(s, read_uint(f, s.at, stale), set) \in NumberStates(f)
         /\ Len(WithNumber(s, read_uint(f, s.at, stale), set).values) = Len(s.values) + 1
<1> DEFINE r == read_uint(f, s.at, stale)
<1>1. s.at \in 0 .. Len(f) /\ s.values \in Seq(Nat)
  BY DEF NumberStates
<1>2. r.at \in 0 .. Len(f) /\ r.value \in Nat
  BY <1>1, ReadsNumber
<1>3. Append(s.values, r.value) \in Seq(Nat) /\ Len(Append(s.values, r.value)) = Len(s.values) + 1
  <2> HIDE DEF r
  <2> QED BY <1>1, <1>2
<1>4. (r.ok /\ r.next \in set) \in BOOLEAN
  OBVIOUS
<1> HIDE DEF r
<1> QED BY <1>2, <1>3, <1>4 DEF NumberStates, WithNumber, r

(* Numbers goes on number by number, and reads as many as it should or     *)
(* fails.                                                                  *)
NoNumbers(pos) == [at |-> pos, ok |-> TRUE, values |-> <<>>]
OneNumber(f, stale, s, set) ==
  IF s.ok THEN WithNumber(s, read_uint(f, s.at, stale), set) ELSE s

LEMMA NumbersRun ==
  ASSUME NEW f \in Texts, NEW pos \in 0 .. Len(f), NEW stale \in DigitRuns,
         NEW n \in Nat, NEW ends, DOMAIN ends = 1 .. n
  PROVE  \E run : /\ Numbers(f, pos, ends, stale) = run[1 .. n]
                 /\ run[{}] = NoNumbers(pos) /\ NoNumbers(pos) \in NumberStates(f)
                 /\ \A k \in 1 .. n :
                      run[1 .. k] = OneNumber(f, stale, run[1 .. (k - 1)], ends[k])
<1> DEFINE S == NumberStates(f)
           base == NoNumbers(pos)
           Turn(s, set) == OneNumber(f, stale, s, set)
           Chosen(it) == it = [t \in SUBSET (1 .. n) |->
                                IF t = {} THEN base ELSE Turn(it[t \ {Max(t)}], ends[Max(t)])]
           run == CHOOSE it : Chosen(it)
           step == [k \in 1 .. n |-> [s \in S |-> Turn(s, ends[k])]]
<1>1. Numbers(f, pos, ends, stale) = run[1 .. n]
  BY DEF Numbers, FoldLeft, MapThenFoldSet, NoNumbers, OneNumber
<1>2. base \in S /\ Len(base.values) = 0
  BY DEF NumberStates, NoNumbers
<1>3. ASSUME NEW s \in S, NEW k \in 1 .. n
      PROVE  /\ Turn(s, ends[k]) \in S
             /\ Turn(s, ends[k]).ok => Len(Turn(s, ends[k]).values) = Len(s.values) + 1 /\ s.ok
  BY NumberStep DEF OneNumber
<1> HIDE DEF Turn, base, S
<1>4. step \in [1 .. n -> [S -> S]]
  BY <1>3
<1>5. PICK it \in [SUBSET (1 .. n) -> S] : IsFold(it, n, base, step)
  <2> HIDE DEF step
  <2> QED BY <1>2, <1>4, FoldExists
<1>6. ASSUME NEW t \in SUBSET (1 .. n)
      PROVE  it[t] = IF t = {} THEN base ELSE Turn(it[t \ {Max(t)}], ends[Max(t)])
  <2>1. CASE t # {}
    <3>1. Max(t) \in 1 .. n /\ it[t \ {Max(t)}] \in S
      BY <2>1, MaxIsGreatest
    <3>2. step[Max(t)][it[t \ {Max(t)}]] = Turn(it[t \ {Max(t)}], ends[Max(t)])
      BY <3>1
    <3> HIDE DEF step
    <3> QED BY <1>5, <2>1, <3>2 DEF IsFold
  <2>2. CASE t = {}
    <3> HIDE DEF step
    <3> QED BY <1>5, <2>2 DEF IsFold
  <2> QED BY <2>1, <2>2
<1>7. Chosen(it)
  BY <1>5, <1>6
<1>8. Chosen(run)
  <2> HIDE DEF Chosen
  <2> QED BY <1>7
<1> HIDE DEF run
<1>9. \A t \in SUBSET (1 .. n) :
        run[t] = IF t = {} THEN base ELSE Turn(run[t \ {Max(t)}], ends[Max(t)])
  BY <1>8
<1>10. run[{}] = base
  BY <1>9
<1>11. ASSUME NEW k \in 1 .. n
       PROVE  run[1 .. k] = Turn(run[1 .. (k - 1)], ends[k])
  <2>1. /\ 1 .. k \in SUBSET (1 .. n) /\ 1 .. k # {}
        /\ Max(1 .. k) = k /\ (1 .. k) \ {k} = 1 .. (k - 1)
    BY PrefixesOfIndices
  <2> QED BY <1>9, <2>1
<1> QED BY <1>1, <1>2, <1>10, <1>11 DEF S, base, Turn

LEMMA NumbersRead ==
  ASSUME NEW f \in Texts, NEW pos \in 0 .. Len(f), NEW stale \in DigitRuns,
         NEW n \in Nat, NEW ends, DOMAIN ends = 1 .. n
  PROVE  /\ Numbers(f, pos, ends, stale) \in NumberStates(f)
         /\ Numbers(f, pos, ends, stale).ok => Len(Numbers(f, pos, ends, stale).values) = n
<1> DEFINE Reached(k) == {s \in NumberStates(f) : s.ok => Len(s.values) = k}
           T == [k \in 0 .. n |-> Reached(k)]
<1>1. PICK run : /\ Numbers(f, pos, ends, stale) = run[1 .. n]
                 /\ run[{}] = NoNumbers(pos) /\ NoNumbers(pos) \in NumberStates(f)
                 /\ \A k \in 1 .. n :
                      run[1 .. k] = OneNumber(f, stale, run[1 .. (k - 1)], ends[k])
  BY NumbersRun
<1>2. ASSUME NEW k \in 1 .. n, NEW s \in Reached(k - 1)
      PROVE  OneNumber(f, stale, s, ends[k]) \in Reached(k)
  <2>1. s \in NumberStates(f) /\ (s.ok => Len(s.values) = k - 1)
    OBVIOUS
  <2>2. CASE s.ok
    <3>1. OneNumber(f, stale, s, ends[k]) = WithNumber(s, read_uint(f, s.at, stale), ends[k])
      BY <2>2 DEF OneNumber
    <3> QED BY <2>1, <2>2, <3>1, NumberStep
  <2>3. CASE ~ s.ok
    BY <2>1, <2>3 DEF OneNumber
  <2> QED BY <2>2, <2>3
<1>3. NoNumbers(pos) \in Reached(0)
  <2>1. Len(NoNumbers(pos).values) = 0
    BY DEF NoNumbers
  <2> QED BY <1>1, <2>1
<1> HIDE DEF Reached
<1>4. \A k \in 0 .. n : T[k] = Reached(k)
  OBVIOUS
<1> HIDE DEF T
<1>5. run[{}] \in T[0]
  BY <1>1, <1>3, <1>4
<1>6. ASSUME NEW k \in 1 .. n, run[1 .. (k - 1)] \in T[k - 1]
      PROVE  run[1 .. k] \in T[k]
  <2>1. k - 1 \in 0 .. n /\ k \in 0 .. n
    OBVIOUS
  <2> QED BY <1>1, <1>2, <1>4, <1>6, <2>1
<1>7. run[1 .. n] \in T[n]
  BY <1>5, <1>6, FoldSteps
<1>8. run[1 .. n] \in Reached(n)
  BY <1>4, <1>7
<1> QED BY <1>1, <1>8 DEF Reached

-----------------------------------------------------------------------------
(* The loop over seats likewise: as long as it goes on each seat that was  *)
(* read has two numbers, and after a turn there is one.                    *)
SeatLists == Seq(Seq(Nat))
SeatStates(f) == [at : 0 .. Len(f), ok : BOOLEAN, closed : BOOLEAN, seats : SeatLists]
InPairs(seats) == \A i \in 1 .. Len(seats) : Len(seats[i]) = 2

LEMMA SeatStep ==
  ASSUME NEW f \in Texts, NEW stale \in DigitRuns, NEW s \in SeatStates(f)
  PROVE  /\ Seat(f, s, stale) \in SeatStates(f)
         /\ InPairs(s.seats) /\ Seat(f, s, stale).ok =>
              InPairs(Seat(f, s, stale).seats) /\ Len(Seat(f, s, stale).seats) >= 1
<1> DEFINE r == Seat(f, s, stale)
           n == Numbers(f, s.at + 1, <<{Comma}, {")"}>>, stale)
<1>1. /\ s.at \in 0 .. Len(f) /\ s.ok \in BOOLEAN /\ s.closed \in BOOLEAN
      /\ s.seats \in SeatLists /\ Len(f) \in Nat
  BY DEF SeatStates, Texts
<1>2. CASE ReadsOneOf(f, s.at, {"("})
  <2>1. s.at + 1 \in 0 .. Len(f)
    BY <1>1, <1>2 DEF ReadsOneOf
  <2>2. n \in NumberStates(f) /\ (n.ok => Len(n.values) = 2)
    <3> DEFINE ends == <<{Comma}, {")"}>>
    <3>1. DOMAIN ends = 1 .. 2 /\ 2 \in Nat
      OBVIOUS
    <3> HIDE DEF ends
    <3>2. /\ Numbers(f, s.at + 1, ends, stale) \in NumberStates(f)
          /\ Numbers(f, s.at + 1, ends, stale).ok =>
               Len(Numbers(f, s.at + 1, ends, stale).values) = 2
      BY <2>1, <3>1, NumbersRead
    <3> QED BY <3>2 DEF ends
  <2>3. n.at \in 0 .. Len(f) /\ n.ok \in BOOLEAN /\ n.values \in Seq(Nat)
    BY <2>2 DEF NumberStates
  <2>4. r = WithSeat(f, s, n)
    BY <1>2 DEF Seat
  <2> HIDE DEF r, n
  <2>5. /\ r.at = (IF n.ok THEN After(f, n.at, 1) ELSE n.at)
        /\ r.ok = (n.ok /\ ReadsOneOf(f, n.at, {Blank, "]"}))
        /\ r.closed = (n.ok /\ ReadsOneOf(f, n.at, {"]"}))
        /\ r.seats = Append(s.seats, n.values)
        /\ r = [at |-> r.at, ok |-> r.ok, closed |-> r.closed, seats |-> r.seats]
    BY <2>4 DEF WithSeat
  <2>6. r.at \in 0 .. Len(f)
    BY <2>3, <2>5, AfterInFile
  <2>7. r.ok \in BOOLEAN /\ r.closed \in BOOLEAN
    BY <2>3, <2>5 DEF ReadsOneOf
  <2>8. /\ r.seats \in SeatLists /\ Len(r.seats) = Len(s.seats) + 1 /\ Len(s.seats) \in Nat
        /\ \A i \in 1 .. Len(s.seats) : r.seats[i] = s.seats[i]
        /\ r.seats[Len(s.seats) + 1] = n.values
    <3> DEFINE V == Seq(Nat)
    <3>1. s.seats \in Seq(V) /\ n.values \in V
      BY <1>1, <2>3 DEF SeatLists
    <3> HIDE DEF V
    <3>2. /\ Append(s.seats, n.values) \in Seq(V)
          /\ Len(Append(s.seats, n.values)) = Len(s.seats) + 1
          /\ \A i \in 1 .. Len(s.seats) : Append(s.seats, n.values)[i] = s.seats[i]
          /\ Append(s.seats, n.values)[Len(s.seats) + 1] = n.values
          /\ Len(s.seats) \in Nat
      BY <3>1, AppendProperties, LenProperties
    <3> QED BY <2>5, <3>2 DEF V, SeatLists
  <2>9. r \in SeatStates(f)
    BY <2>5, <2>6, <2>7, <2>8 DEF SeatStates
  <2>10. ASSUME InPairs(s.seats), r.ok
         PROVE  InPairs(r.seats) /\ Len(r.seats) >= 1
    <3>1. Len(n.values) = 2
      BY <2>2, <2>3, <2>5, <2>10
    <3>2. ASSUME NEW i \in 1 .. Len(r.seats)
          PROVE  Len(r.seats[i]) = 2
      <4>1. i \in 1 .. Len(s.seats) \/ i = Len(s.seats) + 1
        BY <2>8
      <4> QED BY <2>8, <2>10, <3>1, <4>1 DEF InPairs
    <3> QED BY <2>8, <3>2 DEF InPairs
  <2> QED BY <2>9, <2>10 DEF r
<1>3. CASE ~ ReadsOneOf(f, s.at, {"("})
  <2>1. r = [s EXCEPT !.at = After(f, s.at, 1), !.ok = FALSE]
    BY <1>3 DEF Seat
  <2>2. After(f, s.at, 1) \in 0 .. Len(f)
    BY <1>1, AfterInFile
  <2> HIDE DEF r
  <2>3. r.ok = FALSE /\ r \in SeatStates(f)
    BY <2>1, <2>2 DEF SeatStates
  <2> QED BY <2>3 DEF r
<1> QED BY <1>2, <1>3

NoSeats(pos) == [at |-> pos, ok |-> TRUE, closed |-> FALSE, seats |-> <<>>]
OneSeat(f, stale, s) == IF s.ok /\ ~ s.closed THEN Seat(f, s, stale) ELSE s

LEMMA SeatsRun ==
  ASSUME NEW f \in Texts, NEW pos \in 0 .. Len(f), NEW stale \in DigitRuns
  PROVE  \E run : /\ Seats(f, pos, stale) = run[1 .. MAX_RESERVATION_SIZE]
                 /\ run[{}] = NoSeats(pos) /\ NoSeats(pos) \in SeatStates(f)
                 /\ \A k \in 1 .. MAX_RESERVATION_SIZE :
                      run[1 .. k] = OneSeat(f, stale, run[1 .. (k - 1)])
<1> DEFINE n == MAX_RESERVATION_SIZE
           S == SeatStates(f)
           base == NoSeats(pos)
           Turn(s) == OneSeat(f, stale, s)
           turns == [i \in 1 .. n |-> i]
           Chosen(it) == it = [t \in SUBSET DOMAIN turns |->
                                IF t = {} THEN base ELSE Turn(it[t \ {Max(t)}])]
           run == CHOOSE it : Chosen(it)
           step == [k \in 1 .. n |-> [s \in S |-> Turn(s)]]
<1>0. n \in Nat /\ DOMAIN turns = 1 .. n
  BY JobParserAssumption
<1>1. Seats(f, pos, stale) = run[1 .. n]
  BY DEF Seats, FoldLeft, MapThenFoldSet, NoSeats, OneSeat
<1>2. base \in S
  BY DEF SeatStates, SeatLists, NoSeats
<1>3. ASSUME NEW s \in S
      PROVE  Turn(s) \in S
  BY SeatStep DEF OneSeat
<1> HIDE DEF Turn, base, S, turns
<1>5. step \in [1 .. n -> [S -> S]]
  BY <1>3
<1>6. PICK it \in [SUBSET (1 .. n) -> S] : IsFold(it, n, base, step)
  <2> HIDE DEF step, n
  <2> QED BY <1>0, <1>2, <1>5, FoldExists
<1>7. ASSUME NEW t \in SUBSET (1 .. n)
      PROVE  it[t] = IF t = {} THEN base ELSE Turn(it[t \ {Max(t)}])
  <2>1. CASE t # {}
    <3>1. Max(t) \in 1 .. n /\ it[t \ {Max(t)}] \in S
      <4> HIDE DEF n
      <4> QED BY <1>0, <2>1, MaxIsGreatest
    <3>2. step[Max(t)][it[t \ {Max(t)}]] = Turn(it[t \ {Max(t)}])
      BY <3>1
    <3> HIDE DEF step
    <3> QED BY <1>6, <2>1, <3>2 DEF IsFold
  <2>2. CASE t = {}
    <3> HIDE DEF step
    <3> QED BY <1>6, <2>2 DEF IsFold
  <2> QED BY <2>1, <2>2
<1>8. Chosen(it)
  BY <1>0, <1>6, <1>7
<1>9. Chosen(run)
  <2> HIDE DEF Chosen
  <2> QED BY <1>8
<1> HIDE DEF run
<1>10. \A t \in SUBSET (1 .. n) : run[t] = IF t = {} THEN base ELSE Turn(run[t \ {Max(t)}])
  BY <1>0, <1>9
<1>11. run[{}] = base
  BY <1>10
<1>12. ASSUME NEW k \in 1 .. n
       PROVE  run[1 .. k] = Turn(run[1 .. (k - 1)])
  <2>1. /\ 1 .. k \in SUBSET (1 .. n) /\ 1 .. k # {}
        /\ Max(1 .. k) = k /\ (1 .. k) \ {k} = 1 .. (k - 1)
    BY <1>0, PrefixesOfIndices
  <2> QED BY <1>10, <2>1
<1> QED BY <1>1, <1>2, <1>11, <1>12 DEF S, base, Turn

LEMMA SeatsRead ==
  ASSUME NEW f \in Texts, NEW pos \in 0 .. Len(f), NEW stale \in DigitRuns
  PROVE  /\ Seats(f, pos, stale) \in SeatStates(f)
         /\ Seats(f, pos, stale).ok => InPairs(Seats(f, pos, stale).seats)
         /\ Seats(f, pos, stale).ok /\ MAX_RESERVATION_SIZE # 0 =>
              Len(Seats(f, pos, stale).seats) >= 1
<1> DEFINE n == MAX_RESERVATION_SIZE
           Good(s, k) == s.ok => InPairs(s.seats) /\ (k >= 1 \/ s.closed => Len(s.seats) >= 1)
           Reached(k) == {s \in SeatStates(f) : Good(s, k)}
           T == [k \in 0 .. n |-> Reached(k)]
<1>0. n \in Nat
  BY JobParserAssumption
<1>1. PICK run : /\ Seats(f, pos, stale) = run[1 .. n]
                 /\ run[{}] = NoSeats(pos) /\ NoSeats(pos) \in SeatStates(f)
                 /\ \A k \in 1 .. n : run[1 .. k] = OneSeat(f, stale, run[1 .. (k - 1)])
  BY SeatsRun
<1> HIDE DEF n
<1>2. ASSUME NEW k \in 1 .. n, NEW s \in Reached(k - 1)
      PROVE  OneSeat(f, stale, s) \in Reached(k)
  <2>1. s \in SeatStates(f) /\ Good(s, k - 1)
    OBVIOUS
  <2>2. CASE s.ok /\ ~ s.closed
    <3>1. OneSeat(f, stale, s) = Seat(f, s, stale)
      BY <2>2 DEF OneSeat
    <3> QED BY <2>1, <2>2, <3>1, SeatStep
  <2>3. CASE ~ (s.ok /\ ~ s.closed)
    BY <2>1, <2>3 DEF OneSeat
  <2> QED BY <2>2, <2>3
<1>3. NoSeats(pos) \in Reached(0)
  <2>1. Good(NoSeats(pos), 0)
    BY DEF NoSeats, InPairs
  <2> HIDE DEF Good
  <2> QED BY <1>1, <2>1
<1> HIDE DEF Reached
<1>4. \A k \in 0 .. n : T[k] = Reached(k)
  OBVIOUS
<1> HIDE DEF T
<1>5. run[{}] \in T[0]
  BY <1>0, <1>1, <1>3, <1>4
<1>6. ASSUME NEW k \in 1 .. n, run[1 .. (k - 1)] \in T[k - 1]
      PROVE  run[1 .. k] \in T[k]
  <2>1. k - 1 \in 0 .. n /\ k \in 0 .. n
    BY <1>0
  <2> QED BY <1>1, <1>2, <1>4, <1>6, <2>1
<1>7. run[1 .. n] \in T[n]
  BY <1>0, <1>5, <1>6, FoldSteps
<1>8. run[1 .. n] \in Reached(n)
  BY <1>0, <1>4, <1>7
<1> QED BY <1>0, <1>1, <1>8 DEF Reached, n

-----------------------------------------------------------------------------
(* What the parser returns: a place in the file, and arguments that are    *)
(* numbers; a reservation has seats, of two numbers each.                  *)
ArgumentsOK(cmd) ==
  /\ cmd.op = "create" => cmd.id \in Nat /\ cmd.dims \in Nat \X Nat
  /\ cmd.op = "reserve" =>
       cmd.seats \in SeatLists /\ InPairs(cmd.seats) /\ Len(cmd.seats) >= 1
ReadOK(r, f) == r.at \in 0 .. Len(f) /\ ArgumentsOK(r.cmd)

LEMMA InvalidOK ==
  ASSUME NEW f \in Texts, NEW pos \in 0 .. Len(f)
  PROVE  ReadOK(Invalid(f, pos), f)
BY CleansUp DEF ReadOK, ArgumentsOK, Invalid

LEMMA LengthOfWord ==
  ASSUME NEW c
  PROVE  Len(Chars(Word(c))) \in Nat
<1>1. Len(Word(c)) \in Nat
  <2>1. CASE c \in {"C", "R", "S", "W", "L", "H", "B"}
    <3>1. Len(Word(c)) \in 4 .. 8
      BY <2>1, WordsAssumption
    <3> QED BY <3>1
  <2>2. CASE c \notin {"C", "R", "S", "W", "L", "H", "B"}
    <3>1. Word(c) = Word(Newline)
      BY <2>2 DEF Word, Newline
    <3>2. Len(Word(Newline)) = 0
      BY WordsAssumption
    <3> QED BY <3>1, <3>2
  <2> QED BY <2>1, <2>2
<1> DEFINE n == Len(Word(c))
           e == [i \in 1 .. n |-> SubSeq(Word(c), i, i)]
           V == {SubSeq(Word(c), i, i) : i \in 1 .. n}
<1>2. e \in [1 .. n -> V]
  OBVIOUS
<1>3. Chars(Word(c)) = e
  BY DEF Chars
<1> HIDE DEF n, e, V
<1>4. e \in Seq(V) /\ DOMAIN e = 1 .. n
  BY <1>1, <1>2, SeqDef DEF n
<1>5. Len(e) \in Nat
  BY <1>4, LenProperties
<1> QED BY <1>3, <1>5

LEMMA GetNextOK ==
  ASSUME NEW f \in Texts, NEW pos \in 0 .. Len(f), pos # Len(f)
  PROVE  /\ get_next(f, pos).at \in 0 .. Len(f)
         /\ get_next(f, pos).cmd.op \notin {"create", "reserve"} =>
              ArgumentsOK(get_next(f, pos).cmd)
<1> DEFINE c == f[pos + 1]
           word == Chars(Word(c))
           end == After(f, pos, Len(word))
           r == get_next(f, pos)
<1>1. pos + 1 \in 0 .. Len(f) /\ Len(f) \in Nat
  BY DEF Texts
<1>2. end \in 0 .. Len(f) /\ cleanup(f, pos + 1) \in 0 .. Len(f) /\ After(f, end, 1) \in 0 .. Len(f)
  <2>1. end \in 0 .. Len(f)
    BY AfterInFile, LengthOfWord
  <2> HIDE DEF end
  <2> QED BY <1>1, <2>1, AfterInFile, CleansUp
<1>3. end < Len(f) => end + 1 \in 0 .. Len(f)
  <2> HIDE DEF end
  <2> QED BY <1>1, <1>2
<1>4. \/ r = Parsed(pos + 1, [op |-> "empty"])
      \/ r = Parsed(cleanup(f, pos + 1), [op |-> "empty"])
      \/ r = Invalid(f, pos + 1)
      \/ r = Invalid(f, end)
      \/ end < Len(f) /\ r = Invalid(f, end + 1)
      \/ r = Parsed(IF c \in Alone THEN After(f, end, 1) ELSE end, [op |-> Command(c)])
  BY DEF get_next
<1> HIDE DEF end, r, word
<1>5. CASE \/ r = Parsed(pos + 1, [op |-> "empty"])
           \/ r = Parsed(cleanup(f, pos + 1), [op |-> "empty"])
  BY <1>1, <1>2, <1>5 DEF Parsed, ArgumentsOK, r
<1>6. CASE \/ r = Invalid(f, pos + 1)
           \/ r = Invalid(f, end)
           \/ end < Len(f) /\ r = Invalid(f, end + 1)
  BY <1>1, <1>2, <1>3, <1>6, InvalidOK DEF ReadOK, r
<1>7. CASE r = Parsed(IF c \in Alone THEN After(f, end, 1) ELSE end, [op |-> Command(c)])
  <2>1. r.at \in 0 .. Len(f)
    BY <1>2, <1>7 DEF Parsed
  <2>2. r.cmd.op \notin {"create", "reserve"} => ArgumentsOK(r.cmd)
    BY DEF ArgumentsOK
  <2> QED BY <2>1, <2>2 DEF r
<1> QED BY <1>4, <1>5, <1>6, <1>7

LEMMA CreateOK ==
  ASSUME NEW f \in Texts, NEW pos \in 0 .. Len(f), NEW stale \in DigitRuns
  PROVE  ReadOK(parse_create(f, pos, stale), f)
<1> DEFINE ends == <<{Blank}, {Blank}, LineEnd>>
           s == Numbers(f, pos, ends, stale)
           v == s.values
           cmd == [op |-> "create", id |-> v[1], dims |-> <<v[2], v[3]>>]
<1>1. s \in NumberStates(f) /\ (s.ok => Len(v) = 3)
  <2>1. DOMAIN ends = 1 .. 3 /\ 3 \in Nat
    OBVIOUS
  <2> HIDE DEF ends
  <2> QED BY <2>1, NumbersRead
<1>2. s.at \in 0 .. Len(f) /\ v \in Seq(Nat)
  BY <1>1 DEF NumberStates
<1>3. parse_create(f, pos, stale) = IfNumbers(f, s, cmd)
  BY DEF parse_create
<1> HIDE DEF s
<1>4. CASE s.ok
  <2>1. v[1] \in Nat /\ v[2] \in Nat /\ v[3] \in Nat
    BY <1>1, <1>2, <1>4
  <2>2. ArgumentsOK(cmd)
    BY <2>1 DEF ArgumentsOK
  <2> HIDE DEF cmd
  <2> QED BY <1>2, <1>3, <1>4, <2>2 DEF IfNumbers, Parsed, ReadOK
<1>5. CASE ~ s.ok
  BY <1>2, <1>3, <1>5, InvalidOK DEF IfNumbers
<1> QED BY <1>4, <1>5

LEMMA ShowOK ==
  ASSUME NEW f \in Texts, NEW pos \in 0 .. Len(f), NEW stale \in DigitRuns
  PROVE  ReadOK(parse_show(f, pos, stale), f)
<1> DEFINE ends == <<LineEnd>>
           s == Numbers(f, pos, ends, stale)
           cmd == [op |-> "show", id |-> s.values[1]]
<1>1. s \in NumberStates(f)
  <2>1. DOMAIN ends = 1 .. 1 /\ 1 \in Nat
    OBVIOUS
  <2> HIDE DEF ends
  <2> QED BY <2>1, NumbersRead
<1>2. s.at \in 0 .. Len(f)
  BY <1>1 DEF NumberStates
<1>3. parse_show(f, pos, stale) = IfNumbers(f, s, cmd)
  BY DEF parse_show
<1>4. ArgumentsOK(cmd)
  BY DEF ArgumentsOK
<1> HIDE DEF s, cmd
<1> QED BY <1>2, <1>3, <1>4, InvalidOK DEF IfNumbers, Parsed, ReadOK

LEMMA WaitOK ==
  ASSUME NEW f \in Texts, NEW pos \in 0 .. Len(f), NEW stale \in DigitRuns
  PROVE  ReadOK(parse_wait(f, pos, stale), f)
<1> DEFINE n == read_uint(f, pos, stale)
           r == parse_wait(f, pos, stale)
           cmd == [op |-> "wait"]
<1>1. n.at \in 0 .. Len(f) /\ cleanup(f, n.at) \in 0 .. Len(f)
  BY ReadsNumber, CleansUp
<1>2. \/ r = Invalid(f, n.at)
      \/ r = Parsed(n.at, cmd)
      \/ r = Parsed(cleanup(f, n.at), cmd)
  BY DEF parse_wait
<1>3. ArgumentsOK(cmd)
  BY DEF ArgumentsOK
<1> HIDE DEF n, r, cmd
<1>4. ReadOK(r, f)
  BY <1>1, <1>2, <1>3, InvalidOK DEF Parsed, ReadOK
<1> QED BY <1>4 DEF r

LEMMA ReserveOK ==
  ASSUME NEW f \in Texts, NEW pos \in 0 .. Len(f), NEW stale \in DigitRuns
  PROVE  ReadOK(parse_reserve(f, pos, stale), f)
<1> DEFINE ends == <<{Blank}>>
           n == Numbers(f, pos, ends, stale)
           s == Seats(f, n.at + 1, stale)
           r == parse_reserve(f, pos, stale)
<1>1. n \in NumberStates(f)
  <2>1. DOMAIN ends = 1 .. 1 /\ 1 \in Nat
    OBVIOUS
  <2> HIDE DEF ends
  <2> QED BY <2>1, NumbersRead
<1>2. n.at \in 0 .. Len(f)
  BY <1>1 DEF NumberStates
<1>3. CASE ~ n.ok
  <2>1. r = Invalid(f, n.at)
    BY <1>3 DEF parse_reserve
  <2> HIDE DEF n, r
  <2>2. ReadOK(r, f)
    BY <1>2, <2>1, InvalidOK
  <2> QED BY <2>2 DEF r
<1>4. CASE n.ok /\ ~ ReadsOneOf(f, n.at, {"["})
  <2>1. r = Invalid(f, After(f, n.at, 1))
    BY <1>4 DEF parse_reserve
  <2> HIDE DEF n, r
  <2>2. ReadOK(r, f)
    BY <1>2, <2>1, AfterInFile, InvalidOK
  <2> QED BY <2>2 DEF r
<1>5. CASE n.ok /\ ReadsOneOf(f, n.at, {"["})
  <2>1. r = IfSeats(f, n.values[1], s)
    BY <1>5 DEF parse_reserve
  <2>2. n.at + 1 \in 0 .. Len(f)
    <3> HIDE DEF n
    <3> QED BY <1>2, <1>5 DEF ReadsOneOf, Texts
  <2>3. /\ s \in SeatStates(f) /\ (s.ok => InPairs(s.seats))
        /\ s.ok /\ MAX_RESERVATION_SIZE # 0 => Len(s.seats) >= 1
    <3> HIDE DEF n
    <3> QED BY <2>2, SeatsRead
  <2> DEFINE cmd == [op |-> "reserve", id |-> n.values[1], seats |-> s.seats]
  <2> HIDE DEF n, s, r
  <2>4. s.at \in 0 .. Len(f) /\ s.seats \in SeatLists /\ Len(s.seats) \in Nat
    BY <2>3 DEF SeatStates, SeatLists
  <2>5. CASE ~ s.ok \/ Len(s.seats) = MAX_RESERVATION_SIZE
    <3>1. r = Invalid(f, s.at)
      BY <2>1, <2>5 DEF IfSeats
    <3> QED BY <2>4, <3>1, InvalidOK DEF r
  <2>6. CASE s.ok /\ Len(s.seats) # MAX_RESERVATION_SIZE /\ ~ ReadsOneOf(f, s.at, LineEnd)
    <3>1. r = Invalid(f, After(f, s.at, 1))
      BY <2>1, <2>6 DEF IfSeats
    <3> QED BY <2>4, <3>1, AfterInFile, InvalidOK DEF r
  <2>7. CASE s.ok /\ Len(s.seats) # MAX_RESERVATION_SIZE /\ ReadsOneOf(f, s.at, LineEnd)
    <3>1. r = Parsed(s.at + 1, cmd)
      BY <2>1, <2>7 DEF IfSeats
    <3>2. s.at + 1 \in 0 .. Len(f)
      BY <2>4, <2>7 DEF ReadsOneOf, Texts
    <3>3. Len(s.seats) >= 1
      BY <2>3, <2>4, <2>7
    <3>4. ArgumentsOK(cmd)
      BY <2>3, <2>4, <2>7, <3>3 DEF ArgumentsOK
    <3> HIDE DEF cmd
    <3> QED BY <3>1, <3>2, <3>4 DEF Parsed, ReadOK, r
  <2> QED BY <2>5, <2>6, <2>7
<1> QED BY <1>3, <1>4, <1>5

(* The next command of a file that is not read to its end.                 *)
THEOREM CommandsTyped ==
  ASSUME NEW f \in Texts, NEW pos \in 0 .. Len(f), pos # Len(f), NEW stale \in DigitRuns
  PROVE  ReadOK(ReadCommand(f, pos, stale), f)
<1> DEFINE r == get_next(f, pos)
<1>1. r.at \in 0 .. Len(f) /\ (r.cmd.op \notin {"create", "reserve"} => ArgumentsOK(r.cmd))
  BY GetNextOK
<1>2. ReadCommand(f, pos, stale) =
        CASE r.cmd.op = "create"  -> parse_create(f, r.at, stale)
          [] r.cmd.op = "reserve" -> parse_reserve(f, r.at, stale)
          [] r.cmd.op = "show"    -> parse_show(f, r.at, stale)
          [] r.cmd.op = "wait"    -> parse_wait(f, r.at, stale)
          [] OTHER -> r
  BY DEF ReadCommand
<1> HIDE DEF r
<1>3. CASE r.cmd.op = "create"
  BY <1>1, <1>2, <1>3, CreateOK
<1>4. CASE r.cmd.op = "reserve"
  BY <1>1, <1>2, <1>4, ReserveOK
<1>5. CASE r.cmd.op = "show"
  BY <1>1, <1>2, <1>5, ShowOK
<1>6. CASE r.cmd.op = "wait"
  BY <1>1, <1>2, <1>6, WaitOK
<1>7. CASE r.cmd.op \notin {"create", "reserve", "show", "wait"}
  BY <1>1, <1>2, <1>7 DEF ReadOK
<1> QED BY <1>3, <1>4, <1>5, <1>6, <1>7

(* The k-th of the elements of a finite set of numbers, counted from the   *)
(* least.                                                                  *)
UpTo(M, i) == {j \in M : j <= i}
Nth(M, k) == IF k = 0 THEN 0 ELSE CHOOSE i \in M : Cardinality(UpTo(M, i)) = k

LEMMA UpToIsFinite ==
  ASSUME NEW n \in Nat, NEW M \in SUBSET (1 .. n)
  PROVE  /\ IsFiniteSet(M) /\ Cardinality(M) \in Nat
         /\ \A i : IsFiniteSet(UpTo(M, i)) /\ Cardinality(UpTo(M, i)) \in Nat
<1>1. IsFiniteSet(1 .. n)
  BY FS_Interval
<1>2. \A S \in SUBSET (1 .. n) : IsFiniteSet(S) /\ Cardinality(S) \in Nat
  BY <1>1, FS_Subset, FS_CardinalityType
<1>3. \A i : UpTo(M, i) \in SUBSET (1 .. n)
  BY DEF UpTo
<1> QED BY <1>2, <1>3

(* A greater element has more elements up to it.                           *)
LEMMA MoreUpTo ==
  ASSUME NEW n \in Nat, NEW M \in SUBSET (1 .. n), NEW i \in M, NEW j \in M, i < j
  PROVE  Cardinality(UpTo(M, i)) < Cardinality(UpTo(M, j))
<1>1. i \in Nat /\ j \in Nat
  OBVIOUS
<1>2. UpTo(M, i) \in SUBSET (UpTo(M, j) \ {j})
  <2>1. \A x \in M : x \in Nat
    OBVIOUS
  <2>2. \A x \in M : x <= i => x <= j /\ x # j
    BY <1>1, <2>1
  <2> QED BY <2>2 DEF UpTo
<1>3. j \in UpTo(M, j)
  BY <1>1 DEF UpTo
<1>4. /\ IsFiniteSet(UpTo(M, j)) /\ Cardinality(UpTo(M, j)) \in Nat
      /\ Cardinality(UpTo(M, i)) \in Nat
  BY UpToIsFinite
<1>5. /\ IsFiniteSet(UpTo(M, j) \ {j})
      /\ Cardinality(UpTo(M, j) \ {j}) = Cardinality(UpTo(M, j)) - 1
  BY <1>3, <1>4, FS_RemoveElement
<1>6. Cardinality(UpTo(M, i)) <= Cardinality(UpTo(M, j) \ {j})
  BY <1>2, <1>5, FS_Subset
<1> QED BY <1>4, <1>5, <1>6

LEMMA NthIs ==
  ASSUME NEW n \in Nat, NEW M \in SUBSET (1 .. n), NEW i \in M
  PROVE  Cardinality(UpTo(M, i)) # 0 /\ i = Nth(M, Cardinality(UpTo(M, i)))
<1> DEFINE k == Cardinality(UpTo(M, i))
<1>1. ASSUME NEW j \in M, Cardinality(UpTo(M, j)) = k
      PROVE  j = i
  <2>1. i \in Nat /\ j \in Nat
    OBVIOUS
  <2>4. k \in Nat
    BY UpToIsFinite
  <2>2. i < j => k < Cardinality(UpTo(M, j))
    BY MoreUpTo
  <2>3. j < i => Cardinality(UpTo(M, j)) < k
    BY MoreUpTo
  <2> HIDE DEF k
  <2> QED BY <1>1, <2>1, <2>2, <2>3, <2>4
<1>2. k # 0
  <2>1. i \in UpTo(M, i)
    BY DEF UpTo
  <2>2. IsFiniteSet(UpTo(M, i))
    BY UpToIsFinite
  <2> QED BY <2>1, <2>2, FS_EmptySet
<1>3. Nth(M, k) = CHOOSE j \in M : Cardinality(UpTo(M, j)) = k
  <2> HIDE DEF k
  <2> QED BY <1>2 DEF Nth
<1>4. Cardinality(UpTo(M, i)) = k
  OBVIOUS
<1> HIDE DEF k
<1>5. Nth(M, k) = i
  BY <1>1, <1>3, <1>4
<1> QED BY <1>2, <1>4, <1>5

(* The elements follow each other in the order of their numbers.           *)
LEMMA NextElement ==
  ASSUME NEW n \in Nat, NEW M \in SUBSET (1 .. n), NEW i \in M \cup {0},
         Cardinality(UpTo(M, i)) < Cardinality(M)
  PROVE  \E j \in M : /\ i < j /\ \A x \in M : x <= i \/ j <= x
                      /\ Cardinality(UpTo(M, j)) = Cardinality(UpTo(M, i)) + 1
<1> DEFINE R == {x \in M : i < x}
<1>1. i \in Nat /\ M \subseteq Nat
  OBVIOUS
<1>2. R # {}
  <2> SUFFICES ASSUME R = {} PROVE FALSE
    OBVIOUS
  <2>1. \A x \in M : x <= i
    BY <1>1
  <2>2. UpTo(M, i) = M
    BY <2>1 DEF UpTo
  <2>3. Cardinality(M) \in Nat
    BY UpToIsFinite
  <2> QED BY <2>2, <2>3
<1>3. R \in SUBSET Nat
  BY <1>1
<1>4. PICK j \in R : \A x \in R : j <= x
  <2> HIDE DEF R
  <2> QED BY <1>2, <1>3, LeastElement
<1>5. j \in M /\ i < j /\ j \in Nat
  BY <1>1
<1>6. ASSUME NEW x \in M
      PROVE  x <= i \/ j <= x
  <2>1. x \in Nat
    BY <1>1
  <2>2. CASE i < x
    BY <1>4, <2>2
  <2> QED BY <1>1, <2>1, <2>2
<1>7. UpTo(M, j) = UpTo(M, i) \cup {j}
  <2>1. ASSUME NEW x \in M
        PROVE  x <= j <=> x <= i \/ x = j
    <3>1. x \in Nat
      BY <1>1
    <3> QED BY <1>1, <1>5, <1>6, <3>1
  <2> HIDE DEF R
  <2> QED BY <1>5, <2>1 DEF UpTo
<1>8. j \notin UpTo(M, i) /\ IsFiniteSet(UpTo(M, i))
  BY <1>1, <1>5, UpToIsFinite DEF UpTo
<1>9. Cardinality(UpTo(M, j)) = Cardinality(UpTo(M, i)) + 1
  BY <1>7, <1>8, FS_AddElement
<1> QED BY <1>5, <1>6, <1>9

LEMMA NthFollows ==
  ASSUME NEW n \in Nat, NEW M \in SUBSET (1 .. n), n \in M, NEW k \in 1 .. Cardinality(M)
  PROVE  /\ Nth(M, k - 1) \in 0 .. n /\ Nth(M, k) \in M /\ Nth(M, k - 1) < Nth(M, k)
         /\ \A x \in M : x <= Nth(M, k - 1) \/ Nth(M, k) <= x
         /\ Nth(M, k) = n <=> k = Cardinality(M)
<1> DEFINE card == Cardinality(M)
           Reached(m) == /\ Nth(M, m) \in M \cup {0}
                         /\ Cardinality(UpTo(M, Nth(M, m))) = m
           N == {m \in Nat : m <= card => Reached(m)}
<1>0. card \in Nat
  BY UpToIsFinite
<1>1. card \in Nat /\ \A x \in M : x \in Nat /\ x <= n /\ x # 0
  <2> HIDE DEF card
  <2> QED BY <1>0
<1>2. Reached(0)
  <2>1. Nth(M, 0) = 0
    BY DEF Nth
  <2>2. UpTo(M, 0) = {}
    <3>1. \A x \in M : ~ (x <= 0)
      BY <1>1
    <3> QED BY <3>1 DEF UpTo
  <2> QED BY <2>1, <2>2, FS_EmptySet
<1>3. ASSUME NEW m \in Nat, m < card, Reached(m)
      PROVE  /\ Reached(m + 1) /\ Nth(M, m + 1) \in M /\ Nth(M, m) < Nth(M, m + 1)
             /\ \A x \in M : x <= Nth(M, m) \/ Nth(M, m + 1) <= x
  <2> DEFINE i == Nth(M, m)
  <2>1. i \in M \cup {0} /\ Cardinality(UpTo(M, i)) = m
    BY <1>3
  <2> HIDE DEF i
  <2>2. PICK j \in M : /\ i < j /\ \A x \in M : x <= i \/ j <= x
                       /\ Cardinality(UpTo(M, j)) = m + 1
    <3>1. Cardinality(UpTo(M, i)) < Cardinality(M)
      BY <1>3, <2>1
    <3> QED BY <2>1, <3>1, NextElement
  <2>3. j = Nth(M, m + 1)
    BY <2>2, NthIs
  <2> QED BY <2>2, <2>3 DEF i
<1>4. N = Nat
  <2>1. N \in SUBSET Nat
    OBVIOUS
  <2>2. 0 \in N
    BY <1>2
  <2>3. ASSUME NEW m \in N
        PROVE  m + 1 \in N
    <3>1. m \in Nat /\ (m <= card => Reached(m))
      OBVIOUS
    <3> HIDE DEF Reached, card
    <3>2. m + 1 <= card => m < card
      BY <1>1, <3>1
    <3>3. m < card => Reached(m + 1)
      BY <1>1, <1>3, <3>1
    <3> QED BY <3>1, <3>2, <3>3
  <2> HIDE DEF N
  <2> QED BY <2>1, <2>2, <2>3, SetInduction
<1>5. k - 1 \in Nat /\ k - 1 < card /\ (k - 1) + 1 = k /\ k \in Nat /\ k <= card
  BY <1>1
<1>6. Reached(k - 1) /\ Reached(k)
  <2>1. k - 1 \in N /\ k \in N
    BY <1>4, <1>5
  <2> HIDE DEF Reached, card
  <2> QED BY <1>1, <1>5, <2>1
<1>7. /\ Nth(M, k) \in M /\ Nth(M, k - 1) < Nth(M, k)
      /\ \A x \in M : x <= Nth(M, k - 1) \/ Nth(M, k) <= x
  <2> HIDE DEF Reached, card
  <2>1. /\ Nth(M, (k - 1) + 1) \in M /\ Nth(M, k - 1) < Nth(M, (k - 1) + 1)
        /\ \A x \in M : x <= Nth(M, k - 1) \/ Nth(M, (k - 1) + 1) <= x
    BY <1>3, <1>5, <1>6
  <2> QED BY <1>5, <2>1
<1>8. UpTo(M, n) = M
  BY <1>1 DEF UpTo
<1>9. Nth(M, k) = n => k = card
  BY <1>6, <1>8
<1>10. k = card => Nth(M, k) = n
  <2>1. n = Nth(M, card)
    BY <1>8, NthIs
  <2> QED BY <2>1
<1>11. Nth(M, k - 1) \in 0 .. n
  <2>1. \A x \in M \cup {0} : x \in 0 .. n
    OBVIOUS
  <2>2. Nth(M, k - 1) \in M \cup {0}
    BY <1>6
  <2> QED BY <2>1, <2>2
<1> QED BY <1>7, <1>9, <1>10, <1>11

-----------------------------------------------------------------------------
(* The marks in the arguments of a command follow each other likewise, with *)
(* nothing but digits between them.                                        *)
LEMMA MarksAre ==
  ASSUME NEW a \in Texts
  PROVE  /\ Len(a) \in Nat /\ MarksOf(a) \in SUBSET (1 .. (Len(a) + 1))
         /\ Len(a) + 1 \in MarksOf(a) /\ Fields(a) \in Nat /\ Fields(a) >= 1
         /\ \A k : Mark(a, k) = Nth(MarksOf(a), k)
<1>1. Len(a) \in Nat
  BY DEF Texts
<1>2. Len(a) + 1 \in 1 .. (Len(a) + 1) /\ Len(a) + 1 \in Nat
  BY <1>1
<1>3. MarksOf(a) \in SUBSET (1 .. (Len(a) + 1)) /\ Len(a) + 1 \in MarksOf(a)
  BY <1>2 DEF MarksOf
<1>4. IsFiniteSet(MarksOf(a)) /\ Cardinality(MarksOf(a)) \in Nat
  BY <1>2, <1>3, UpToIsFinite
<1>5. Cardinality(MarksOf(a)) # 0
  BY <1>3, <1>4, FS_EmptySet
<1>6. \A k : Mark(a, k) = Nth(MarksOf(a), k)
  BY DEF Mark, Nth, UpTo
<1> QED BY <1>1, <1>3, <1>4, <1>5, <1>6 DEF Fields

LEMMA FieldBetween ==
  ASSUME NEW a \in Texts, NEW k \in 1 .. Fields(a)
  PROVE  /\ Mark(a, k - 1) \in 0 .. Len(a)
         /\ Mark(a, k) \in (Mark(a, k - 1) + 1) .. (Len(a) + 1)
         /\ \A i \in (Mark(a, k - 1) + 1) .. (Mark(a, k) - 1) : IsDigit(a[i])
         /\ Mark(a, k) = Len(a) + 1 <=> k = Fields(a)
         /\ k # Fields(a) => Mark(a, k) \in 1 .. Len(a) /\ ~ IsDigit(a[Mark(a, k)])
<1> DEFINE n == Len(a) + 1
           M == MarksOf(a)
           p == Mark(a, k - 1)
           q == Mark(a, k)
<1>1. /\ n \in Nat /\ M \in SUBSET (1 .. n) /\ n \in M
      /\ Fields(a) = Cardinality(M) /\ Fields(a) \in Nat
      /\ p = Nth(M, k - 1) /\ q = Nth(M, k) /\ Len(a) = n - 1
  BY MarksAre DEF Fields
<1>2. /\ \A i \in 1 .. n : i \in M <=> i = n \/ ~ IsDigit(a[i])
  BY DEF MarksOf
<1> HIDE DEF n, M, p, q
<1>3. /\ p \in 0 .. n /\ q \in M /\ p < q
      /\ \A x \in M : x <= p \/ q <= x
      /\ q = n <=> k = Fields(a)
  <2>1. k \in 1 .. Cardinality(M)
    BY <1>1
  <2>2. /\ Nth(M, k - 1) \in 0 .. n /\ Nth(M, k) \in M /\ Nth(M, k - 1) < Nth(M, k)
        /\ \A x \in M : x <= Nth(M, k - 1) \/ Nth(M, k) <= x
        /\ Nth(M, k) = n <=> k = Cardinality(M)
    BY <1>1, <2>1, NthFollows
  <2> QED BY <1>1, <2>2
<1>4. q \in 1 .. n /\ p \in Nat
  BY <1>1, <1>3
<1>5. p \in 0 .. (n - 1) /\ q \in (p + 1) .. n
  BY <1>1, <1>3, <1>4
<1>6. ASSUME NEW i \in (p + 1) .. (q - 1)
      PROVE  IsDigit(a[i])
  <2>1. i \in 1 .. n /\ i # n /\ ~ (i <= p) /\ ~ (q <= i)
    BY <1>1, <1>4, <1>5
  <2> QED BY <1>2, <1>3, <2>1
<1>7. ASSUME k # Fields(a)
      PROVE  q \in 1 .. (n - 1) /\ ~ IsDigit(a[q])
  <2>1. q # n
    BY <1>3, <1>7
  <2> QED BY <1>1, <1>2, <1>3, <1>4, <2>1
<1> QED BY <1>1, <1>3, <1>5, <1>6, <1>7 DEF n, p, q

(* There is one place where the digits end.                                *)
LEMMA DigitsEndAt ==
  ASSUME NEW f \in Texts, NEW pos \in 0 .. Len(f), NEW q \in (pos + 1) .. (Len(f) + 1),
         q = Len(f) + 1 \/ ~ IsDigit(f[q]),
         \A i \in (pos + 1) .. (q - 1) : IsDigit(f[i])
  PROVE  DigitsEnd(f, pos) = q
<1> DEFINE d == DigitsEnd(f, pos)
           n == Len(f)
<1>1. n \in Nat /\ d \in (pos + 1) .. (n + 1) /\ \A i \in (pos + 1) .. (d - 1) : IsDigit(f[i])
  BY DigitsEndIs DEF Texts
<1>2. d = n + 1 \/ ~ IsDigit(f[d])
  BY DigitsEndIs
<1> HIDE DEF d
<1>3. n \in Nat /\ pos \in Nat /\ d \in Nat /\ q \in Nat /\ q <= n + 1 /\ q >= pos + 1
  <2>1. pos \in 0 .. n /\ q \in (pos + 1) .. (n + 1)
    OBVIOUS
  <2> HIDE DEF n
  <2> QED BY <1>1, <2>1
<1> HIDE DEF n
<1>4. q < d => q \in (pos + 1) .. (d - 1) /\ q # n + 1
  BY <1>1, <1>3
<1>5. d < q => d \in (pos + 1) .. (q - 1) /\ d # n + 1
  BY <1>1, <1>3
<1>6. ~ (q < d)
  BY <1>1, <1>4 DEF n
<1>7. ~ (d < q)
  BY <1>2, <1>5
<1> QED BY <1>3, <1>6, <1>7 DEF d

(* The arguments of a command: a is what stands in f from p to e, where the *)
(* line ends, with its newline or the file.                                *)
IsArguments(f, p, e, to, a) ==
  /\ p \in 0 .. e /\ e \in 0 .. Len(f) /\ a = SubSeq(f, p + 1, e)
  /\ \/ e = Len(f) /\ to = e
     \/ e < Len(f) /\ to = e + 1 /\ f[to] = Newline
  /\ \A i \in (p + 1) .. e : f[i] \notin LineEnd

LEMMA ArgumentsAre ==
  ASSUME NEW f \in Texts, NEW p, NEW e, NEW to, NEW a, IsArguments(f, p, e, to, a)
  PROVE  /\ p \in Nat /\ e \in Nat /\ p <= e /\ e <= Len(f) /\ Len(f) \in Nat
         /\ a \in Texts /\ Len(a) = e - p /\ \A i \in 1 .. (e - p) : a[i] = f[p + i]
         /\ to \in e .. Len(f) /\ ~ IsDigit(Newline)
<1>1. Len(f) \in Nat /\ p \in 0 .. e /\ e \in 0 .. Len(f) /\ a = SubSeq(f, p + 1, e)
  BY DEF IsArguments, Texts
<1>2. p \in Nat /\ e \in Nat /\ p <= e /\ e <= Len(f) /\ p + 1 \in Int /\ e \in Int
  BY <1>1
<1>3. ASSUME NEW i \in (p + 1) .. e
      PROVE  f[i] \in STRING
  <2>1. i \in 1 .. Len(f)
    BY <1>1, <1>2
  <2> QED BY <2>1 DEF Texts
<1>4. /\ SubSeq(f, p + 1, e) \in Texts
      /\ Len(SubSeq(f, p + 1, e)) = IF p + 1 <= e THEN e - (p + 1) + 1 ELSE 0
      /\ \A i \in 1 .. (e - (p + 1) + 1) : SubSeq(f, p + 1, e)[i] = f[p + 1 + i - 1]
  BY <1>2, <1>3, SubSeqProperties DEF Texts
<1>5. \A i \in 1 .. (e - p) : i \in 1 .. (e - (p + 1) + 1) /\ p + 1 + i - 1 = p + i
  BY <1>2
<1>6. (IF p + 1 <= e THEN e - (p + 1) + 1 ELSE 0) = e - p
  BY <1>2
<1>7. to \in e .. Len(f)
  BY <1>1, <1>2 DEF IsArguments
<1>8. ~ IsDigit(Newline)
  BY WordsAssumption
<1> QED BY <1>1, <1>2, <1>4, <1>5, <1>6, <1>7, <1>8

(* read_uint reads the arguments field by field, each up to its mark; the  *)
(* last ends with the line, and what is stale there makes it only greater. *)
LEMMA ReadsField ==
  ASSUME NEW f \in Texts, NEW p, NEW e, NEW to, NEW a, IsArguments(f, p, e, to, a),
         NEW k \in 1 .. Fields(a), NEW stale \in DigitRuns,
         NEW r, r = read_uint(f, p + Mark(a, k - 1), stale)
  PROVE  /\ r.ok \in BOOLEAN /\ r.value \in Nat /\ Value(a, k) \in Nat
         /\ r.ok => Fits(a, k)
         /\ k # Fields(a) =>
              /\ r.at = p + Mark(a, k) /\ r.at <= e /\ r.next = a[Mark(a, k)]
              /\ r.next \notin LineEnd
         /\ k = Fields(a) => r.at = to /\ r.next \in LineEnd
         /\ k # Fields(a) \/ e < Len(f) => r.value = Value(a, k) /\ r.ok = Fits(a, k)
<1> DEFINE m == Mark(a, k - 1)
           n == Mark(a, k)
           len == Len(f)
           digits == Field(a, k)
           N == Fields(a)
<1>1. /\ p \in Nat /\ e \in Nat /\ p <= e /\ e <= len /\ len \in Nat
      /\ a \in Texts /\ Len(a) = e - p /\ \A i \in 1 .. (e - p) : a[i] = f[p + i]
      /\ to \in e .. len /\ ~ IsDigit(Newline)
  BY ArgumentsAre
<1>2. /\ m \in 0 .. (e - p) /\ n \in (m + 1) .. (e - p + 1)
      /\ \A i \in (m + 1) .. (n - 1) : IsDigit(a[i])
      /\ n = e - p + 1 <=> k = N
      /\ k # N => n \in 1 .. (e - p) /\ ~ IsDigit(a[n])
  BY <1>1, FieldBetween
<1> HIDE DEF m, n, N
<1>3. /\ m \in Nat /\ n \in Nat /\ m < n /\ p + m <= e /\ p + n <= e + 1
      /\ p + m \in 0 .. len /\ p + n \in (p + m + 1) .. (len + 1)
  <2> HIDE DEF len
  <2> QED BY <1>1, <1>2
<1>4. ASSUME NEW i \in (p + m + 1) .. ((p + n) - 1)
      PROVE  /\ i - p \in (m + 1) .. (n - 1) /\ i \in 1 .. len
             /\ IsDigit(f[i]) /\ f[i] = a[i - p]
  <2>1. i - p \in (m + 1) .. (n - 1) /\ i - p \in 1 .. (e - p) /\ p + (i - p) = i
        /\ i \in 1 .. len
    <3> HIDE DEF len
    <3> QED BY <1>1, <1>3
  <2> QED BY <1>1, <1>2, <2>1
<1>5. p + n = len + 1 \/ ~ IsDigit(f[p + n])
  <2>1. CASE k = N
    <3>1. p + n = e + 1
      BY <1>1, <1>2, <1>3, <2>1
    <3>2. e = len \/ f[e + 1] = Newline
      BY DEF IsArguments
    <3> QED BY <1>1, <3>1, <3>2
  <2>2. CASE k # N
    <3>1. a[n] = f[p + n] /\ ~ IsDigit(a[n])
      BY <1>1, <1>2, <2>2
    <3> QED BY <3>1
  <2> QED BY <2>1, <2>2
<1>6. DigitsEnd(f, p + m) = p + n
  <2>1. \A i \in (p + m + 1) .. ((p + n) - 1) : IsDigit(f[i])
    BY <1>4
  <2> DEFINE pos == p + m
             q == p + n
  <2>2. /\ pos \in 0 .. Len(f) /\ q \in (pos + 1) .. (Len(f) + 1)
        /\ q = Len(f) + 1 \/ ~ IsDigit(f[q])
        /\ \A i \in (pos + 1) .. (q - 1) : IsDigit(f[i])
    <3>1. pos \in 0 .. Len(f) /\ q \in (pos + 1) .. (Len(f) + 1)
      BY <1>3
    <3>2. q = Len(f) + 1 \/ ~ IsDigit(f[q])
      BY <1>5
    <3>3. \A i \in (pos + 1) .. (q - 1) : IsDigit(f[i])
      BY <2>1
    <3> QED BY <3>1, <3>2, <3>3
  <2> HIDE DEF len, pos, q
  <2>3. DigitsEnd(f, pos) = q
    BY <2>2, DigitsEndAt
  <2> QED BY <2>3 DEF pos, q
<1>7. digits \in DigitRuns /\ digits = SubSeq(f, p + m + 1, (p + n) - 1)
  <2> DEFINE h == n - m - 1
             read == SubSeq(f, p + m + 1, (p + n) - 1)
  <2>0. h \in Nat /\ m + 1 \in Int /\ n - 1 \in Int /\ p + m + 1 \in Int /\ (p + n) - 1 \in Int
    BY <1>1, <1>3
  <2>1. ASSUME NEW i \in (m + 1) .. (n - 1)
        PROVE  a[i] \in DigitChars
    <3>1. i \in 1 .. Len(a) /\ IsDigit(a[i])
      BY <1>1, <1>2, <1>3
    <3>2. a[i] \in STRING
      BY <1>1, <3>1 DEF Texts
    <3> QED BY <3>1, <3>2 DEF DigitChars
  <2>2. /\ SubSeq(a, m + 1, n - 1) \in DigitRuns
        /\ Len(SubSeq(a, m + 1, n - 1)) = IF m + 1 <= n - 1 THEN n - 1 - (m + 1) + 1 ELSE 0
        /\ \A i \in 1 .. (n - 1 - (m + 1) + 1) : SubSeq(a, m + 1, n - 1)[i] = a[m + 1 + i - 1]
    BY <2>0, <2>1, SubSeqProperties DEF DigitRuns
  <2>3. ASSUME NEW i \in (p + m + 1) .. ((p + n) - 1)
        PROVE  f[i] \in DigitChars
    <3>1. i \in 1 .. Len(f) /\ IsDigit(f[i])
      BY <1>4
    <3>2. f[i] \in STRING
      BY <3>1 DEF Texts
    <3> QED BY <3>1, <3>2 DEF DigitChars
  <2>4. /\ read \in DigitRuns
        /\ Len(read) = IF p + m + 1 <= (p + n) - 1 THEN (p + n) - 1 - (p + m + 1) + 1 ELSE 0
        /\ \A i \in 1 .. ((p + n) - 1 - (p + m + 1) + 1) : read[i] = f[p + m + 1 + i - 1]
    <3> DEFINE u == p + m + 1
               v == (p + n) - 1
    <3>1. u \in Int /\ v \in Int /\ \A i \in u .. v : f[i] \in DigitChars
      BY <2>0, <2>3
    <3> HIDE DEF u, v
    <3>2. /\ SubSeq(f, u, v) \in DigitRuns
          /\ Len(SubSeq(f, u, v)) = IF u <= v THEN v - u + 1 ELSE 0
          /\ \A i \in 1 .. (v - u + 1) : SubSeq(f, u, v)[i] = f[u + i - 1]
      BY <3>1, SubSeqProperties DEF DigitRuns
    <3> QED BY <3>2 DEF u, v, read
  <2>5. digits = SubSeq(a, m + 1, n - 1)
    BY DEF Field, m, n
  <2> HIDE DEF digits, read
  <2>6. Len(digits) = h /\ Len(read) = h
    <3>1. (IF m + 1 <= n - 1 THEN n - 1 - (m + 1) + 1 ELSE 0) = h
      BY <1>3
    <3>2. (IF p + m + 1 <= (p + n) - 1 THEN (p + n) - 1 - (p + m + 1) + 1 ELSE 0) = h
      BY <1>1, <1>3
    <3> QED BY <2>2, <2>4, <2>5, <3>1, <3>2
  <2>7. ASSUME NEW i \in 1 .. h
        PROVE  digits[i] = read[i]
    <3>1. /\ i \in 1 .. (n - 1 - (m + 1) + 1) /\ m + 1 + i - 1 = m + i
          /\ i \in 1 .. ((p + n) - 1 - (p + m + 1) + 1) /\ p + m + 1 + i - 1 = p + (m + i)
          /\ m + i \in 1 .. (e - p)
      BY <1>1, <1>2, <1>3
    <3>2. digits[i] = a[m + i] /\ read[i] = f[p + (m + i)]
      BY <2>2, <2>4, <2>5, <3>1
    <3> QED BY <1>1, <3>1, <3>2
  <2>8. digits \in DigitRuns /\ read \in DigitRuns
    BY <2>2, <2>4, <2>5
  <2>9. digits = read
    BY <2>6, <2>7, <2>8, SeqEqual DEF DigitRuns
  <2> QED BY <2>8, <2>9 DEF read
<1> HIDE DEF digits
<1>8. Value(a, k) = Number(digits) /\ Number(digits) \in Nat
  BY <1>7, NumberIsNat DEF Value, digits
<1>9. r = LET atEnd == p + n = len + 1
              value == Number(IF atEnd THEN digits \o stale ELSE digits)
          IN [at |-> IF atEnd THEN len ELSE p + n, next |-> IF atEnd THEN Nul ELSE f[p + n],
              value |-> value, ok |-> value <= UINT_MAX]
  <2> DEFINE pos == p + m
             q == p + n
  <2>1. r = read_uint(f, pos, stale)
    BY DEF m
  <2>2. DigitsEnd(f, pos) = q /\ digits = SubSeq(f, pos + 1, q - 1)
    <3>1. DigitsEnd(f, pos) = q
      BY <1>6
    <3>2. digits = SubSeq(f, pos + 1, q - 1)
      BY <1>7
    <3> QED BY <3>1, <3>2
  <2> HIDE DEF pos, q
  <2>3. r = LET atEnd == q = len + 1
                value == Number(IF atEnd THEN digits \o stale ELSE digits)
            IN [at |-> IF atEnd THEN len ELSE q, next |-> IF atEnd THEN Nul ELSE f[q],
                value |-> value, ok |-> value <= UINT_MAX]
    BY <2>1, <2>2 DEF read_uint
  <2> QED BY <2>3 DEF pos, q
<1>10. UINT_MAX \in Nat
  BY JobParserAssumption
<1>11. CASE k # N
  <2>1. n \in 1 .. (e - p) /\ p + n # len + 1 /\ p + n <= e /\ p + n \in (p + 1) .. e
    BY <1>1, <1>2, <1>3, <1>11
  <2>2. r = [at |-> p + n, next |-> f[p + n], value |-> Number(digits),
             ok |-> Number(digits) <= UINT_MAX]
    BY <1>9, <2>1
  <2>3. f[p + n] = a[n] /\ f[p + n] \notin LineEnd
    BY <1>1, <2>1 DEF IsArguments
  <2>4. /\ r.at = p + n /\ r.next = f[p + n] /\ r.value = Number(digits)
        /\ r.ok = (Number(digits) <= UINT_MAX)
    BY <2>2
  <2>5. r.at = p + n /\ r.at <= e /\ r.next = a[n] /\ r.next \notin LineEnd
    BY <2>1, <2>3, <2>4
  <2>6. r.value = Value(a, k) /\ r.ok = Fits(a, k) /\ r.ok \in BOOLEAN
    <3>1. r.value = Value(a, k) /\ r.ok \in BOOLEAN
      <4>1. (Number(digits) <= UINT_MAX) \in BOOLEAN
        OBVIOUS
      <4> QED BY <1>8, <2>4, <4>1
    <3>2. r.ok = Fits(a, k)
      BY <1>8, <2>4 DEF Fits
    <3> QED BY <3>1, <3>2
  <2> QED BY <1>8, <1>11, <2>5, <2>6 DEF N, n
<1>12. CASE k = N /\ e < len
  <2>1. p + n = e + 1 /\ p + n # len + 1
    BY <1>1, <1>2, <1>3, <1>12
  <2>2. r = [at |-> p + n, next |-> f[p + n], value |-> Number(digits),
             ok |-> Number(digits) <= UINT_MAX]
    BY <1>9, <2>1
  <2>3. to = e + 1 /\ f[to] = Newline
    BY <1>1, <1>12 DEF IsArguments
  <2>4. /\ r.at = p + n /\ r.next = f[p + n] /\ r.value = Number(digits)
        /\ r.ok = (Number(digits) <= UINT_MAX)
    BY <2>2
  <2>5. r.at = to /\ r.next \in LineEnd
    BY <2>1, <2>3, <2>4 DEF LineEnd
  <2>6. r.value = Value(a, k) /\ r.ok = Fits(a, k) /\ r.ok \in BOOLEAN
    <3>1. r.value = Value(a, k) /\ r.ok \in BOOLEAN
      <4>1. (Number(digits) <= UINT_MAX) \in BOOLEAN
        OBVIOUS
      <4> QED BY <1>8, <2>4, <4>1
    <3>2. r.ok = Fits(a, k)
      BY <1>8, <2>4 DEF Fits
    <3> QED BY <3>1, <3>2
  <2> QED BY <1>8, <1>12, <2>5, <2>6 DEF N
<1>13. CASE k = N /\ ~ (e < len)
  <2>1. p + n = len + 1 /\ e = len
    BY <1>1, <1>2, <1>3, <1>13
  <2>2. r = [at |-> len, next |-> Nul, value |-> Number(digits \o stale),
             ok |-> Number(digits \o stale) <= UINT_MAX]
    BY <1>9, <2>1
  <2>3. to = e
    BY <1>1, <2>1 DEF IsArguments
  <2>4. digits \o stale \in DigitRuns /\ Number(digits) <= Number(digits \o stale)
    BY <1>7, NumberGrows
  <2>5. Number(digits \o stale) \in Nat
    BY <2>4, NumberIsNat
  <2>6. Number(digits \o stale) <= UINT_MAX => Number(digits) <= UINT_MAX
    BY <1>8, <1>10, <2>4, <2>5
  <2>7. /\ r.at = len /\ r.next = Nul /\ r.value = Number(digits \o stale)
        /\ r.ok = (Number(digits \o stale) <= UINT_MAX)
    BY <2>2
  <2>8. r.at = to /\ r.next \in LineEnd
    BY <2>1, <2>3, <2>7 DEF LineEnd
  <2>9. r.value \in Nat /\ (r.ok => Fits(a, k)) /\ r.ok \in BOOLEAN
    <3>1. r.value \in Nat /\ r.ok \in BOOLEAN
      <4>1. (Number(digits \o stale) <= UINT_MAX) \in BOOLEAN
        OBVIOUS
      <4> QED BY <2>5, <2>7, <4>1
    <3>2. r.ok => Fits(a, k)
      BY <1>8, <2>6, <2>7 DEF Fits
    <3> QED BY <3>1, <3>2
  <2> QED BY <1>8, <1>13, <2>8, <2>9 DEF N
<1> QED BY <1>11, <1>12, <1>13

(* So does each turn of the loop over numbers.                             *)
LEMMA ReadsOneField ==
  ASSUME NEW f \in Texts, NEW p, NEW e, NEW to, NEW a, IsArguments(f, p, e, to, a),
         NEW k \in 1 .. Fields(a), NEW stale \in DigitRuns,
         NEW s \in NumberStates(f), s.ok, s.at = p + Mark(a, k - 1), NEW set,
         NEW t, t = OneNumber(f, stale, s, set)
  PROVE  /\ t \in NumberStates(f) /\ t.at \in p .. to
         /\ k # Fields(a) =>
              /\ t.at = p + Mark(a, k) /\ a[Mark(a, k)] \notin LineEnd
              /\ t.ok <=> Fits(a, k) /\ a[Mark(a, k)] \in set
         /\ k = Fields(a) =>
              /\ t.at = to /\ (t.ok => Fits(a, k) /\ \E c \in set : c \in LineEnd)
              /\ set = LineEnd /\ e < Len(f) => (t.ok <=> Fits(a, k))
         /\ \E v \in Nat : /\ t.values = Append(s.values, v)
                           /\ k # Fields(a) \/ e < Len(f) => v = Value(a, k)
<1> DEFINE r == read_uint(f, p + Mark(a, k - 1), stale)
<1>1. /\ r.ok \in BOOLEAN /\ r.value \in Nat /\ Value(a, k) \in Nat
      /\ r.ok => Fits(a, k)
      /\ k # Fields(a) =>
           /\ r.at = p + Mark(a, k) /\ r.at <= e /\ r.next = a[Mark(a, k)]
           /\ r.next \notin LineEnd
      /\ k = Fields(a) => r.at = to /\ r.next \in LineEnd
      /\ k # Fields(a) \/ e < Len(f) => r.value = Value(a, k) /\ r.ok = Fits(a, k)
  BY ReadsField
<1>2. t = WithNumber(s, r, set)
  BY DEF OneNumber
<1>3. t \in NumberStates(f)
  BY <1>2, NumberStep
<1> HIDE DEF r
<1>4. /\ t.at = r.at /\ t.ok = (r.ok /\ r.next \in set)
      /\ t.values = Append(s.values, r.value)
  BY <1>2 DEF WithNumber
<1>5. t.at \in p .. to
  <2>1. to \in Nat /\ e \in Nat /\ e <= to /\ t.at \in Nat /\ p \in Nat /\ p <= e
    <3>1. /\ t.at \in 0 .. Len(f) /\ to \in e .. Len(f) /\ e \in Nat /\ Len(f) \in Nat
          /\ p \in Nat /\ p <= e
      BY <1>3, ArgumentsAre DEF NumberStates
    <3> QED BY <3>1
  <2>2. k # Fields(a) => p + Mark(a, k) >= p
    <3>1. a \in Texts
      BY ArgumentsAre
    <3>2. k # Fields(a) => Mark(a, k) \in 1 .. Len(a)
      BY <3>1, FieldBetween
    <3>3. k # Fields(a) => Mark(a, k) \in Nat
      BY <3>2
    <3> QED BY <2>1, <3>3
  <2> QED BY <1>1, <1>4, <2>1, <2>2
<1>6. ASSUME k # Fields(a)
      PROVE  /\ t.at = p + Mark(a, k) /\ a[Mark(a, k)] \notin LineEnd
             /\ t.ok <=> Fits(a, k) /\ a[Mark(a, k)] \in set
  BY <1>1, <1>4, <1>6
<1>7. ASSUME k = Fields(a)
      PROVE  /\ t.at = to /\ (t.ok => Fits(a, k) /\ \E c \in set : c \in LineEnd)
             /\ set = LineEnd /\ e < Len(f) => (t.ok <=> Fits(a, k))
  BY <1>1, <1>4, <1>7
<1> QED BY <1>1, <1>3, <1>4, <1>5, <1>6, <1>7

(* The numbers of a command are read in one, two or three turns.           *)
LEMMA OneTurn ==
  ASSUME NEW f \in Texts, NEW pos \in 0 .. Len(f), NEW stale \in DigitRuns,
         NEW ends, DOMAIN ends = 1 .. 1
  PROVE  /\ NoNumbers(pos) \in NumberStates(f)
         /\ Numbers(f, pos, ends, stale) =
              OneNumber(f, stale, NoNumbers(pos), ends[1])
<1>1. DOMAIN ends = 1 .. 1 /\ 1 \in Nat
  OBVIOUS
<1>2. PICK run : /\ Numbers(f, pos, ends, stale) = run[1 .. 1]
                 /\ run[{}] = NoNumbers(pos) /\ NoNumbers(pos) \in NumberStates(f)
                 /\ \A k \in 1 .. 1 :
                      run[1 .. k] = OneNumber(f, stale, run[1 .. (k - 1)], ends[k])
  <2> DEFINE n == 1
             sets == ends
  <2>1. DOMAIN sets = 1 .. n /\ n \in Nat
    BY <1>1
  <2> HIDE DEF n, sets
  <2>2. \E run : /\ Numbers(f, pos, sets, stale) = run[1 .. n]
                /\ run[{}] = NoNumbers(pos) /\ NoNumbers(pos) \in NumberStates(f)
                /\ \A k \in 1 .. n :
                     run[1 .. k] = OneNumber(f, stale, run[1 .. (k - 1)], sets[k])
    BY <2>1, NumbersRun
  <2> QED BY <2>2 DEF n, sets
<1>3. 1 .. (1 - 1) = {}
  OBVIOUS
<1> QED BY <1>1, <1>2, <1>3

LEMMA TwoTurns ==
  ASSUME NEW f \in Texts, NEW pos \in 0 .. Len(f), NEW stale \in DigitRuns,
         NEW ends, DOMAIN ends = 1 .. 2
  PROVE  /\ NoNumbers(pos) \in NumberStates(f)
         /\ Numbers(f, pos, ends, stale) =
              OneNumber(f, stale, OneNumber(f, stale, NoNumbers(pos), ends[1]), ends[2])
<1>1. DOMAIN ends = 1 .. 2 /\ 2 \in Nat
  OBVIOUS
<1>2. PICK run : /\ Numbers(f, pos, ends, stale) = run[1 .. 2]
                 /\ run[{}] = NoNumbers(pos) /\ NoNumbers(pos) \in NumberStates(f)
                 /\ \A k \in 1 .. 2 :
                      run[1 .. k] = OneNumber(f, stale, run[1 .. (k - 1)], ends[k])
  <2> DEFINE n == 2
             sets == ends
  <2>1. DOMAIN sets = 1 .. n /\ n \in Nat
    BY <1>1
  <2> HIDE DEF n, sets
  <2>2. \E run : /\ Numbers(f, pos, sets, stale) = run[1 .. n]
                /\ run[{}] = NoNumbers(pos) /\ NoNumbers(pos) \in NumberStates(f)
                /\ \A k \in 1 .. n :
                     run[1 .. k] = OneNumber(f, stale, run[1 .. (k - 1)], sets[k])
    BY <2>1, NumbersRun
  <2> QED BY <2>2 DEF n, sets
<1>3. 1 .. (1 - 1) = {} /\ 2 - 1 = 1 /\ 1 \in 1 .. 2 /\ 2 \in 1 .. 2
  OBVIOUS
<1>4. run[1 .. 1] = OneNumber(f, stale, NoNumbers(pos), ends[1])
  BY <1>1, <1>2, <1>3
<1>5. run[1 .. 2] = OneNumber(f, stale, run[1 .. 1], ends[2])
  BY <1>1, <1>2, <1>3
<1> QED BY <1>2, <1>4, <1>5

LEMMA ThreeTurns ==
  ASSUME NEW f \in Texts, NEW pos \in 0 .. Len(f), NEW stale \in DigitRuns,
         NEW ends, DOMAIN ends = 1 .. 3
  PROVE  /\ NoNumbers(pos) \in NumberStates(f)
         /\ Numbers(f, pos, ends, stale) =
              OneNumber(f, stale,
                OneNumber(f, stale, OneNumber(f, stale, NoNumbers(pos), ends[1]), ends[2]), ends[3])
<1>1. DOMAIN ends = 1 .. 3 /\ 3 \in Nat
  OBVIOUS
<1>2. PICK run : /\ Numbers(f, pos, ends, stale) = run[1 .. 3]
                 /\ run[{}] = NoNumbers(pos) /\ NoNumbers(pos) \in NumberStates(f)
                 /\ \A k \in 1 .. 3 :
                      run[1 .. k] = OneNumber(f, stale, run[1 .. (k - 1)], ends[k])
  <2> DEFINE n == 3
             sets == ends
  <2>1. DOMAIN sets = 1 .. n /\ n \in Nat
    BY <1>1
  <2> HIDE DEF n, sets
  <2>2. \E run : /\ Numbers(f, pos, sets, stale) = run[1 .. n]
                /\ run[{}] = NoNumbers(pos) /\ NoNumbers(pos) \in NumberStates(f)
                /\ \A k \in 1 .. n :
                     run[1 .. k] = OneNumber(f, stale, run[1 .. (k - 1)], sets[k])
    BY <2>1, NumbersRun
  <2> QED BY <2>2 DEF n, sets
<1>3. 1 .. (1 - 1) = {} /\ 2 - 1 = 1 /\ 3 - 1 = 2
  OBVIOUS
<1>4. 1 \in 1 .. 3 /\ 2 \in 1 .. 3 /\ 3 \in 1 .. 3
  OBVIOUS
<1>5. run[1 .. 1] = OneNumber(f, stale, NoNumbers(pos), ends[1])
  BY <1>1, <1>2, <1>3, <1>4
<1>6. run[1 .. 2] = OneNumber(f, stale, run[1 .. 1], ends[2])
  BY <1>1, <1>2, <1>3, <1>4
<1>7. run[1 .. 3] = OneNumber(f, stale, run[1 .. 2], ends[3])
  BY <1>1, <1>2, <1>3, <1>4
<1> QED BY <1>2, <1>5, <1>6, <1>7

-----------------------------------------------------------------------------
(* cleanup goes to the next newline, or to the end of the file.            *)
LEMMA CleansUpTo ==
  ASSUME NEW f \in Texts, NEW pos \in 0 .. Len(f), NEW q \in pos .. Len(f),
         \A i \in (pos + 1) .. (q - 1) : f[i] # Newline,
         q = Len(f) \/ (q # pos /\ f[q] = Newline)
  PROVE  cleanup(f, pos) = q
<1> DEFINE n == Len(f)
           First(x) == f[x] = Newline /\ \A i \in (pos + 1) .. (x - 1) : f[i] # Newline
<1>0. n \in Nat /\ pos \in 0 .. n /\ q \in pos .. n
  BY DEF Texts
<1>1. cleanup(f, pos) = IF \E x \in (pos + 1) .. n : f[x] = Newline
                        THEN CHOOSE x \in (pos + 1) .. n : First(x) ELSE n
  BY DEF cleanup
<1> HIDE DEF n
<1>2. pos \in Nat /\ q \in Nat
  BY <1>0
<1>3. CASE q # pos /\ f[q] = Newline
  <2>1. q \in (pos + 1) .. n /\ First(q)
    BY <1>0, <1>2, <1>3
  <2>2. ASSUME NEW x \in (pos + 1) .. n, First(x)
        PROVE  x = q
    <3>1. x \in Nat
      BY <1>2
    <3>2. ~ (x < q)
      <4>1. x < q => x \in (pos + 1) .. (q - 1)
        BY <1>2, <3>1
      <4> QED BY <2>2, <4>1
    <3>3. ~ (q < x)
      <4>1. q < x => q \in (pos + 1) .. (x - 1)
        BY <1>2, <2>1, <3>1
      <4> QED BY <1>3, <2>2, <4>1
    <3> QED BY <1>2, <3>1, <3>2, <3>3
  <2>3. \E x \in (pos + 1) .. n : f[x] = Newline
    BY <2>1
  <2> HIDE DEF First
  <2> QED BY <1>1, <2>1, <2>2, <2>3
<1>4. CASE ~ (q # pos /\ f[q] = Newline)
  <2>1. q = n
    BY <1>4 DEF n
  <2>2. ASSUME NEW x \in (pos + 1) .. n, f[x] = Newline
        PROVE  FALSE
    <3>1. x \in (pos + 1) .. (q - 1) \/ (x = q /\ q # pos)
      BY <1>0, <1>2, <2>1
    <3> QED BY <1>4, <2>2, <3>1
  <2> QED BY <1>1, <2>1, <2>2
<1> QED BY <1>3, <1>4

(* How a line ends for the parser that reads it: at its end if the grammar *)
(* knows it, with the command it means unless it has no newline; otherwise *)
(* it is invalid, and what is left from some place of it is cleaned up.    *)
ReadsLine(f, p, e, to, r, known, means) ==
  /\ known => r.at = to
  /\ ~ known => r.cmd = [op |-> "invalid"] /\ \E q \in p .. to : r.at = cleanup(f, q)
  /\ known /\ e < Len(f) => r.cmd = means

LEMMA LastLineStops ==
  ASSUME NEW f \in Texts, NEW p, NEW e, NEW to, NEW a, IsArguments(f, p, e, to, a),
         NEW q \in p .. to
  PROVE  /\ Invalid(f, q).cmd = [op |-> "invalid"] /\ Invalid(f, q).at = cleanup(f, q)
         /\ ~ (e < Len(f)) /\ q >= e => cleanup(f, q) = to
<1>1. /\ e \in Nat /\ e <= Len(f) /\ Len(f) \in Nat /\ to \in e .. Len(f)
  BY ArgumentsAre
<1>2. Invalid(f, q).cmd = [op |-> "invalid"] /\ Invalid(f, q).at = cleanup(f, q)
  BY DEF Invalid
<1>3. ASSUME ~ (e < Len(f)), q >= e
      PROVE  cleanup(f, q) = to
  <2>1. e = Len(f) /\ to = Len(f) /\ q = Len(f) /\ Len(f) \in 0 .. Len(f) /\ Len(f) \in Len(f) .. Len(f)
    BY <1>1, <1>3
  <2>2. \A i \in (Len(f) + 1) .. (Len(f) - 1) : FALSE
    BY <1>1
  <2> DEFINE n == Len(f)
  <2>3. n \in 0 .. Len(f) /\ n \in n .. Len(f) /\ n = Len(f)
        /\ \A i \in (n + 1) .. (n - 1) : FALSE
    BY <2>1, <2>2
  <2> HIDE DEF n
  <2>4. cleanup(f, n) = n
    BY <2>3, CleansUpTo
  <2> QED BY <2>1, <2>3, <2>4
<1> QED BY <1>2, <1>3

LEMMA NumbersReadLine ==
  ASSUME NEW f \in Texts, NEW p, NEW e, NEW to, NEW a, IsArguments(f, p, e, to, a),
         NEW s, s.at \in p .. to, NEW cmd, NEW known \in BOOLEAN, NEW means,
         s.ok => known, known => s.at = to,
         known /\ e < Len(f) => s.ok /\ cmd = means
  PROVE  ReadsLine(f, p, e, to, IfNumbers(f, s, cmd), known, means)
<1> DEFINE r == IfNumbers(f, s, cmd)
<1>1. CASE s.ok
  <2>1. r = Parsed(s.at, cmd)
    BY <1>1 DEF IfNumbers
  <2>2. r.at = s.at /\ r.cmd = cmd
    BY <2>1 DEF Parsed
  <2> HIDE DEF r
  <2>3. ReadsLine(f, p, e, to, r, known, means)
    BY <1>1, <2>2 DEF ReadsLine
  <2> QED BY <2>3 DEF r
<1>2. CASE ~ s.ok
  <2>1. r = Invalid(f, s.at)
    BY <1>2 DEF IfNumbers
  <2>2. /\ r.cmd = [op |-> "invalid"] /\ r.at = cleanup(f, s.at)
        /\ ~ (e < Len(f)) /\ s.at >= e => cleanup(f, s.at) = to
    BY <2>1, LastLineStops
  <2>3. to >= e
    <3>1. /\ e \in Nat /\ Len(f) \in Nat /\ to \in e .. Len(f)
      BY ArgumentsAre
    <3> QED BY <3>1
  <2> HIDE DEF r
  <2>4. known => ~ (e < Len(f))
    BY <1>2
  <2>5. known => r.at = to
    BY <2>2, <2>3, <2>4
  <2>6. ReadsLine(f, p, e, to, r, known, means)
    BY <2>2, <2>4, <2>5 DEF ReadsLine
  <2> QED BY <2>6 DEF r
<1> QED BY <1>1, <1>2

LEMMA CreateReads ==
  ASSUME NEW f \in Texts, NEW p, NEW e, NEW to, NEW a, IsArguments(f, p, e, to, a),
         NEW stale \in DigitRuns
  PROVE  ReadsLine(f, p, e, to, parse_create(f, p, stale), IsCreate(a),
                   [op |-> "create", id |-> Value(a, 1), dims |-> <<Value(a, 2), Value(a, 3)>>])
<1> DEFINE N == Fields(a)
           s0 == NoNumbers(p)
           s1 == OneNumber(f, stale, s0, {Blank})
           s2 == OneNumber(f, stale, s1, {Blank})
           s == OneNumber(f, stale, s2, LineEnd)
           known == IsCreate(a)
           v == s.values
           cmd == [op |-> "create", id |-> v[1], dims |-> <<v[2], v[3]>>]
           means == [op |-> "create", id |-> Value(a, 1), dims |-> <<Value(a, 2), Value(a, 3)>>]
<1>1. /\ p \in Nat /\ p \in 0 .. Len(f) /\ a \in Texts /\ e \in Nat /\ to \in e .. Len(f)
  BY ArgumentsAre
<1>2. N \in Nat /\ N >= 1
  BY <1>1, MarksAre
<1>3. s0 \in NumberStates(f) /\ Numbers(f, p, <<{Blank}, {Blank}, LineEnd>>, stale) = s
  <2> DEFINE ends == <<{Blank}, {Blank}, LineEnd>>
  <2>1. DOMAIN ends = 1 .. 3 /\ ends[1] = {Blank} /\ ends[2] = {Blank} /\ ends[3] = LineEnd
    OBVIOUS
  <2> HIDE DEF ends
  <2>2. /\ NoNumbers(p) \in NumberStates(f)
        /\ Numbers(f, p, ends, stale) =
             OneNumber(f, stale,
               OneNumber(f, stale, OneNumber(f, stale, NoNumbers(p), ends[1]), ends[2]), ends[3])
    BY <1>1, <2>1, ThreeTurns
  <2>3. Numbers(f, p, ends, stale) = s
    BY <2>1, <2>2
  <2> QED BY <2>2, <2>3 DEF ends
<1>4. parse_create(f, p, stale) = IfNumbers(f, s, cmd)
  BY <1>3 DEF parse_create
<1>5. s0.ok /\ s0.at = p + Mark(a, 1 - 1) /\ s0.values = <<>>
  BY <1>1 DEF NoNumbers, Mark
<1>6. known <=> /\ N = 3 /\ Fits(a, 1) /\ Fits(a, 2) /\ Fits(a, 3)
                /\ a[Mark(a, 1)] \in {Blank} /\ a[Mark(a, 2)] \in {Blank}
  BY DEF IsCreate, EndsWith
<1>0. known \in BOOLEAN
  BY DEF IsCreate
<1>7. ~ \E c \in {Blank} : c \in LineEnd
  BY DEF LineEnd, Newline, Nul, Blank
<1> HIDE DEF N, s0, known
<1>8. /\ s1 \in NumberStates(f) /\ s1.at \in p .. to
      /\ 1 # N => /\ s1.at = p + Mark(a, 1)
                  /\ s1.ok <=> Fits(a, 1) /\ a[Mark(a, 1)] \in {Blank}
      /\ 1 = N => s1.at = to /\ ~ s1.ok
      /\ \E x \in Nat : /\ s1.values = Append(<<>>, x)
                        /\ 1 # N => x = Value(a, 1)
  <2>1. 1 \in 1 .. N
    BY <1>2
  <2> QED BY <1>3, <1>5, <1>7, <2>1, ReadsOneField DEF N
<1> HIDE DEF s1
<1>9. CASE ~ s1.ok
  <2>1. s2 = s1 /\ s = s1
    BY <1>9 DEF OneNumber
  <2>2. ~ known
    BY <1>6, <1>8, <1>9
  <2> HIDE DEF s, s2, cmd, means
  <2>3. ReadsLine(f, p, e, to, IfNumbers(f, s, cmd), known, means)
    BY <1>0, <1>8, <1>9, <2>1, <2>2, NumbersReadLine
  <2> QED BY <1>4, <2>3 DEF known, means
<1>10. CASE s1.ok
  <2>1. 1 # N /\ 2 \in 1 .. N /\ s1.at = p + Mark(a, 2 - 1)
    BY <1>2, <1>8, <1>10
  <2>2. /\ s2 \in NumberStates(f) /\ s2.at \in p .. to
        /\ 2 # N => /\ s2.at = p + Mark(a, 2)
                    /\ s2.ok <=> Fits(a, 2) /\ a[Mark(a, 2)] \in {Blank}
        /\ 2 = N => s2.at = to /\ ~ s2.ok
        /\ \E x \in Nat : /\ s2.values = Append(s1.values, x)
                          /\ 2 # N => x = Value(a, 2)
    <3>1. s1 \in NumberStates(f)
      BY <1>8
    <3> QED BY <1>7, <1>10, <2>1, <3>1, ReadsOneField DEF N
  <2> HIDE DEF s2
  <2>3. CASE ~ s2.ok
    <3>1. s = s2
      BY <2>3 DEF OneNumber
    <3>2. ~ known
      BY <1>6, <2>2, <2>3
    <3> HIDE DEF s, cmd, means
    <3>3. ReadsLine(f, p, e, to, IfNumbers(f, s, cmd), known, means)
      BY <1>0, <2>2, <2>3, <3>1, <3>2, NumbersReadLine
    <3> QED BY <1>4, <3>3 DEF known, means
  <2>4. CASE s2.ok
    <3>1. 2 # N /\ 3 \in 1 .. N /\ s2.at = p + Mark(a, 3 - 1)
      BY <1>2, <2>1, <2>2, <2>4
    <3>2. /\ s \in NumberStates(f) /\ s.at \in p .. to
          /\ 3 # N => a[Mark(a, 3)] \notin LineEnd /\ (s.ok => a[Mark(a, 3)] \in LineEnd)
          /\ 3 = N => s.at = to /\ (s.ok => Fits(a, 3)) /\ (e < Len(f) => (s.ok <=> Fits(a, 3)))
          /\ \E x \in Nat : /\ s.values = Append(s2.values, x)
                            /\ 3 # N \/ e < Len(f) => x = Value(a, 3)
      <4>1. s2 \in NumberStates(f)
        BY <2>2
      <4> QED BY <2>4, <3>1, <4>1, ReadsOneField DEF N
    <3>3. known <=> 3 = N /\ Fits(a, 3)
      BY <1>6, <1>8, <1>10, <2>1, <2>2, <2>4, <3>1
    <3>4. known /\ e < Len(f) => cmd = means
      <4>1. PICK x \in Nat : s1.values = Append(<<>>, x) /\ x = Value(a, 1)
        BY <1>8, <2>1
      <4>2. PICK y \in Nat : s2.values = Append(s1.values, y) /\ y = Value(a, 2)
        BY <2>2, <3>1
      <4>3. PICK z \in Nat : s.values = Append(s2.values, z) /\ (e < Len(f) => z = Value(a, 3))
        BY <3>2
      <4> HIDE DEF s
      <4> DEFINE u1 == s1.values
                 u2 == s2.values
      <4>4. <<>> \in Seq(Nat) /\ Len(<<>>) = 0 /\ x \in Nat
        BY <4>1
      <4>5. u1 \in Seq(Nat) /\ Len(u1) = 1 /\ u1[1] = x
        BY <4>1, <4>4, AppendProperties
      <4> HIDE DEF u1
      <4>6. u2 \in Seq(Nat) /\ Len(u2) = 2 /\ u2[1] = x /\ u2[2] = y
        <5>1. u2 = Append(u1, y)
          BY <4>2 DEF u1
        <5> HIDE DEF u2
        <5>2. /\ Append(u1, y) \in Seq(Nat) /\ Len(Append(u1, y)) = Len(u1) + 1
              /\ \A i \in 1 .. Len(u1) : Append(u1, y)[i] = u1[i]
              /\ Append(u1, y)[Len(u1) + 1] = y
          <6>1. u1 \in Seq(Nat) /\ y \in Nat
            BY <4>5
          <6> QED BY ONLY <6>1, AppendProperties
        <5> QED BY <4>5, <5>1, <5>2
      <4> HIDE DEF u2
      <4>7. v[1] = x /\ v[2] = y /\ v[3] = z
        <5>1. v = Append(u2, z)
          BY <4>3 DEF u2
        <5> HIDE DEF v
        <5>2. /\ Append(u2, z) \in Seq(Nat) /\ Len(Append(u2, z)) = Len(u2) + 1
              /\ \A i \in 1 .. Len(u2) : Append(u2, z)[i] = u2[i]
              /\ Append(u2, z)[Len(u2) + 1] = z
          <6>1. u2 \in Seq(Nat) /\ z \in Nat
            BY <4>6
          <6> QED BY ONLY <6>1, AppendProperties
        <5> QED BY <4>6, <5>1, <5>2
      <4> QED BY <4>1, <4>2, <4>3, <4>7
    <3> HIDE DEF s, cmd, means
    <3>5. ReadsLine(f, p, e, to, IfNumbers(f, s, cmd), known, means)
      <4>1. s.ok => known
        BY <3>2, <3>3
      <4>2. known => s.at = to
        BY <3>2, <3>3
      <4>3. known /\ e < Len(f) => s.ok /\ cmd = means
        BY <3>2, <3>3, <3>4
      <4> QED BY <1>0, <3>2, <4>1, <4>2, <4>3, NumbersReadLine
    <3> QED BY <1>4, <3>5 DEF known, means
  <2> QED BY <2>3, <2>4
<1> QED BY <1>9, <1>10

LEMMA CleansLine ==
  ASSUME NEW f \in Texts, NEW p, NEW e, NEW to, NEW a, IsArguments(f, p, e, to, a),
         NEW pos \in p .. e
  PROVE  cleanup(f, pos) = to
<1>1. /\ p \in Nat /\ e \in Nat /\ p <= e /\ e <= Len(f) /\ Len(f) \in Nat
      /\ to \in e .. Len(f) /\ pos \in Nat /\ p <= pos /\ pos <= e
  <2>1. /\ p \in Nat /\ e \in Nat /\ p <= e /\ e <= Len(f) /\ Len(f) \in Nat
        /\ to \in e .. Len(f)
    BY ArgumentsAre
  <2> QED BY <2>1
<1>2. pos \in 0 .. Len(f) /\ to \in pos .. Len(f)
  BY <1>1
<1>3. ASSUME NEW i \in (pos + 1) .. (to - 1)
      PROVE  f[i] # Newline
  <2>1. i \in (p + 1) .. e
    <3>1. to = e \/ to = e + 1
      BY DEF IsArguments
    <3> QED BY <1>1, <3>1
  <2>2. f[i] \notin LineEnd
    BY <2>1 DEF IsArguments
  <2> QED BY <2>2 DEF LineEnd
<1>4. to = Len(f) \/ (to # pos /\ f[to] = Newline)
  <2>1. \/ e = Len(f) /\ to = e
        \/ e < Len(f) /\ to = e + 1 /\ f[to] = Newline
    BY DEF IsArguments
  <2> QED BY <1>1, <2>1
<1> QED BY <1>2, <1>3, <1>4, CleansUpTo

LEMMA ShowReads ==
  ASSUME NEW f \in Texts, NEW p, NEW e, NEW to, NEW a, IsArguments(f, p, e, to, a),
         NEW stale \in DigitRuns
  PROVE  ReadsLine(f, p, e, to, parse_show(f, p, stale), IsShow(a),
                   [op |-> "show", id |-> Value(a, 1)])
<1> DEFINE N == Fields(a)
           s0 == NoNumbers(p)
           s == OneNumber(f, stale, s0, LineEnd)
           known == IsShow(a)
           cmd == [op |-> "show", id |-> s.values[1]]
           means == [op |-> "show", id |-> Value(a, 1)]
<1>1. /\ p \in Nat /\ p \in 0 .. Len(f) /\ a \in Texts /\ e \in Nat /\ to \in e .. Len(f)
  BY ArgumentsAre
<1>2. N \in Nat /\ N >= 1
  BY <1>1, MarksAre
<1>3. s0 \in NumberStates(f) /\ Numbers(f, p, <<LineEnd>>, stale) = s
  <2> DEFINE ends == <<LineEnd>>
  <2>1. DOMAIN ends = 1 .. 1 /\ ends[1] = LineEnd
    OBVIOUS
  <2> HIDE DEF ends
  <2>2. /\ NoNumbers(p) \in NumberStates(f)
        /\ Numbers(f, p, ends, stale) = OneNumber(f, stale, NoNumbers(p), ends[1])
    BY <1>1, <2>1, OneTurn
  <2> QED BY <2>1, <2>2 DEF ends
<1>4. parse_show(f, p, stale) = IfNumbers(f, s, cmd)
  BY <1>3 DEF parse_show
<1>5. s0.ok /\ s0.at = p + Mark(a, 1 - 1) /\ s0.values = <<>>
  BY <1>1 DEF NoNumbers, Mark
<1>6. known \in BOOLEAN /\ (known <=> N = 1 /\ Fits(a, 1))
  BY DEF IsShow
<1> HIDE DEF N, s0, known
<1>7. /\ s \in NumberStates(f) /\ s.at \in p .. to
      /\ 1 # N => a[Mark(a, 1)] \notin LineEnd /\ (s.ok => a[Mark(a, 1)] \in LineEnd)
      /\ 1 = N => s.at = to /\ (s.ok => Fits(a, 1)) /\ (e < Len(f) => (s.ok <=> Fits(a, 1)))
      /\ \E x \in Nat : /\ s.values = Append(<<>>, x)
                        /\ 1 # N \/ e < Len(f) => x = Value(a, 1)
  <2>1. 1 \in 1 .. N
    BY <1>2
  <2> QED BY <1>3, <1>5, <2>1, ReadsOneField DEF N
<1> HIDE DEF s
<1>8. e < Len(f) => cmd = means
  <2>1. PICK x \in Nat : s.values = Append(<<>>, x) /\ (e < Len(f) => x = Value(a, 1))
    BY <1>7
  <2>2. Append(<<>>, x)[1] = x
    OBVIOUS
  <2> QED BY <2>1, <2>2
<1> HIDE DEF cmd, means
<1>9. ReadsLine(f, p, e, to, IfNumbers(f, s, cmd), known, means)
  <2>1. s.ok => known
    BY <1>6, <1>7
  <2>2. known => s.at = to
    BY <1>6, <1>7
  <2>3. known /\ e < Len(f) => s.ok /\ cmd = means
    BY <1>6, <1>7, <1>8
  <2> QED BY <1>6, <1>7, <2>1, <2>2, <2>3, NumbersReadLine
<1> QED BY <1>4, <1>9 DEF known, means

LEMMA WaitReads ==
  ASSUME NEW f \in Texts, NEW p, NEW e, NEW to, NEW a, IsArguments(f, p, e, to, a),
         NEW stale \in DigitRuns
  PROVE  ReadsLine(f, p, e, to, parse_wait(f, p, stale), IsWait(a), [op |-> "wait"])
<1> DEFINE N == Fields(a)
           n == read_uint(f, p, stale)
           r == parse_wait(f, p, stale)
           known == IsWait(a)
<1>1. /\ p \in Nat /\ a \in Texts /\ e \in Nat /\ p <= e /\ to \in e .. Len(f) /\ Len(f) \in Nat
  BY ArgumentsAre
<1>2. N \in Nat /\ N >= 1 /\ 1 \in 1 .. N
  <2>1. N \in Nat /\ N >= 1
    BY <1>1, MarksAre
  <2> QED BY <2>1
<1>3. \/ r = Parsed(n.at, [op |-> "wait"]) /\ n.ok /\ n.next \in LineEnd
      \/ r = Parsed(cleanup(f, n.at), [op |-> "wait"]) /\ n.ok /\ n.next = Blank
         /\ n.next \notin LineEnd
      \/ r = Invalid(f, n.at) /\ ~ (n.ok /\ n.next \in LineEnd \cup {Blank})
  <2>1. r = IF ~ n.ok THEN Invalid(f, n.at)
            ELSE IF n.next \in LineEnd THEN Parsed(n.at, [op |-> "wait"])
            ELSE IF n.next = Blank THEN Parsed(cleanup(f, n.at), [op |-> "wait"])
            ELSE Invalid(f, n.at)
    BY DEF parse_wait
  <2> HIDE DEF n, r
  <2> QED BY <2>1
<1>4. /\ n.ok \in BOOLEAN /\ (n.ok => Fits(a, 1))
      /\ 1 # N => /\ n.at = p + Mark(a, 1) /\ n.at <= e /\ n.next = a[Mark(a, 1)]
                  /\ n.next \notin LineEnd /\ n.ok = Fits(a, 1)
      /\ 1 = N => n.at = to /\ n.next \in LineEnd /\ (e < Len(f) => n.ok = Fits(a, 1))
  <2>1. p + Mark(a, 1 - 1) = p
    BY <1>1 DEF Mark
  <2> HIDE DEF r, known
  <2>2. n = read_uint(f, p + Mark(a, 1 - 1), stale)
    BY <2>1
  <2> HIDE DEF n
  <2> QED BY <1>2, <2>2, ReadsField DEF N
<1>5. known \in BOOLEAN /\ (known <=> Fits(a, 1) /\ (N = 1 \/ a[Mark(a, 1)] = Blank))
  BY DEF IsWait, EndsWith
<1>6. n.at \in p .. to /\ (1 # N => n.at \in p .. e)
  <2>1. 1 # N => Mark(a, 1) \in Nat
    <3>1. Mark(a, 1) \in (Mark(a, 1 - 1) + 1) .. (Len(a) + 1) /\ Mark(a, 1 - 1) = 0
      <4>1. Mark(a, 1 - 1) = 0
        BY DEF Mark
      <4> QED BY <1>1, <1>2, <4>1, FieldBetween DEF N
    <3> QED BY <1>1, <3>1
  <2> HIDE DEF n
  <2> QED BY <1>1, <1>4, <2>1
<1> HIDE DEF N, n, r, known
<1>7. CASE r = Parsed(n.at, [op |-> "wait"]) /\ n.ok /\ n.next \in LineEnd
  <2>1. r.at = n.at /\ r.cmd = [op |-> "wait"]
    BY <1>7 DEF Parsed
  <2>2. r.at = to /\ known
    BY <1>4, <1>5, <1>7, <2>1
  <2> QED BY <2>1, <2>2 DEF ReadsLine, r, known
<1>8. CASE r = Parsed(cleanup(f, n.at), [op |-> "wait"]) /\ n.ok /\ n.next = Blank
           /\ n.next \notin LineEnd
  <2>1. r.at = cleanup(f, n.at) /\ r.cmd = [op |-> "wait"]
    BY <1>8 DEF Parsed
  <2>2. 1 # N /\ known
    BY <1>4, <1>5, <1>8
  <2>3. r.at = to
    BY <1>6, <2>1, <2>2, CleansLine
  <2> QED BY <2>1, <2>2, <2>3 DEF ReadsLine, r, known
<1>9. CASE r = Invalid(f, n.at) /\ ~ (n.ok /\ n.next \in LineEnd \cup {Blank})
  <2>1. /\ r.cmd = [op |-> "invalid"] /\ r.at = cleanup(f, n.at)
        /\ ~ (e < Len(f)) /\ n.at >= e => cleanup(f, n.at) = to
    BY <1>6, <1>9, LastLineStops
  <2>2. 1 # N => ~ known
    BY <1>4, <1>5, <1>9
  <2>3. 1 = N /\ known => ~ (e < Len(f)) /\ n.at >= e
    BY <1>1, <1>4, <1>5, <1>9
  <2>4. known => ~ (e < Len(f)) /\ r.at = to
    BY <2>1, <2>2, <2>3
  <2> QED BY <1>6, <2>1, <2>4 DEF ReadsLine, r, known
<1> QED BY <1>3, <1>7, <1>8, <1>9

(* After a mark, the reading of one character that is no digit finds the   *)
(* next mark if there is nothing between them.                             *)
LEMMA ReadsNext ==
  ASSUME NEW f \in Texts, NEW p, NEW e, NEW to, NEW a, IsArguments(f, p, e, to, a),
         NEW k \in 1 .. Fields(a), k # Fields(a), NEW set, \A c \in set : ~ IsDigit(c)
  PROVE  /\ k + 1 \in 1 .. Fields(a) /\ p + Mark(a, k) \in p .. e
         /\ After(f, p + Mark(a, k), 1) \in p .. to
         /\ ReadsOneOf(f, p + Mark(a, k), set) <=>
              /\ Field(a, k + 1) = <<>>
              /\ IF k + 1 = Fields(a) THEN e < Len(f) /\ Newline \in set
                                      ELSE a[Mark(a, k + 1)] \in set
         /\ Field(a, k + 1) = <<>> => Mark(a, k + 1) = Mark(a, k) + 1
         /\ Field(a, k + 1) = <<>> /\ k + 1 = Fields(a) => p + Mark(a, k) = e
         /\ ReadsOneOf(f, p + Mark(a, k), set) =>
              After(f, p + Mark(a, k), 1) = p + Mark(a, k) + 1
<1> DEFINE N == Fields(a)
           m == Mark(a, k)
           n == Mark(a, k + 1)
           len == Len(f)
           q == p + m
<1>1. /\ p \in Nat /\ e \in Nat /\ p <= e /\ e <= len /\ len \in Nat
      /\ a \in Texts /\ Len(a) = e - p /\ \A i \in 1 .. (e - p) : a[i] = f[p + i]
      /\ to \in e .. len
  BY ArgumentsAre
<1>2. N \in Nat /\ k \in Nat /\ k + 1 \in 1 .. N /\ (k + 1) - 1 = k
  <2>1. N \in Nat
    BY <1>1, MarksAre
  <2> QED BY <2>1
<1>3. m \in 1 .. (e - p)
  BY <1>1, FieldBetween
<1>4. /\ n \in (m + 1) .. (e - p + 1)
      /\ \A i \in (m + 1) .. (n - 1) : IsDigit(a[i])
      /\ n = e - p + 1 <=> k + 1 = N
  <2> DEFINE next == k + 1
  <2>1. next \in 1 .. N /\ next - 1 = k
    BY <1>2
  <2> HIDE DEF next
  <2>2. /\ Mark(a, next) \in (Mark(a, next - 1) + 1) .. (Len(a) + 1)
        /\ \A i \in (Mark(a, next - 1) + 1) .. (Mark(a, next) - 1) : IsDigit(a[i])
        /\ Mark(a, next) = Len(a) + 1 <=> next = N
    BY <1>1, <2>1, FieldBetween
  <2> QED BY <1>1, <2>1, <2>2 DEF next
<1>5. Field(a, k + 1) = <<>> <=> n = m + 1
  <2> DEFINE s == SubSeq(a, m + 1, n - 1)
  <2>1. Field(a, k + 1) = s
    BY <1>2 DEF Field
  <2> HIDE DEF m, n
  <2>2. m + 1 \in Int /\ n - 1 \in Int /\ \A i \in (m + 1) .. (n - 1) : i \in 1 .. (e - p)
    BY <1>1, <1>3, <1>4
  <2>3. \A i \in (m + 1) .. (n - 1) : a[i] \in STRING
    BY <1>1, <2>2 DEF Texts
  <2>4. /\ s \in Seq(STRING)
        /\ Len(s) = IF m + 1 <= n - 1 THEN (n - 1) - (m + 1) + 1 ELSE 0
    BY <2>2, <2>3, SubSeqProperties
  <2> HIDE DEF s
  <2>5. s = <<>> <=> Len(s) = 0
    BY <2>4, EmptySeq
  <2>6. Len(s) = 0 <=> n = m + 1
    BY <1>1, <1>3, <1>4, <2>4
  <2> QED BY <2>1, <2>5, <2>6
<1> HIDE DEF m, n, N
<1>6. /\ q \in p .. e /\ q \in Nat /\ q <= e
      /\ m \in Nat /\ n \in Nat /\ m < n
  <2> HIDE DEF len
  <2> QED BY <1>1, <1>3, <1>4
<1>7. /\ After(f, q, 1) = IF q + 1 <= len THEN q + 1 ELSE len
      /\ ReadsOneOf(f, q, set) <=> q < len /\ f[q + 1] \in set
  BY DEF After, ReadsOneOf
<1> DEFINE Follows == IF k + 1 = N THEN e < len /\ Newline \in set ELSE a[n] \in set
<1>8. After(f, q, 1) \in p .. to
  <2>1. to = e + 1 \/ e = len
    BY DEF IsArguments
  <2> HIDE DEF q, len
  <2> QED BY <1>1, <1>6, <1>7, <2>1
<1>9. ReadsOneOf(f, q, set) => After(f, q, 1) = q + 1
  <2> HIDE DEF q, len
  <2> QED BY <1>1, <1>6, <1>7
<1>10. CASE n = m + 1 /\ k + 1 # N
  <2>1. n \in 1 .. (e - p) /\ p + n = q + 1 /\ q < len
    <3> HIDE DEF len
    <3> QED BY <1>1, <1>3, <1>4, <1>10
  <2>2. f[q + 1] = a[n]
    BY <1>1, <2>1
  <2>3. ReadsOneOf(f, q, set) <=> a[n] \in set
    BY <1>7, <2>1, <2>2
  <2> QED BY <1>2, <1>5, <1>6, <1>8, <1>9, <1>10, <2>3 DEF m, n, N
<1>11. CASE n = m + 1 /\ k + 1 = N
  <2>1. q = e
    <3> HIDE DEF len
    <3> QED BY <1>1, <1>3, <1>4, <1>11
  <2>2. e < len => f[q + 1] = Newline
    BY <2>1 DEF IsArguments
  <2>3. ReadsOneOf(f, q, set) <=> e < len /\ Newline \in set
    BY <1>7, <2>1, <2>2
  <2> QED BY <1>2, <1>5, <1>6, <1>8, <1>9, <1>11, <2>1, <2>3 DEF m, n, N
<1>12. CASE n # m + 1
  <2>1. m + 1 \in (m + 1) .. (n - 1) /\ m + 1 \in 1 .. (e - p) /\ p + (m + 1) = q + 1
    BY <1>1, <1>3, <1>4, <1>6, <1>12
  <2>2. IsDigit(f[q + 1])
    BY <1>1, <1>4, <2>1
  <2>3. ~ ReadsOneOf(f, q, set)
    BY <1>7, <2>2
  <2> QED BY <1>2, <1>5, <1>6, <1>8, <1>9, <1>12, <2>3 DEF m, n, N
<1> QED BY <1>10, <1>11, <1>12

(* One turn of the loop over seats reads the i-th seat.                    *)
LEMMA SeatNumbers ==
  ASSUME NEW f \in Texts, NEW p, NEW e, NEW to, NEW a, IsArguments(f, p, e, to, a),
         NEW stale \in DigitRuns, NEW k \in Nat, k \in 1 .. Fields(a), k # Fields(a),
         NEW pos \in 0 .. Len(f), pos = p + Mark(a, k), NEW ends, DOMAIN ends = 1 .. 2,
         ends[1] = {Comma}, ends[2] = {")"}, NEW n, n = Numbers(f, pos, ends, stale)
  PROVE  /\ n \in NumberStates(f) /\ n.at \in p .. to
         /\ n.ok <=> /\ k + 2 \in 1 .. Fields(a) /\ k + 2 # Fields(a)
                     /\ Fits(a, k + 1) /\ a[Mark(a, k + 1)] = Comma
                     /\ Fits(a, k + 2) /\ a[Mark(a, k + 2)] = ")"
         /\ n.ok => /\ n.at = p + Mark(a, k + 2)
                    /\ n.values = <<Value(a, k + 1), Value(a, k + 2)>>
<1> DEFINE N == Fields(a)
           s0 == NoNumbers(pos)
           s1 == OneNumber(f, stale, s0, {Comma})
           s2 == OneNumber(f, stale, s1, {")"})
           k1 == k + 1
           k2 == k + 2
<1>1. /\ p \in Nat /\ a \in Texts /\ e \in Nat /\ p <= e /\ e <= Len(f) /\ to \in e .. Len(f)
      /\ Len(a) = e - p /\ Len(f) \in Nat
  BY ArgumentsAre
<1>2. N \in Nat /\ k1 \in 1 .. N /\ k1 - 1 = k /\ k2 - 1 = k1
      /\ (k2 \in 1 .. N <=> k1 # N) /\ k1 \in Nat /\ k2 \in Nat
  <2>1. N \in Nat
    BY <1>1, MarksAre
  <2> QED BY <2>1
<1>4. s0 \in NumberStates(f) /\ n = s2
  <2>2. /\ NoNumbers(pos) \in NumberStates(f)
        /\ Numbers(f, pos, ends, stale) =
             OneNumber(f, stale, OneNumber(f, stale, NoNumbers(pos), ends[1]), ends[2])
    <3> HIDE DEF s0, s1, s2, N, k1, k2
    <3> QED BY ONLY TwoTurns, f \in Texts, stale \in DigitRuns, pos \in 0 .. Len(f), DOMAIN ends = 1 .. 2
  <2>3. Numbers(f, pos, ends, stale) = s2
    BY <2>2
  <2> QED BY <2>2, <2>3
<1>5. s0.ok /\ s0.at = p + Mark(a, k1 - 1) /\ s0.values = <<>>
  BY <1>2 DEF NoNumbers
<1>6. /\ ~ \E c \in {Comma} : c \in LineEnd
      /\ ~ \E c \in {")"} : c \in LineEnd
  BY DEF LineEnd, Newline, Nul, Comma
<1> HIDE DEF N, s0, k1, k2
<1>7. /\ s1 \in NumberStates(f) /\ s1.at \in p .. to
      /\ k1 # N => /\ s1.at = p + Mark(a, k1)
                   /\ s1.ok <=> Fits(a, k1) /\ a[Mark(a, k1)] \in {Comma}
      /\ k1 = N => s1.at = to /\ ~ s1.ok
      /\ \E x \in Nat : /\ s1.values = Append(<<>>, x)
                        /\ k1 # N => x = Value(a, k1)
  BY <1>2, <1>4, <1>5, <1>6, ReadsOneField DEF N
<1> HIDE DEF s1
<1>8. CASE ~ s1.ok
  <2>1. s2 = s1
    BY <1>8 DEF OneNumber
  <2>2. ~ (/\ k2 \in 1 .. N /\ k2 # N
           /\ Fits(a, k1) /\ a[Mark(a, k1)] = Comma)
    BY <1>2, <1>7, <1>8
  <2> HIDE DEF s2
  <2> QED BY <1>4, <1>7, <1>8, <2>1, <2>2 DEF N, k1, k2
<1>9. CASE s1.ok
  <2>1. k1 # N /\ k2 \in 1 .. N /\ s1.at = p + Mark(a, k2 - 1)
        /\ Fits(a, k1) /\ a[Mark(a, k1)] = Comma
    BY <1>2, <1>7, <1>9
  <2>2. /\ s2 \in NumberStates(f) /\ s2.at \in p .. to
        /\ k2 # N => /\ s2.at = p + Mark(a, k2)
                     /\ s2.ok <=> Fits(a, k2) /\ a[Mark(a, k2)] \in {")"}
        /\ k2 = N => s2.at = to /\ ~ s2.ok
        /\ \E x \in Nat : /\ s2.values = Append(s1.values, x)
                          /\ k2 # N => x = Value(a, k2)
    <3>1. s1 \in NumberStates(f)
      BY <1>7
    <3> QED BY <1>6, <1>9, <2>1, <3>1, ReadsOneField DEF N
  <2> HIDE DEF s2
  <2>3. s2.ok <=> k2 # N /\ Fits(a, k2) /\ a[Mark(a, k2)] = ")"
    BY <2>2
  <2>4. s2.ok => s2.at = p + Mark(a, k2)
    BY <2>2
  <2>5. s2.ok => s2.values = <<Value(a, k1), Value(a, k2)>>
    <3> SUFFICES ASSUME s2.ok PROVE s2.values = <<Value(a, k1), Value(a, k2)>>
      OBVIOUS
    <3>1. PICK x \in Nat : s1.values = Append(<<>>, x) /\ x = Value(a, k1)
      BY <1>7, <2>1
    <3>2. PICK y \in Nat : s2.values = Append(s1.values, y) /\ y = Value(a, k2)
      BY <2>2
    <3> DEFINE u1 == s1.values
               u2 == s2.values
    <3>3. <<>> \in Seq(Nat) /\ Len(<<>>) = 0 /\ x \in Nat /\ y \in Nat
      BY <3>1
    <3>4. u1 \in Seq(Nat) /\ Len(u1) = 1 /\ u1[1] = x
      BY <3>1, <3>3, AppendProperties
    <3> HIDE DEF u1
    <3>5. u2 \in Seq(Nat) /\ Len(u2) = 2 /\ u2[1] = x /\ u2[2] = y
      <4>1. u2 = Append(u1, y)
        BY <3>2 DEF u1
      <4> HIDE DEF u2
      <4>2. /\ Append(u1, y) \in Seq(Nat) /\ Len(Append(u1, y)) = Len(u1) + 1
            /\ \A i \in 1 .. Len(u1) : Append(u1, y)[i] = u1[i]
            /\ Append(u1, y)[Len(u1) + 1] = y
        <5>1. u1 \in Seq(Nat) /\ y \in Nat
          BY <3>3, <3>4
        <5> QED BY <5>1, AppendProperties
      <4> QED BY <3>4, <4>1, <4>2
    <3> HIDE DEF u2
    <3>6. u2 = <<u2[1], u2[2]>>
      BY <3>5
    <3> QED BY <3>1, <3>2, <3>5, <3>6 DEF u2
  <2> QED BY <1>4, <2>1, <2>2, <2>3, <2>4, <2>5 DEF N, k1, k2
<1> QED BY <1>8, <1>9

Pair(a, i) == <<Value(a, 4 * i), Value(a, 4 * i + 1)>>

LEMMA SeatedGrows ==
  ASSUME NEW a, NEW n \in Nat
  PROVE  /\ Len(Seated(a, n)) = n
         /\ Seated(a, 0) = <<>>
         /\ Append(Seated(a, n), Pair(a, n + 1)) = Seated(a, n + 1)
<1> DEFINE V == {Pair(a, i) : i \in Nat}
           S(m) == [i \in 1 .. m |-> Pair(a, i)]
<1>1. \A m \in Nat : Seated(a, m) = S(m)
  BY DEF Seated, Pair
<1>2. ASSUME NEW m \in Nat
      PROVE  S(m) \in Seq(V) /\ Len(S(m)) = m /\ \A i \in 1 .. m : S(m)[i] = Pair(a, i)
  <2>1. S(m) \in [1 .. m -> V] /\ DOMAIN S(m) = 1 .. m
    OBVIOUS
  <2>2. \A i \in 1 .. m : S(m)[i] = Pair(a, i)
    OBVIOUS
  <2> HIDE DEF S, V
  <2>3. S(m) \in Seq(V)
    BY <2>1, SeqDef
  <2>4. Len(S(m)) = m
    BY <2>1, <2>3, LenProperties
  <2> QED BY <2>2, <2>3, <2>4
<1>3. Pair(a, n + 1) \in V /\ n + 1 \in Nat
  OBVIOUS
<1>4. S(0) = <<>>
  OBVIOUS
<1> DEFINE y == Pair(a, n + 1)
           r == Append(S(n), y)
<1> HIDE DEF S, V, y
<1>5. S(n) \in Seq(V) /\ Len(S(n)) = n /\ y \in V
  BY <1>2, <1>3 DEF y
<1>6. /\ r \in Seq(V) /\ Len(r) = Len(S(n)) + 1
      /\ \A i \in 1 .. Len(S(n)) : r[i] = S(n)[i]
      /\ r[Len(S(n)) + 1] = y
  BY <1>5, AppendProperties
<1> HIDE DEF r
<1>7. S(n + 1) \in Seq(V) /\ Len(S(n + 1)) = n + 1
  BY <1>2, <1>3
<1>8. ASSUME NEW i \in 1 .. (n + 1)
      PROVE  r[i] = S(n + 1)[i]
  <2>1. S(n + 1)[i] = Pair(a, i)
    BY <1>2, <1>3
  <2>2. CASE i = n + 1
    BY <1>5, <1>6, <2>1, <2>2 DEF y
  <2>3. CASE i # n + 1
    <3>1. i \in 1 .. n
      BY <2>3
    <3>2. S(n)[i] = Pair(a, i)
      BY <1>2, <3>1
    <3> QED BY <1>5, <1>6, <2>1, <3>1, <3>2
  <2> QED BY <2>2, <2>3
<1>9. r = S(n + 1)
  BY <1>5, <1>6, <1>7, <1>8, SeqEqual
<1> QED BY <1>1, <1>3, <1>4, <1>5, <1>9 DEF r, y

(* One turn of the loop over seats reads the i-th seat, after its mark.    *)
SeatMark(i) == 4 * i - 2

LEMMA SeatReads ==
  ASSUME NEW f \in Texts, NEW p, NEW e, NEW to, NEW a, IsArguments(f, p, e, to, a),
         NEW stale \in DigitRuns, NEW i \in Nat,
         SeatMark(i) \in 1 .. Fields(a), SeatMark(i) # Fields(a),
         NEW s \in SeatStates(f), s.at = p + Mark(a, SeatMark(i)),
         NEW t, t = Seat(f, s, stale)
  PROVE  /\ t.at \in p .. to
         /\ t.ok => /\ SeatMark(i) + 4 \in 1 .. Fields(a) /\ SeatMark(i) + 4 # Fields(a)
                    /\ t.at = p + Mark(a, SeatMark(i) + 4)
                    /\ IsSeat(a, i, IF t.closed THEN "]" ELSE Blank)
                    /\ t.seats = Append(s.seats, Pair(a, i))
         /\ ~ t.ok /\ SeatMark(i) + 4 \in 1 .. Fields(a) /\ SeatMark(i) + 4 # Fields(a) =>
              ~ IsSeat(a, i, "]") /\ ~ IsSeat(a, i, Blank)
<1> DEFINE k == SeatMark(i)
           N == Fields(a)
           k1 == k + 1
           k2 == k + 2
           k3 == k + 3
           k4 == k + 4
           Next4 == Field(a, k4) = <<>> /\ k4 \in 1 .. N /\ k4 # N
           Inner == /\ k3 \in 1 .. N /\ k3 # N
                    /\ Fits(a, k2) /\ a[Mark(a, k2)] = Comma
                    /\ Fits(a, k3) /\ a[Mark(a, k3)] = ")"
           Opens == Field(a, k1) = <<>> /\ k1 # N /\ a[Mark(a, k1)] = "("
<1>0. /\ k = 4 * i - 2 /\ k \in Nat /\ k \in 1 .. N /\ k # N /\ s.at = p + Mark(a, k)
      /\ k \in 1 .. Fields(a) /\ k # Fields(a)
  BY DEF SeatMark
<1> HIDE DEF k
<1>1. /\ p \in Nat /\ a \in Texts /\ e \in Nat /\ p <= e /\ e <= Len(f) /\ to \in e .. Len(f)
      /\ Len(a) = e - p /\ Len(f) \in Nat
  BY ArgumentsAre
<1>2. /\ N \in Nat /\ k1 \in 1 .. N /\ k1 \in Nat /\ k2 \in Nat /\ k3 \in Nat /\ k4 \in Nat
      /\ k1 + 1 = k2 /\ k1 + 2 = k3 /\ k3 + 1 = k4
      /\ k1 = 4 * i - 1 /\ k2 = 4 * i /\ k3 = 4 * i + 1 /\ k4 = 4 * i + 2
      /\ (k4 \in 1 .. N => k1 # N /\ k3 \in 1 .. N /\ k3 # N)
  <2>1. N \in Nat
    BY <1>1, MarksAre
  <2> QED BY <1>0, <2>1
<1>3. \A c \in {Newline, Nul, Blank, "(", Comma, ")", "[", "]"} : ~ IsDigit(c)
  BY WordsAssumption
<1>4. ASSUME NEW next
      PROVE  IsSeat(a, i, next) <=>
               /\ Field(a, k1) = <<>> /\ a[Mark(a, k1)] = "("
               /\ Fits(a, k2) /\ a[Mark(a, k2)] = Comma
               /\ Fits(a, k3) /\ a[Mark(a, k3)] = ")"
               /\ Field(a, k4) = <<>> /\ a[Mark(a, k4)] = next
  <2> HIDE DEF k1, k2, k3, k4
  <2> QED BY <1>2 DEF IsSeat, EndsWith
<1>5. /\ After(f, s.at, 1) \in p .. to
      /\ ReadsOneOf(f, s.at, {"("}) <=> Opens
      /\ ReadsOneOf(f, s.at, {"("}) => s.at + 1 = p + Mark(a, k1)
  <2> DEFINE set == {"("}
  <2>1. \A c \in set : ~ IsDigit(c)
    BY <1>3
  <2>2. Newline \notin set /\ \A c : c \in set <=> c = "("
    BY DEF Newline
  <2> HIDE DEF set
  <2>3. /\ After(f, p + Mark(a, k), 1) \in p .. to
        /\ ReadsOneOf(f, p + Mark(a, k), set) <=>
              /\ Field(a, k + 1) = <<>>
              /\ IF k + 1 = N THEN e < Len(f) /\ Newline \in set
                              ELSE a[Mark(a, k + 1)] \in set
        /\ Field(a, k + 1) = <<>> => Mark(a, k + 1) = Mark(a, k) + 1
        /\ p + Mark(a, k) \in p .. e
    <3> HIDE DEF k1, k2, k3, k4, Opens, Inner, Next4
    <3> QED BY ONLY <1>0, <2>1, ReadsNext, f \in Texts, IsArguments(f, p, e, to, a)
  <2>4. Mark(a, k) \in Nat
    <3>1. Mark(a, k) \in 1 .. Len(a)
      BY <1>0, <1>1, FieldBetween
    <3> QED BY <1>1, <3>1
  <2>5. ReadsOneOf(f, s.at, set) <=> Opens
    BY <1>0, <2>2, <2>3
  <2>6. Opens => s.at + 1 = p + Mark(a, k1)
    BY <1>0, <1>1, <2>3, <2>4
  <2> QED BY <1>0, <2>3, <2>5, <2>6 DEF set
<1> HIDE DEF N, k1, k2, k3, k4, Opens
<1>6. CASE ~ ReadsOneOf(f, s.at, {"("})
  <2>1. t.at = After(f, s.at, 1) /\ t.ok = FALSE
    <3>1. t = [s EXCEPT !.at = After(f, s.at, 1), !.ok = FALSE]
      BY <1>6 DEF Seat
    <3>2. s \in [at : 0 .. Len(f), ok : BOOLEAN, closed : BOOLEAN, seats : SeatLists]
      BY DEF SeatStates
    <3> QED BY <3>1, <3>2
  <2>2. k4 \in 1 .. N => ~ IsSeat(a, i, "]") /\ ~ IsSeat(a, i, Blank)
    BY <1>2, <1>4, <1>5, <1>6 DEF Opens
  <2> QED BY <1>5, <2>1, <2>2 DEF N, k4, k
<1>7. CASE ReadsOneOf(f, s.at, {"("})
  <2> DEFINE ends == <<{Comma}, {")"}>>
             pos == s.at + 1
             n == Numbers(f, pos, ends, stale)
  <2>1. t = WithSeat(f, s, n)
    BY <1>7 DEF Seat
  <2>2. DOMAIN ends = 1 .. 2 /\ ends[1] = {Comma} /\ ends[2] = {")"}
    OBVIOUS
  <2>3. pos \in 0 .. Len(f) /\ pos = p + Mark(a, k1) /\ k1 # N
    <3>1. s.at \in 0 .. Len(f) /\ s.at < Len(f)
      BY <1>7 DEF ReadsOneOf, SeatStates
    <3>2. pos \in 0 .. Len(f)
      BY <1>1, <3>1
    <3> QED BY <1>5, <1>7, <3>2 DEF Opens
  <2> HIDE DEF ends, pos
  <2>4. /\ n \in NumberStates(f) /\ n.at \in p .. to
        /\ n.ok <=> Inner
        /\ n.ok => n.at = p + Mark(a, k3) /\ n.values = <<Value(a, k2), Value(a, k3)>>
    <3>1. k1 \in Nat /\ k1 \in 1 .. Fields(a) /\ k1 # Fields(a) /\ k1 + 1 = k2 /\ k1 + 2 = k3
      BY <1>2, <2>3 DEF N
    <3>2. /\ n \in NumberStates(f) /\ n.at \in p .. to
          /\ n.ok <=> /\ k1 + 2 \in 1 .. Fields(a) /\ k1 + 2 # Fields(a)
                      /\ Fits(a, k1 + 1) /\ a[Mark(a, k1 + 1)] = Comma
                      /\ Fits(a, k1 + 2) /\ a[Mark(a, k1 + 2)] = ")"
          /\ n.ok => /\ n.at = p + Mark(a, k1 + 2)
                     /\ n.values = <<Value(a, k1 + 1), Value(a, k1 + 2)>>
      BY <2>2, <2>3, <3>1, SeatNumbers
    <3> HIDE DEF n
    <3> QED BY <3>1, <3>2 DEF N
  <2> HIDE DEF n
  <2>5. /\ t.at = IF n.ok THEN After(f, n.at, 1) ELSE n.at
        /\ t.ok = (n.ok /\ ReadsOneOf(f, n.at, {Blank, "]"}))
        /\ t.closed = (n.ok /\ ReadsOneOf(f, n.at, {"]"}))
        /\ t.seats = Append(s.seats, n.values)
    BY <2>1 DEF WithSeat
  <2>6. CASE ~ n.ok
    <3>1. k4 \in 1 .. N => ~ IsSeat(a, i, "]") /\ ~ IsSeat(a, i, Blank)
      BY <1>2, <1>4, <2>4, <2>6
    <3>2. t.at \in p .. to /\ ~ t.ok
      BY <2>4, <2>5, <2>6
    <3> QED BY <3>1, <3>2 DEF N, k4, k
  <2>7. CASE n.ok
    <3>1. k3 \in 1 .. Fields(a) /\ k3 # Fields(a) /\ n.at = p + Mark(a, k3)
      BY <2>4, <2>7 DEF N
    <3>2. ASSUME NEW set, set \subseteq {Blank, "]"}
          PROVE  /\ k4 \in 1 .. N /\ After(f, n.at, 1) \in p .. to
                 /\ ReadsOneOf(f, n.at, set) <=> Next4 /\ a[Mark(a, k4)] \in set
                 /\ ReadsOneOf(f, n.at, set) => After(f, n.at, 1) = p + Mark(a, k4)
      <4>1. (\A c \in set : ~ IsDigit(c)) /\ Newline \notin set
        BY <1>3, <3>2 DEF Newline, Blank
      <4>2. /\ k3 + 1 \in 1 .. Fields(a) /\ p + Mark(a, k3) \in p .. e
            /\ After(f, p + Mark(a, k3), 1) \in p .. to
            /\ ReadsOneOf(f, p + Mark(a, k3), set) <=>
                 /\ Field(a, k3 + 1) = <<>>
                 /\ IF k3 + 1 = Fields(a) THEN e < Len(f) /\ Newline \in set
                                          ELSE a[Mark(a, k3 + 1)] \in set
            /\ Field(a, k3 + 1) = <<>> => Mark(a, k3 + 1) = Mark(a, k3) + 1
            /\ ReadsOneOf(f, p + Mark(a, k3), set) =>
                 After(f, p + Mark(a, k3), 1) = p + Mark(a, k3) + 1
        BY <3>1, <4>1, ReadsNext
      <4>3. Mark(a, k3) \in Nat
        <5>1. Mark(a, k3) \in 1 .. Len(a)
          BY <1>1, <3>1, FieldBetween
        <5> QED BY <1>1, <5>1
      <4>4. k4 \in 1 .. N /\ (ReadsOneOf(f, n.at, set) <=> Next4 /\ a[Mark(a, k4)] \in set)
        BY <1>2, <3>1, <4>1, <4>2 DEF N
      <4>5. ReadsOneOf(f, n.at, set) => After(f, n.at, 1) = p + Mark(a, k4)
        <5>1. Field(a, k4) = <<>> => Mark(a, k4) = Mark(a, k3) + 1
          BY <1>2, <4>2
        <5> QED BY <1>1, <3>1, <4>2, <4>3, <4>4, <5>1
      <4> QED BY <3>1, <4>2, <4>4, <4>5
    <3>3. /\ k4 \in 1 .. N /\ After(f, n.at, 1) \in p .. to
          /\ t.ok <=> Next4 /\ a[Mark(a, k4)] \in {Blank, "]"}
          /\ t.ok => After(f, n.at, 1) = p + Mark(a, k4)
      BY <2>5, <2>7, <3>2
    <3>4. t.closed <=> Next4 /\ a[Mark(a, k4)] \in {"]"}
      BY <2>5, <2>7, <3>2
    <3>5. t.ok => IsSeat(a, i, IF t.closed THEN "]" ELSE Blank)
      <4>1. t.ok => a[Mark(a, k4)] = IF t.closed THEN "]" ELSE Blank
        BY <3>3, <3>4
      <4> QED BY <1>4, <1>5, <1>7, <2>4, <2>7, <3>3, <4>1 DEF Opens
    <3>6. t.ok => t.at = p + Mark(a, k4) /\ t.seats = Append(s.seats, Pair(a, i))
      <4>1. n.values = Pair(a, i)
        BY <1>2, <2>4, <2>7 DEF Pair
      <4> QED BY <2>5, <2>7, <3>3, <4>1
    <3>7. ~ t.ok /\ k4 # N => ~ IsSeat(a, i, "]") /\ ~ IsSeat(a, i, Blank)
      BY <1>4, <3>3
    <3>8. t.at \in p .. to
      BY <2>5, <2>7, <3>3
    <3> QED BY <3>3, <3>5, <3>6, <3>7, <3>8 DEF N, k4, k
  <2> QED BY <2>6, <2>7
<1> QED BY <1>6, <1>7

(* What the loop has read after k turns, from mark 2 on, where the list    *)
(* opens: it goes on after k seats, or one of them was the last, or there  *)
(* is no list of seats.                                                    *)
IsListed(a, p, s, j, next) ==
  /\ 4 * j + 2 \in 1 .. Fields(a) /\ 4 * j + 2 # Fields(a)
  /\ s.at = p + Mark(a, 4 * j + 2) /\ s.seats = Seated(a, j)
  /\ \A i \in 1 .. j : IsSeat(a, i, IF i = j THEN next ELSE Blank)
ListRead(f, p, to, a, s, k) ==
  /\ s \in SeatStates(f) /\ s.at \in p .. to
  /\ s.ok /\ ~ s.closed => IsListed(a, p, s, k, Blank)
  /\ s.ok /\ s.closed => \E j \in 1 .. k : IsListed(a, p, s, j, "]")
  /\ ~ s.ok => \A n \in Nat \ {0} : ~ IsReserve(a, n)

(* A list has one length.                                                  *)
LEMMA OneList ==
  ASSUME NEW a, NEW n \in Nat \ {0}, IsReserve(a, n), NEW j \in Nat, NEW next,
         next \in {Blank, "]"}, \A i \in 1 .. j : IsSeat(a, i, IF i = j THEN next ELSE Blank)
  PROVE  /\ j <= n /\ 4 * j + 2 <= 4 * n + 3
         /\ next = "]" /\ j # 0 => j = n
         /\ next = Blank => j < n
<1>1. \A i \in 1 .. n : IsSeat(a, i, IF i = n THEN "]" ELSE Blank)
  BY DEF IsReserve
<1>2. ASSUME NEW i, IsSeat(a, i, "]"), IsSeat(a, i, Blank)
      PROVE  FALSE
  BY <1>2 DEF IsSeat, EndsWith, Blank
<1>3. ~ (n < j)
  <2>1. ASSUME n < j PROVE FALSE
    <3>1. n \in 1 .. j /\ n # j /\ n \in 1 .. n
      BY <2>1
    <3> QED BY <1>1, <1>2, <3>1
  <2> QED BY <2>1
<1>4. ASSUME next = "]", j # 0 PROVE j = n
  <2>1. ASSUME j < n PROVE FALSE
    <3>1. j \in 1 .. j /\ j \in 1 .. n /\ j # n
      BY <1>4, <2>1
    <3> QED BY <1>1, <1>2, <1>4, <3>1
  <2> QED BY <1>3, <2>1
<1>5. ASSUME next = Blank PROVE j < n
  <2>1. ASSUME j = n PROVE FALSE
    <3>1. n \in 1 .. j /\ n \in 1 .. n
      BY <2>1
    <3> QED BY <1>1, <1>2, <1>5, <2>1, <3>1
  <2> QED BY <1>3, <2>1
<1> QED BY <1>3, <1>4, <1>5

LEMMA ListGrows ==
  ASSUME NEW f \in Texts, NEW p, NEW e, NEW to, NEW a, IsArguments(f, p, e, to, a),
         NEW stale \in DigitRuns, NEW j \in Nat, NEW s, ListRead(f, p, to, a, s, j)
  PROVE  ListRead(f, p, to, a, OneSeat(f, stale, s), j + 1)
<1> DEFINE t == OneSeat(f, stale, s)
           i == j + 1
           N == Fields(a)
           k == 4 * j + 2
<1>1. i \in Nat /\ i # 0 /\ k \in Nat /\ k = 4 * i - 2 /\ k + 4 = 4 * i + 2 /\ N \in Nat
  <2>1. N \in Nat
    BY ArgumentsAre, MarksAre
  <2> QED BY <2>1
<1>2. s \in SeatStates(f) /\ s.at \in p .. to
  BY DEF ListRead
<1>3. CASE ~ (s.ok /\ ~ s.closed)
  <2>1. t = s
    BY <1>3 DEF OneSeat
  <2>2. 1 .. j \subseteq 1 .. (j + 1)
    OBVIOUS
  <2> HIDE DEF t
  <2> QED BY <1>3, <2>1, <2>2 DEF ListRead, t
<1>4. CASE s.ok /\ ~ s.closed
  <2>1. t = Seat(f, s, stale)
    BY <1>4 DEF OneSeat
  <2>2. /\ k \in 1 .. N /\ k # N /\ s.at = p + Mark(a, k) /\ s.seats = Seated(a, j)
        /\ \A h \in 1 .. j : IsSeat(a, h, Blank)
    BY <1>4 DEF ListRead, IsListed
  <2>3. t \in SeatStates(f)
    BY <1>2, <2>1, SeatStep
  <2> HIDE DEF t, i, k, N
  <2>4. /\ t.at \in p .. to
        /\ t.ok => /\ k + 4 \in 1 .. N /\ k + 4 # N
                   /\ t.at = p + Mark(a, k + 4)
                   /\ IsSeat(a, i, IF t.closed THEN "]" ELSE Blank)
                   /\ t.seats = Append(s.seats, Pair(a, i))
        /\ ~ t.ok /\ k + 4 \in 1 .. N /\ k + 4 # N =>
             ~ IsSeat(a, i, "]") /\ ~ IsSeat(a, i, Blank)
    <3>1. k \in 1 .. Fields(a) /\ k # Fields(a)
      BY <2>2 DEF N
    <3>2. /\ t.at \in p .. to
          /\ t.ok => /\ k + 4 \in 1 .. Fields(a) /\ k + 4 # Fields(a)
                     /\ t.at = p + Mark(a, k + 4)
                     /\ IsSeat(a, i, IF t.closed THEN "]" ELSE Blank)
                     /\ t.seats = Append(s.seats, Pair(a, i))
          /\ ~ t.ok /\ k + 4 \in 1 .. Fields(a) /\ k + 4 # Fields(a) =>
               ~ IsSeat(a, i, "]") /\ ~ IsSeat(a, i, Blank)
      <4>1. k = SeatMark(i) /\ i \in Nat
        BY <1>1 DEF SeatMark
      <4>2. /\ SeatMark(i) \in 1 .. Fields(a) /\ SeatMark(i) # Fields(a)
            /\ s \in SeatStates(f) /\ s.at = p + Mark(a, SeatMark(i)) /\ t = Seat(f, s, stale)
        BY <1>2, <2>1, <2>2, <3>1, <4>1
      <4>3. /\ t.at \in p .. to
            /\ t.ok => /\ SeatMark(i) + 4 \in 1 .. Fields(a) /\ SeatMark(i) + 4 # Fields(a)
                       /\ t.at = p + Mark(a, SeatMark(i) + 4)
                       /\ IsSeat(a, i, IF t.closed THEN "]" ELSE Blank)
                       /\ t.seats = Append(s.seats, Pair(a, i))
            /\ ~ t.ok /\ SeatMark(i) + 4 \in 1 .. Fields(a) /\ SeatMark(i) + 4 # Fields(a) =>
                 ~ IsSeat(a, i, "]") /\ ~ IsSeat(a, i, Blank)
        BY ONLY <4>1, <4>2, SeatReads, f \in Texts, IsArguments(f, p, e, to, a),
                stale \in DigitRuns
      <4> QED BY <4>1, <4>3
    <3> QED BY <3>2 DEF N
  <2>5. t.ok => t.seats = Seated(a, i)
    BY <2>2, <2>4, SeatedGrows DEF i
  <2>6. ASSUME NEW next, IsSeat(a, i, next)
        PROVE  \A h \in 1 .. i : IsSeat(a, h, IF h = i THEN next ELSE Blank)
    <3>1. \A h \in 1 .. i : h = i \/ h \in 1 .. j
      BY DEF i
    <3> QED BY <2>2, <2>6, <3>1
  <2>7. ASSUME t.ok
        PROVE  IsListed(a, p, t, i, IF t.closed THEN "]" ELSE Blank)
    <3>1. 4 * i + 2 \in 1 .. N /\ 4 * i + 2 # N /\ t.at = p + Mark(a, 4 * i + 2)
      BY <1>1, <2>4, <2>7
    <3>2. \A h \in 1 .. i : IsSeat(a, h, IF h = i THEN (IF t.closed THEN "]" ELSE Blank)
                                                   ELSE Blank)
      BY <2>4, <2>6, <2>7
    <3> QED BY <2>5, <2>7, <3>1, <3>2 DEF IsListed, N
  <2>8. ASSUME ~ t.ok, NEW n \in Nat \ {0}, IsReserve(a, n)
        PROVE  FALSE
    <3>1. j < n
      <4>1. \A h \in 1 .. j : IsSeat(a, h, IF h = j THEN Blank ELSE Blank)
        BY <2>2
      <4> QED BY <2>8, <4>1, OneList
    <3>2. i \in 1 .. n /\ N = 4 * n + 3
      BY <1>1, <2>8, <3>1 DEF IsReserve, N, i
    <3>3. k + 4 \in 1 .. N /\ k + 4 # N
      BY <1>1, <3>2
    <3>4. IsSeat(a, i, IF i = n THEN "]" ELSE Blank)
      BY <2>8, <3>2 DEF IsReserve
    <3> QED BY <2>4, <2>8, <3>3, <3>4
  <2>9. i \in 1 .. i
    BY <1>1
  <2>10. ListRead(f, p, to, a, t, i)
    BY <2>3, <2>4, <2>7, <2>8, <2>9 DEF ListRead
  <2> QED BY <2>10 DEF t, i
<1> QED BY <1>3, <1>4

LEMMA ListReads ==
  ASSUME NEW f \in Texts, NEW p, NEW e, NEW to, NEW a, IsArguments(f, p, e, to, a),
         NEW stale \in DigitRuns, 2 \in 1 .. Fields(a), 2 # Fields(a),
         NEW pos \in p .. to, pos = p + Mark(a, 2)
  PROVE  ListRead(f, p, to, a, Seats(f, pos, stale), MAX_RESERVATION_SIZE)
<1> DEFINE n == MAX_RESERVATION_SIZE
           Reached(k) == {s \in SeatStates(f) : ListRead(f, p, to, a, s, k)}
           T == [k \in 0 .. n |-> Reached(k)]
<1>0. n \in Nat /\ pos \in 0 .. Len(f)
  <2>1. to \in e .. Len(f) /\ e \in Nat /\ Len(f) \in Nat /\ p \in Nat
    BY ArgumentsAre
  <2> QED BY <2>1, JobParserAssumption
<1>1. PICK run : /\ Seats(f, pos, stale) = run[1 .. n]
                 /\ run[{}] = NoSeats(pos) /\ NoSeats(pos) \in SeatStates(f)
                 /\ \A k \in 1 .. n : run[1 .. k] = OneSeat(f, stale, run[1 .. (k - 1)])
  BY <1>0, SeatsRun
<1>2. NoSeats(pos) \in Reached(0)
  <2> DEFINE s == NoSeats(pos)
  <2>1. s.at = pos /\ s.ok /\ ~ s.closed /\ s.seats = <<>> /\ s \in SeatStates(f)
    BY <1>1 DEF NoSeats
  <2> HIDE DEF s
  <2>2. 4 * 0 + 2 = 2
    OBVIOUS
  <2>3. IsListed(a, p, s, 0, Blank)
    <3>1. s.seats = Seated(a, 0)
      BY <2>1, SeatedGrows
    <3>2. \A i \in 1 .. 0 : FALSE
      OBVIOUS
    <3> QED BY <2>1, <2>2, <3>1, <3>2 DEF IsListed
  <2>4. ListRead(f, p, to, a, s, 0)
    BY <2>1, <2>3 DEF ListRead
  <2> QED BY <2>1, <2>4 DEF s
<1>3. ASSUME NEW k \in 1 .. n, NEW s \in Reached(k - 1)
      PROVE  OneSeat(f, stale, s) \in Reached(k)
  <2> DEFINE j == k - 1
             t == OneSeat(f, stale, s)
  <2>1. j \in Nat /\ j + 1 = k
    OBVIOUS
  <2>2. s \in SeatStates(f) /\ ListRead(f, p, to, a, s, j)
    OBVIOUS
  <2> HIDE DEF j
  <2>3. ListRead(f, p, to, a, t, j + 1)
    BY ONLY <2>1, <2>2, ListGrows, f \in Texts, IsArguments(f, p, e, to, a), stale \in DigitRuns
  <2>4. t \in SeatStates(f)
    BY <2>3 DEF ListRead
  <2> QED BY <2>1, <2>3, <2>4
<1> HIDE DEF Reached, n
<1>4. \A k \in 0 .. n : T[k] = Reached(k)
  OBVIOUS
<1> HIDE DEF T
<1>5. run[{}] \in T[0]
  BY <1>0, <1>1, <1>2, <1>4
<1>6. ASSUME NEW k \in 1 .. n, run[1 .. (k - 1)] \in T[k - 1]
      PROVE  run[1 .. k] \in T[k]
  <2>1. k - 1 \in 0 .. n /\ k \in 0 .. n
    BY <1>0
  <2> QED BY <1>1, <1>3, <1>4, <1>6, <2>1
<1>7. run[1 .. n] \in T[n]
  BY <1>0, <1>5, <1>6, FoldSteps
<1>8. run[1 .. n] \in Reached(n)
  BY <1>0, <1>4, <1>7
<1> QED BY <1>1, <1>8 DEF Reached, n

(* A line that is not read to its end with what it means.                  *)
LEMMA InvalidReads ==
  ASSUME NEW f \in Texts, NEW p, NEW e, NEW to, NEW a, IsArguments(f, p, e, to, a),
         NEW q \in p .. to, NEW known \in BOOLEAN, NEW means,
         known => ~ (e < Len(f)) /\ q >= e
  PROVE  ReadsLine(f, p, e, to, Invalid(f, q), known, means)
<1> DEFINE r == Invalid(f, q)
<1>1. /\ r.cmd = [op |-> "invalid"] /\ r.at = cleanup(f, q)
      /\ ~ (e < Len(f)) /\ q >= e => cleanup(f, q) = to
  BY LastLineStops
<1> HIDE DEF r
<1>2. ReadsLine(f, p, e, to, r, known, means)
  BY <1>1 DEF ReadsLine
<1> QED BY <1>2 DEF r

LEMMA MarksInLine ==
  ASSUME NEW f \in Texts, NEW p, NEW e, NEW to, NEW a, IsArguments(f, p, e, to, a),
         NEW k \in 1 .. Fields(a), k # Fields(a)
  PROVE  a[Mark(a, k)] \notin LineEnd
<1> DEFINE m == Mark(a, k)
<1>1. /\ p \in Nat /\ e \in Nat /\ a \in Texts /\ Len(a) = e - p
      /\ \A i \in 1 .. (e - p) : a[i] = f[p + i]
  BY ArgumentsAre
<1>2. m \in 1 .. (e - p)
  BY <1>1, FieldBetween
<1> HIDE DEF m
<1>3. p + m \in (p + 1) .. e /\ a[m] = f[p + m]
  BY <1>1, <1>2
<1>4. f[p + m] \notin LineEnd
  BY <1>3 DEF IsArguments
<1> QED BY <1>3, <1>4 DEF m

SeatCount(a) == (Fields(a) - 3) \div 4
KnownReserve(a) ==
  SeatCount(a) \in 1 .. MAX_RESERVATION_SIZE - 1 /\ IsReserve(a, SeatCount(a))
ReserveMeans(a) == [op |-> "reserve", id |-> Value(a, 1), seats |-> Seated(a, SeatCount(a))]

LEMMA SeatCountIs ==
  ASSUME NEW a, NEW j \in Nat, Fields(a) = 4 * j + 3
  PROVE  SeatCount(a) = j
<1>1. (4 * j + 3 - 3) \div 4 = j
  OBVIOUS
<1> QED BY <1>1 DEF SeatCount

LEMMA ListEnds ==
  ASSUME NEW f \in Texts, NEW p, NEW e, NEW to, NEW a, IsArguments(f, p, e, to, a),
         Fits(a, 1), EndsWith(a, 1, Blank), Field(a, 2) = <<>>, EndsWith(a, 2, "["),
         NEW s, ListRead(f, p, to, a, s, MAX_RESERVATION_SIZE)
  PROVE  ReadsLine(f, p, e, to, IfSeats(f, Value(a, 1), s), KnownReserve(a), ReserveMeans(a))
<1> DEFINE N == Fields(a)
           M == MAX_RESERVATION_SIZE
           n == SeatCount(a)
           known == KnownReserve(a)
           means == ReserveMeans(a)
           r == IfSeats(f, Value(a, 1), s)
<1>1. /\ p \in Nat /\ a \in Texts /\ e \in Nat /\ e <= Len(f) /\ to \in e .. Len(f)
      /\ Len(f) \in Nat /\ N \in Nat /\ M \in Nat
  BY ArgumentsAre, MarksAre, JobParserAssumption
<1>2. s \in SeatStates(f) /\ s.at \in p .. to
  BY DEF ListRead
<1>3. known \in BOOLEAN /\ (known => n \in Nat \ {0} /\ n < M /\ IsReserve(a, n))
  <2>1. \A x \in 1 .. M - 1 : x \in Nat \ {0} /\ x < M
    BY <1>1
  <2> QED BY <2>1 DEF KnownReserve
<1> HIDE DEF N, M, n, known, means, r
<1>4. ASSUME NEW q \in p .. to, known => ~ (e < Len(f)) /\ q >= e
      PROVE  ReadsLine(f, p, e, to, Invalid(f, q), known, means)
  BY <1>3, <1>4, InvalidReads
<1>5. CASE ~ s.ok
  <2>1. r = Invalid(f, s.at)
    BY <1>5 DEF IfSeats, r
  <2>2. ~ known
    BY <1>3, <1>5 DEF ListRead
  <2> QED BY <1>2, <1>4, <2>1, <2>2 DEF r, known, means
<1>6. CASE s.ok /\ ~ s.closed
  <2>1. IsListed(a, p, s, M, Blank)
    BY <1>6 DEF ListRead, M
  <2>2. Len(s.seats) = M
    BY <1>1, <2>1, SeatedGrows DEF IsListed
  <2>3. r = Invalid(f, s.at)
    BY <2>2 DEF IfSeats, r, M
  <2>4. ~ known
    <3>1. ASSUME known PROVE FALSE
      <4>1. M < n
        <5>1. \A i \in 1 .. M : IsSeat(a, i, IF i = M THEN Blank ELSE Blank)
          BY <2>1 DEF IsListed
        <5> QED BY <1>1, <1>3, <3>1, <5>1, OneList
      <4> QED BY <1>1, <1>3, <3>1, <4>1
    <3> QED BY <3>1
  <2> QED BY <1>2, <1>4, <2>3, <2>4 DEF r, known, means
<1>7. CASE s.ok /\ s.closed
  <2>1. PICK j \in 1 .. M : IsListed(a, p, s, j, "]")
    BY <1>7 DEF ListRead, M
  <2>2. j \in Nat /\ j # 0 /\ j <= M
    BY <1>1
  <2>3. s.seats = Seated(a, j) /\ Len(s.seats) = j
    BY <2>1, <2>2, SeatedGrows DEF IsListed
  <2>4. ASSUME known
        PROVE  j = n
    <3>1. \A i \in 1 .. j : IsSeat(a, i, IF i = j THEN "]" ELSE Blank)
      BY <2>1 DEF IsListed
    <3> QED BY <1>3, <2>2, <2>4, <3>1, OneList
  <2>5. CASE j = M
    <3>1. r = Invalid(f, s.at)
      BY <2>3, <2>5 DEF IfSeats, r, M
    <3>2. ~ known
      BY <1>1, <1>3, <2>4, <2>5
    <3> QED BY <1>2, <1>4, <3>1, <3>2 DEF r, known, means
  <2>6. CASE j # M
    <3> DEFINE k == 4 * j + 2
    <3>1. /\ k \in 1 .. Fields(a) /\ k # Fields(a) /\ s.at = p + Mark(a, k)
          /\ k + 1 = 4 * j + 3 /\ k \in Nat
      BY <2>1, <2>2 DEF IsListed
    <3> HIDE DEF k
    <3>2. /\ k + 1 \in 1 .. Fields(a) /\ p + Mark(a, k) \in p .. e
          /\ After(f, p + Mark(a, k), 1) \in p .. to
          /\ ReadsOneOf(f, p + Mark(a, k), LineEnd) <=>
               /\ Field(a, k + 1) = <<>>
               /\ IF k + 1 = Fields(a) THEN e < Len(f) /\ Newline \in LineEnd
                                       ELSE a[Mark(a, k + 1)] \in LineEnd
          /\ Field(a, k + 1) = <<>> /\ k + 1 = Fields(a) => p + Mark(a, k) = e
      <4>1. \A c \in LineEnd : ~ IsDigit(c)
        BY WordsAssumption DEF LineEnd
      <4>2. k \in 1 .. Fields(a) /\ k # Fields(a)
        BY <3>1
      <4> DEFINE set == LineEnd
      <4>3. \A c \in set : ~ IsDigit(c)
        BY <4>1
      <4> HIDE DEF set
      <4>4. /\ k + 1 \in 1 .. Fields(a) /\ p + Mark(a, k) \in p .. e
            /\ After(f, p + Mark(a, k), 1) \in p .. to
            /\ ReadsOneOf(f, p + Mark(a, k), set) <=>
                 /\ Field(a, k + 1) = <<>>
                 /\ IF k + 1 = Fields(a) THEN e < Len(f) /\ Newline \in set
                                         ELSE a[Mark(a, k + 1)] \in set
            /\ Field(a, k + 1) = <<>> => Mark(a, k + 1) = Mark(a, k) + 1
            /\ Field(a, k + 1) = <<>> /\ k + 1 = Fields(a) => p + Mark(a, k) = e
            /\ ReadsOneOf(f, p + Mark(a, k), set) =>
                 After(f, p + Mark(a, k), 1) = p + Mark(a, k) + 1
        BY ONLY <4>2, <4>3, ReadsNext, f \in Texts, IsArguments(f, p, e, to, a)
      <4> QED BY <4>4 DEF set
    <3>3. k + 1 # N => a[Mark(a, k + 1)] \notin LineEnd
      BY <3>2, MarksInLine DEF N
    <3>4. Newline \in LineEnd
      BY DEF LineEnd
    <3>5. ReadsOneOf(f, s.at, LineEnd) <=> Field(a, k + 1) = <<>> /\ k + 1 = N /\ e < Len(f)
      BY <3>1, <3>2, <3>3, <3>4 DEF N
    <3>6. known <=> k + 1 = N /\ Field(a, k + 1) = <<>>
      <4>1. ASSUME known
            PROVE  k + 1 = N /\ Field(a, k + 1) = <<>>
        <5>1. IsReserve(a, j)
          BY <1>3, <2>4, <4>1
        <5> QED BY <3>1, <5>1 DEF IsReserve, N
      <4>2. ASSUME k + 1 = N, Field(a, k + 1) = <<>>
            PROVE  known
        <5>1. Fields(a) = 4 * j + 3 /\ Field(a, 4 * j + 3) = <<>>
          BY <3>1, <4>2 DEF N
        <5>2. n = j
          BY <2>2, <5>1, SeatCountIs DEF n
        <5>3. IsReserve(a, j)
          BY <2>1, <5>1 DEF IsReserve, IsListed
        <5>4. j \in 1 .. M - 1
          BY <1>1, <2>2, <2>6
        <5> QED BY <5>2, <5>3, <5>4 DEF known, KnownReserve, n, M
      <4> QED BY <4>1, <4>2
    <3>7. CASE ReadsOneOf(f, s.at, LineEnd)
      <4>1. r = Parsed(s.at + 1, [op |-> "reserve", id |-> Value(a, 1), seats |-> s.seats])
        BY <1>7, <2>3, <2>6, <3>7 DEF IfSeats, r, M
      <4>2. known /\ j = n
        BY <2>4, <3>5, <3>6, <3>7
      <4>3. s.at + 1 = to
        <5>1. s.at = e /\ e < Len(f)
          BY <3>1, <3>2, <3>5, <3>7 DEF N
        <5>2. to = e + 1
          BY <5>1 DEF IsArguments
        <5> QED BY <5>1, <5>2
      <4>4. r.at = to /\ r.cmd = means
        BY <2>3, <4>1, <4>2, <4>3 DEF Parsed, means, ReserveMeans, n
      <4> QED BY <4>2, <4>4 DEF ReadsLine, r, known, means
    <3>8. CASE ~ ReadsOneOf(f, s.at, LineEnd)
      <4>1. r = Invalid(f, After(f, s.at, 1))
        BY <1>7, <2>3, <2>6, <3>8 DEF IfSeats, r, M
      <4>2. After(f, s.at, 1) \in p .. to
        BY <3>1, <3>2
      <4>3. known => ~ (e < Len(f)) /\ After(f, s.at, 1) >= e
        <5>1. known => ~ (e < Len(f)) /\ s.at = e
          BY <3>1, <3>2, <3>5, <3>6, <3>8 DEF N
        <5>2. ~ (e < Len(f)) => After(f, e, 1) >= e
          BY <1>1 DEF After
        <5> QED BY <5>1, <5>2
      <4> QED BY <1>4, <4>1, <4>2, <4>3 DEF r, known, means
    <3> QED BY <3>7, <3>8
  <2> QED BY <2>5, <2>6
<1> QED BY <1>5, <1>6, <1>7

LEMMA ReserveReads ==
  ASSUME NEW f \in Texts, NEW p, NEW e, NEW to, NEW a, IsArguments(f, p, e, to, a),
         NEW stale \in DigitRuns
  PROVE  ReadsLine(f, p, e, to, parse_reserve(f, p, stale), KnownReserve(a), ReserveMeans(a))
<1> DEFINE N == Fields(a)
           s0 == NoNumbers(p)
           t == OneNumber(f, stale, s0, {Blank})
           known == KnownReserve(a)
           means == ReserveMeans(a)
           r == parse_reserve(f, p, stale)
<1>1. /\ p \in Nat /\ p \in 0 .. Len(f) /\ a \in Texts /\ e \in Nat /\ to \in e .. Len(f)
      /\ Len(f) \in Nat /\ Len(a) = e - p
  BY ArgumentsAre
<1>2. N \in Nat /\ N >= 1 /\ 1 \in 1 .. N
  <2>1. N \in Nat /\ N >= 1
    BY <1>1, MarksAre
  <2> QED BY <2>1
<1>3. s0 \in NumberStates(f) /\ Numbers(f, p, <<{Blank}>>, stale) = t
  <2> DEFINE ends == <<{Blank}>>
  <2>1. DOMAIN ends = 1 .. 1 /\ ends[1] = {Blank}
    OBVIOUS
  <2> HIDE DEF ends
  <2>2. /\ NoNumbers(p) \in NumberStates(f)
        /\ Numbers(f, p, ends, stale) = OneNumber(f, stale, NoNumbers(p), ends[1])
    BY <1>1, <2>1, OneTurn
  <2> QED BY <2>1, <2>2 DEF ends
<1>4. r = IF ~ t.ok THEN Invalid(f, t.at)
          ELSE IF ~ ReadsOneOf(f, t.at, {"["}) THEN Invalid(f, After(f, t.at, 1))
          ELSE IfSeats(f, t.values[1], Seats(f, t.at + 1, stale))
  BY <1>3 DEF parse_reserve
<1>5. s0.ok /\ s0.at = p + Mark(a, 1 - 1) /\ s0.values = <<>>
  BY <1>1 DEF NoNumbers, Mark
<1>6. known \in BOOLEAN
  BY DEF KnownReserve
<1>7. known => /\ N # 1 /\ N # 2 /\ Fits(a, 1) /\ a[Mark(a, 1)] = Blank
               /\ Field(a, 2) = <<>> /\ a[Mark(a, 2)] = "["
  <2> SUFFICES ASSUME known PROVE /\ N # 1 /\ N # 2 /\ Fits(a, 1) /\ a[Mark(a, 1)] = Blank
                                  /\ Field(a, 2) = <<>> /\ a[Mark(a, 2)] = "["
    OBVIOUS
  <2> DEFINE n == SeatCount(a)
  <2>1. n \in 1 .. MAX_RESERVATION_SIZE - 1 /\ IsReserve(a, n)
    BY DEF KnownReserve
  <2> HIDE DEF n
  <2>2. n \in Nat /\ n >= 1
    BY <2>1, JobParserAssumption
  <2>3. N = 4 * n + 3
    BY <2>1 DEF IsReserve
  <2>4. N # 1 /\ N # 2
    <3> HIDE DEF N
    <3> QED BY <2>2, <2>3
  <2> QED BY <2>1, <2>4 DEF IsReserve, EndsWith
<1>8. ~ \E c \in {Blank} : c \in LineEnd
  BY DEF LineEnd, Newline, Nul, Blank
<1> HIDE DEF N, s0, known, means, r
<1>9. /\ t.at \in p .. to
      /\ 1 # N => /\ t.at = p + Mark(a, 1)
                  /\ t.ok <=> Fits(a, 1) /\ a[Mark(a, 1)] \in {Blank}
      /\ 1 = N => ~ t.ok
      /\ \E x \in Nat : /\ t.values = Append(<<>>, x)
                        /\ 1 # N => x = Value(a, 1)
  BY <1>2, <1>3, <1>5, <1>8, ReadsOneField DEF N
<1> HIDE DEF t
<1>10. ASSUME NEW q \in p .. to, ~ known
       PROVE  ReadsLine(f, p, e, to, Invalid(f, q), known, means)
  BY <1>6, <1>10, InvalidReads
<1>11. CASE ~ t.ok
  <2>1. r = Invalid(f, t.at) /\ ~ known
    BY <1>4, <1>7, <1>9, <1>11
  <2> QED BY <1>9, <1>10, <2>1 DEF r, known, means
<1>12. CASE t.ok
  <2> DEFINE set == {"["}
             pos == t.at + 1
             s == Seats(f, pos, stale)
  <2>1. 1 # N /\ t.at = p + Mark(a, 1) /\ Fits(a, 1) /\ a[Mark(a, 1)] = Blank
    BY <1>9, <1>12
  <2>2. (\A c \in set : ~ IsDigit(c)) /\ Newline \notin set /\ \A c : c \in set <=> c = "["
    BY WordsAssumption DEF Newline
  <2> HIDE DEF set
  <2>3. /\ 2 \in 1 .. N /\ p + Mark(a, 1) \in p .. e
        /\ After(f, t.at, 1) \in p .. to
        /\ ReadsOneOf(f, t.at, set) <=>
              Field(a, 2) = <<>> /\ 2 # N /\ a[Mark(a, 2)] \in set
        /\ ReadsOneOf(f, t.at, set) => After(f, t.at, 1) = t.at + 1
        /\ Field(a, 2) = <<>> => Mark(a, 2) = Mark(a, 1) + 1
    <3> DEFINE k == 1
    <3>1. k \in 1 .. Fields(a) /\ k # Fields(a) /\ k + 1 = 2
      BY <1>2, <2>1 DEF N
    <3> HIDE DEF k
    <3>2. k \in 1 .. Fields(a) /\ k # Fields(a)
      BY <3>1
    <3>3. /\ k + 1 \in 1 .. Fields(a) /\ p + Mark(a, k) \in p .. e
          /\ After(f, p + Mark(a, k), 1) \in p .. to
          /\ ReadsOneOf(f, p + Mark(a, k), set) <=>
               /\ Field(a, k + 1) = <<>>
               /\ IF k + 1 = Fields(a) THEN e < Len(f) /\ Newline \in set
                                       ELSE a[Mark(a, k + 1)] \in set
          /\ Field(a, k + 1) = <<>> => Mark(a, k + 1) = Mark(a, k) + 1
          /\ ReadsOneOf(f, p + Mark(a, k), set) =>
               After(f, p + Mark(a, k), 1) = p + Mark(a, k) + 1
      BY ONLY <2>2, <3>2, ReadsNext, f \in Texts, IsArguments(f, p, e, to, a)
    <3>4. k = 1
      BY DEF k
    <3> QED BY <2>1, <2>2, <3>1, <3>3, <3>4 DEF N
  <2>4. CASE ~ ReadsOneOf(f, t.at, set)
    <3>1. r = Invalid(f, After(f, t.at, 1))
      BY <1>4, <1>12, <2>4 DEF set
    <3>2. ~ known
      BY <1>7, <2>2, <2>3, <2>4
    <3> QED BY <1>10, <2>3, <3>1, <3>2 DEF r, known, means
  <2>5. CASE ReadsOneOf(f, t.at, set)
    <3>1. Field(a, 2) = <<>> /\ 2 # N /\ a[Mark(a, 2)] = "["
      BY <2>2, <2>3, <2>5
    <3>2. pos \in p .. to /\ pos = p + Mark(a, 2)
      <4>1. Mark(a, 1) \in Nat
        <5>1. Mark(a, 1) \in 1 .. Len(a)
          BY <1>1, <1>2, <2>1, FieldBetween DEF N
        <5> QED BY <1>1, <5>1
      <4> QED BY <1>1, <2>1, <2>3, <2>5, <3>1, <4>1
    <3> HIDE DEF pos
    <3>3. ListRead(f, p, to, a, s, MAX_RESERVATION_SIZE)
      BY <2>3, <3>1, <3>2, ListReads DEF N
    <3>4. t.values[1] = Value(a, 1)
      <4>1. PICK x \in Nat : t.values = Append(<<>>, x) /\ x = Value(a, 1)
        BY <1>9, <2>1
      <4>2. Append(<<>>, x)[1] = x
        OBVIOUS
      <4> QED BY <4>1, <4>2
    <3>5. r = IfSeats(f, Value(a, 1), s)
      BY <1>4, <1>12, <2>5, <3>4 DEF set, pos
    <3> HIDE DEF s
    <3>6. EndsWith(a, 1, Blank) /\ EndsWith(a, 2, "[")
      BY <2>1, <3>1 DEF EndsWith
    <3> QED BY <2>1, <3>1, <3>3, <3>5, <3>6, ListEnds DEF r, known, means
  <2> QED BY <2>4, <2>5
<1> QED BY <1>11, <1>12

-----------------------------------------------------------------------------
(* The keywords, with the blank behind some of them: there is no newline   *)
(* in them, and a line that begins with one is read behind it.             *)
Letters == {"C", "R", "S", "W", "L", "H", "B"}

LEMMA WordIs ==
  ASSUME NEW c
  PROVE  /\ \E V : Chars(Word(c)) \in Seq(V)
         /\ c \in Letters => /\ Len(Chars(Word(c))) \in 4 .. 8 /\ Chars(Word(c)) # <<>>
                             /\ \A i \in 1 .. Len(Chars(Word(c))) : Chars(Word(c))[i] # Newline
         /\ c \notin Letters => Chars(Word(c)) = <<>>
<1> DEFINE n == Len(Word(c))
           w == Chars(Word(c))
           V == {SubSeq(Word(c), i, i) : i \in 1 .. n}
<1>1. CASE c \in Letters
  <2>1. n \in 4 .. 8 /\ Newline \notin ToSet(w)
    BY <1>1, WordsAssumption DEF Letters
  <2>2. w \in [1 .. n -> V] /\ n \in Nat
    BY <2>1 DEF Chars
  <2> HIDE DEF n, w, V
  <2>3. w \in Seq(V) /\ DOMAIN w = 1 .. n
    BY <2>2, SeqDef
  <2>4. Len(w) = n
    BY <2>2, <2>3, LenProperties
  <2>5. w # <<>>
    BY <2>1, <2>4, EmptySeq
  <2>6. \A i \in 1 .. n : w[i] # Newline
    BY <2>1, <2>3 DEF ToSet
  <2> QED BY <1>1, <2>1, <2>3, <2>4, <2>5, <2>6 DEF w
<1>2. CASE c \notin Letters
  <2>1. Word(c) = Word(Newline)
    BY <1>2 DEF Word, Newline, Letters
  <2>2. n = 0
    BY <2>1, WordsAssumption
  <2>3. w = <<>>
    BY <2>2 DEF Chars
  <2> HIDE DEF w
  <2>4. w \in Seq(STRING)
    BY <2>3, EmptySeq
  <2> QED BY <1>2, <2>3, <2>4 DEF w
<1> QED BY <1>1, <1>2

LEMMA WordRead ==
  ASSUME NEW f \in Texts, NEW p, NEW e, NEW to, NEW a, IsArguments(f, p, e, to, a),
         NEW V, NEW w \in Seq(V), Len(w) \in 4 .. 8, \A i \in 1 .. Len(w) : w[i] # Newline,
         NEW end, end = After(f, p, Len(w))
  PROVE  /\ end \in p .. Len(f) /\ end <= p + 8
         /\ SubSeq(f, p + 1, end) = w <=> IsPrefix(w, a)
         /\ IsPrefix(w, a) => /\ end = p + Len(w)
                              /\ IsArguments(f, end, e, to, SubSeq(a, Len(w) + 1, Len(a)))
<1> DEFINE n == Len(w)
           len == Len(f)
           Begins == p + n <= e /\ \A i \in 1 .. n : f[p + i] = w[i]
           S == STRING \cup V
<1>1. /\ p \in Nat /\ e \in Nat /\ p <= e /\ e <= len /\ len \in Nat
      /\ a \in Texts /\ Len(a) = e - p /\ \A i \in 1 .. (e - p) : a[i] = f[p + i]
  BY ArgumentsAre
<1>2. n \in Nat /\ n >= 4 /\ n <= 8 /\ \A i \in 1 .. n : w[i] \in V
  <2>1. n \in 4 .. 8
    OBVIOUS
  <2>2. w \in [1 .. n -> V]
    BY LenProperties
  <2> HIDE DEF n
  <2> QED BY <2>1, <2>2
<1>3. w \in Seq(S)
  <2>1. \A i \in 1 .. Len(w) : w[i] \in S
    BY <1>2
  <2> HIDE DEF S
  <2>2. w \in [1 .. Len(w) -> S] /\ Len(w) \in Nat
    BY <2>1, LenProperties
  <2> QED BY <2>2, SeqDef
<1> HIDE DEF n, len
<1>4. /\ end = IF p + n <= len THEN p + n ELSE len
      /\ end \in 0 .. len /\ end <= p + 8 /\ end \in Nat /\ p <= end
  <2>1. end = IF p + n <= len THEN p + n ELSE len
    BY DEF After, n, len
  <2> QED BY <1>1, <1>2, <2>1
<1>5. SubSeq(f, p + 1, end) = w <=> Begins
  <2> DEFINE s == SubSeq(f, p + 1, end)
  <2>1. \A i \in (p + 1) .. end : f[i] \in S
    <3>1. \A i \in (p + 1) .. end : i \in 1 .. Len(f)
      BY <1>1, <1>4 DEF len
    <3> QED BY <3>1 DEF Texts
  <2> HIDE DEF S
  <2>2. /\ s \in Seq(S) /\ Len(s) = end - p
        /\ \A i \in 1 .. (end - p) : s[i] = f[p + i]
    <3> DEFINE x == p + 1
    <3>1. x \in Int /\ end \in Int /\ \A i \in x .. end : f[i] \in S
      BY <1>1, <1>4, <2>1
    <3> HIDE DEF x
    <3>2. /\ SubSeq(f, x, end) \in Seq(S)
          /\ Len(SubSeq(f, x, end)) = IF x <= end THEN end - x + 1 ELSE 0
          /\ \A i \in 1 .. end - x + 1 : SubSeq(f, x, end)[i] = f[x + i - 1]
      BY <3>1, SubSeqProperties
    <3>3. (IF x <= end THEN end - x + 1 ELSE 0) = end - p
      BY <1>1, <1>4 DEF x
    <3>4. \A i \in 1 .. (end - p) : i \in 1 .. (end - x + 1) /\ x + i - 1 = p + i
      BY <1>1, <1>4 DEF x
    <3> QED BY <3>2, <3>3, <3>4 DEF x
  <2>3. ASSUME s = w
        PROVE  Begins
    <3>1. end - p = n /\ \A i \in 1 .. n : f[p + i] = w[i]
      BY <2>2, <2>3 DEF n
    <3>2. p + n <= len /\ end = p + n
      BY <1>1, <1>2, <1>4, <3>1
    <3>3. ASSUME ~ (p + n <= e) PROVE FALSE
      <4> DEFINE i == e + 1 - p
      <4>1. i \in 1 .. n /\ p + i = e + 1 /\ e < len
        BY <1>1, <1>2, <3>2, <3>3
      <4>2. f[e + 1] = Newline
        BY <4>1 DEF IsArguments, len
      <4> HIDE DEF i
      <4>3. w[i] = Newline
        BY <3>1, <4>1, <4>2
      <4> QED BY <4>1, <4>3 DEF n
    <3> QED BY <3>1, <3>3
  <2>4. ASSUME Begins
        PROVE  s = w
    <3>1. end = p + n /\ end - p = n
      BY <1>1, <1>2, <1>4, <2>4
    <3>2. Len(s) = n /\ \A i \in 1 .. n : s[i] = w[i]
      BY <2>2, <2>4, <3>1
    <3> HIDE DEF s
    <3> QED BY <1>3, <2>2, <3>2, SeqEqual DEF n
  <2> QED BY <2>3, <2>4
<1>6. IsPrefix(w, a) <=> Begins
  <2> DEFINE s == SubSeq(w, 1, n)
             t == SubSeq(a, 1, n)
  <2>1. s = w
    <3>1. 1 \in Int /\ n \in Int /\ \A i \in 1 .. n : w[i] \in S
      BY <1>2
    <3> HIDE DEF S
    <3>2. /\ s \in Seq(S) /\ Len(s) = IF 1 <= n THEN n - 1 + 1 ELSE 0
          /\ \A i \in 1 .. n - 1 + 1 : s[i] = w[1 + i - 1]
      BY <3>1, SubSeqProperties
    <3>3. n - 1 + 1 = n /\ \A i \in 1 .. n : 1 + i - 1 = i
      BY <1>2
    <3> HIDE DEF s
    <3>4. Len(s) = n /\ \A i \in 1 .. n : s[i] = w[i]
      BY <1>2, <3>2, <3>3
    <3> QED BY <1>3, <3>2, <3>4, SeqEqual DEF n
  <2>2. ASSUME n <= e - p
        PROVE  t \in Seq(S) /\ Len(t) = n /\ \A i \in 1 .. n : t[i] = f[p + i]
    <3>1. \A i \in 1 .. n : i \in 1 .. (e - p) /\ i \in 1 .. Len(a)
      BY <1>1, <1>2, <2>2
    <3>2. 1 \in Int /\ n \in Int /\ \A i \in 1 .. n : a[i] \in S
      <4>1. \A i \in 1 .. Len(a) : a[i] \in STRING
        BY <1>1 DEF Texts
      <4>2. 1 \in Int /\ n \in Int
        BY <1>2
      <4> QED BY <3>1, <4>1, <4>2
    <3> HIDE DEF S
    <3>3. /\ t \in Seq(S) /\ Len(t) = IF 1 <= n THEN n - 1 + 1 ELSE 0
          /\ \A i \in 1 .. n - 1 + 1 : t[i] = a[1 + i - 1]
      BY <3>2, SubSeqProperties
    <3>4. n - 1 + 1 = n /\ \A i \in 1 .. n : 1 + i - 1 = i
      BY <1>2
    <3> HIDE DEF t
    <3>5. Len(t) = n /\ \A i \in 1 .. n : t[i] = a[i]
      BY <1>2, <3>3, <3>4
    <3>6. \A i \in 1 .. n : a[i] = f[p + i]
      BY <1>1, <3>1
    <3> QED BY <3>3, <3>5, <3>6
  <2>3. IsPrefix(w, a) <=> n <= e - p /\ w = t
    BY <1>1, <2>1 DEF IsPrefix, n
  <2>4. p + n <= e <=> n <= e - p
    BY <1>1, <1>2
  <2> HIDE DEF t, S
  <2>5. ASSUME n <= e - p
        PROVE  w = t <=> \A i \in 1 .. n : f[p + i] = w[i]
    <3>1. w = t => \A i \in 1 .. n : f[p + i] = w[i]
      BY <2>2, <2>5
    <3>2. (\A i \in 1 .. n : f[p + i] = w[i]) => w = t
      BY <1>3, <2>2, <2>5, SeqEqual DEF n
    <3> QED BY <3>1, <3>2
  <2> QED BY <2>3, <2>4, <2>5
<1>7. ASSUME Begins
      PROVE  end = p + n /\ IsArguments(f, end, e, to, SubSeq(a, n + 1, Len(a)))
  <2>1. end = p + n
    BY <1>1, <1>2, <1>4, <1>7
  <2>2. end \in 0 .. e /\ \A i \in (end + 1) .. e : i \in (p + 1) .. e
    BY <1>1, <1>2, <1>7, <2>1
  <2> DEFINE s == SubSeq(a, n + 1, Len(a))
             t == SubSeq(f, end + 1, e)
  <2>3. s \in Texts /\ Len(s) = e - end /\ \A i \in 1 .. (e - end) : s[i] = f[end + i]
    <3> DEFINE x == n + 1
               y == Len(a)
    <3>1. x \in Int /\ y \in Int /\ \A i \in x .. y : i \in 1 .. Len(a)
      BY <1>1, <1>2
    <3>2. \A i \in x .. y : a[i] \in STRING
      BY <1>1, <3>1 DEF Texts
    <3> HIDE DEF x, y
    <3>3. /\ SubSeq(a, x, y) \in Seq(STRING)
          /\ Len(SubSeq(a, x, y)) = IF x <= y THEN y - x + 1 ELSE 0
          /\ \A i \in 1 .. y - x + 1 : SubSeq(a, x, y)[i] = a[x + i - 1]
      BY <3>1, <3>2, SubSeqProperties
    <3>4. (IF x <= y THEN y - x + 1 ELSE 0) = e - end
      BY <1>1, <1>2, <2>1, <2>2 DEF x, y
    <3>5. ASSUME NEW i \in 1 .. (e - end)
          PROVE  i \in 1 .. (y - x + 1) /\ a[x + i - 1] = f[end + i]
      <4>1. i \in 1 .. (y - x + 1) /\ x + i - 1 = n + i /\ n + i \in 1 .. (e - p)
            /\ p + (n + i) = end + i
        BY <1>1, <1>2, <2>1, <2>2 DEF x, y
      <4> QED BY <1>1, <4>1
    <3>6. s = SubSeq(a, x, y)
      BY DEF x, y
    <3> HIDE DEF s
    <3> QED BY <3>3, <3>4, <3>5, <3>6 DEF Texts
  <2>4. t \in Texts /\ Len(t) = e - end /\ \A i \in 1 .. (e - end) : t[i] = f[end + i]
    <3> DEFINE x == end + 1
    <3>1. x \in Int /\ e \in Int /\ \A i \in x .. e : i \in 1 .. Len(f)
      BY <1>1, <1>4 DEF len
    <3>2. \A i \in x .. e : f[i] \in STRING
      BY <3>1 DEF Texts
    <3> HIDE DEF x
    <3>3. /\ SubSeq(f, x, e) \in Seq(STRING)
          /\ Len(SubSeq(f, x, e)) = IF x <= e THEN e - x + 1 ELSE 0
          /\ \A i \in 1 .. e - x + 1 : SubSeq(f, x, e)[i] = f[x + i - 1]
      BY <3>1, <3>2, SubSeqProperties
    <3>4. (IF x <= e THEN e - x + 1 ELSE 0) = e - end
      BY <1>1, <1>4, <2>2 DEF x
    <3>5. \A i \in 1 .. (e - end) : i \in 1 .. (e - x + 1) /\ x + i - 1 = end + i
      BY <1>1, <1>4, <2>2 DEF x
    <3>6. t = SubSeq(f, x, e)
      BY DEF x
    <3> HIDE DEF t
    <3> QED BY <3>3, <3>4, <3>5, <3>6 DEF Texts
  <2> HIDE DEF s, t
  <2>5. s = t
    BY <2>3, <2>4, SeqEqual DEF Texts
  <2>6. IsArguments(f, end, e, to, t)
    <3>1. \/ e = Len(f) /\ to = e
          \/ e < Len(f) /\ to = e + 1 /\ f[to] = Newline
      BY DEF IsArguments
    <3>2. \A i \in (end + 1) .. e : f[i] \notin LineEnd
      BY <2>2 DEF IsArguments
    <3>3. e \in 0 .. Len(f)
      BY DEF IsArguments
    <3> QED BY <2>2, <3>1, <3>2, <3>3 DEF IsArguments, t
  <2> QED BY <2>1, <2>5, <2>6 DEF s
<1> QED BY <1>4, <1>5, <1>6, <1>7 DEF n, len

(* What a line means that begins with a keyword.                           *)
Keyword(line) == Chars(Word(line[1]))
Behind(line) == SubSeq(line, Len(Keyword(line)) + 1, Len(line))
Unknown == [op |-> "invalid"]
CreateMeans(a) ==
  [op |-> "create", id |-> Value(a, 1), dims |-> <<Value(a, 2), Value(a, 3)>>]
ShowMeans(a) == [op |-> "show", id |-> Value(a, 1)]
WaitMeans == [op |-> "wait"]

LEMMA MeaningIs ==
  ASSUME NEW line, line # <<>>, line[1] # "#"
  PROVE  /\ Keyword(line) = <<>> \/ ~ IsPrefix(Keyword(line), line) => Meaning(line) = Unknown
         /\ Keyword(line) # <<>> /\ IsPrefix(Keyword(line), line) =>
              /\ line[1] = "C" =>
                   Meaning(line) = IF IsCreate(Behind(line)) THEN CreateMeans(Behind(line))
                                   ELSE Unknown
              /\ line[1] = "R" =>
                   Meaning(line) = IF KnownReserve(Behind(line)) THEN ReserveMeans(Behind(line))
                                   ELSE Unknown
              /\ line[1] = "S" =>
                   Meaning(line) = IF IsShow(Behind(line)) THEN ShowMeans(Behind(line))
                                   ELSE Unknown
              /\ line[1] = "W" =>
                   Meaning(line) = IF IsWait(Behind(line)) THEN WaitMeans ELSE Unknown
              /\ line[1] \in Alone =>
                   Meaning(line) = IF Behind(line) = <<>> THEN [op |-> Command(line[1])]
                                   ELSE Unknown
<1> DEFINE c == line[1]
           w == Keyword(line)
           a == Behind(line)
           create == CreateMeans(a)
           reserve == ReserveMeans(a)
           show == ShowMeans(a)
<1>1. Meaning(line) =
        IF line = <<>> \/ c = "#" THEN [op |-> "empty"]
        ELSE IF w = <<>> \/ ~ IsPrefix(w, line) THEN Unknown
        ELSE CASE c = "C" /\ IsCreate(a) -> create
               [] c = "R" /\ KnownReserve(a) -> reserve
               [] c = "S" /\ IsShow(a) -> show
               [] c = "W" /\ IsWait(a) -> WaitMeans
               [] c \in Alone /\ a = <<>> -> [op |-> Command(c)]
               [] OTHER -> Unknown
  BY DEF Meaning, Keyword, Behind, KnownReserve, SeatCount, CreateMeans, ReserveMeans,
         ShowMeans, WaitMeans, Unknown
<1>2. /\ "C" \notin Alone /\ "R" \notin Alone /\ "S" \notin Alone /\ "W" \notin Alone
  BY DEF Alone
<1> HIDE DEF c, w, a, create, reserve, show
<1>3. w = <<>> \/ ~ IsPrefix(w, line) => Meaning(line) = Unknown
  BY <1>1 DEF c
<1>4. ASSUME w # <<>>, IsPrefix(w, line)
      PROVE  /\ c = "C" => Meaning(line) = IF IsCreate(a) THEN create ELSE Unknown
             /\ c = "R" => Meaning(line) = IF KnownReserve(a) THEN reserve ELSE Unknown
             /\ c = "S" => Meaning(line) = IF IsShow(a) THEN show ELSE Unknown
             /\ c = "W" => Meaning(line) = IF IsWait(a) THEN WaitMeans ELSE Unknown
             /\ c \in Alone =>
                  Meaning(line) = IF a = <<>> THEN [op |-> Command(c)] ELSE Unknown
  <2>1. line # <<>> /\ c # "#"
    BY DEF c
  <2>2. Meaning(line) =
          CASE c = "C" /\ IsCreate(a) -> create
            [] c = "R" /\ KnownReserve(a) -> reserve
            [] c = "S" /\ IsShow(a) -> show
            [] c = "W" /\ IsWait(a) -> WaitMeans
            [] c \in Alone /\ a = <<>> -> [op |-> Command(c)]
            [] OTHER -> Unknown
    BY <1>1, <1>4, <2>1
  <2>3. CASE c \in Alone
    <3>1. c # "C" /\ c # "R" /\ c # "S" /\ c # "W"
      BY <1>2, <2>3
    <3> QED BY <2>2, <2>3, <3>1
  <2>4. CASE c \notin Alone
    BY <2>2, <2>4
  <2> QED BY <2>3, <2>4
<1> QED BY <1>3, <1>4 DEF c, w, a, create, reserve, show

(* How a line is read, whatever it holds: one that is known to its end;    *)
(* one that is not, from some place in it, or behind a keyword, to a       *)
(* newline.  What is known is what it means, except for a number at the    *)
(* end of the file.                                                        *)
WithNumbers == {"create", "show", "wait", "reserve"}
ReadsAs(f, from, to, r, m) ==
  /\ m.op # "invalid" => r.at = to
  /\ m.op = "invalid" =>
       /\ m = Unknown /\ r.cmd = Unknown
       /\ \E q \in from .. Len(f) : r.at = cleanup(f, q) /\ (q <= to \/ q <= from + 8)
  /\ f[to] = Newline \/ m.op \notin WithNumbers => r.cmd = m

LEMMA LineIsArguments ==
  ASSUME NEW f \in Texts, Nul \notin ToSet(f), NEW from, NEW to, IsLine(f, from, to)
  PROVE  \E e \in from .. to : /\ IsArguments(f, from, e, to, Content(f, from, to))
                               /\ e < Len(f) <=> f[to] = Newline
                               /\ from \in Nat /\ to \in Nat /\ to <= Len(f)
<1> DEFINE e == IF f[to] = Newline THEN to - 1 ELSE to
           len == Len(f)
<1>1. len \in Nat /\ DOMAIN f = 1 .. len
  BY DEF Texts
<1>2. /\ to \in 1 .. len /\ from \in 0 .. (to - 1) /\ \A i \in (from + 1) .. (to - 1) : f[i] # Newline
      /\ to = len \/ f[to] = Newline
  BY DEF IsLine
<1> HIDE DEF len
<1>3. from \in Nat /\ to \in Nat /\ to <= len /\ e \in from .. to /\ e \in 0 .. len /\ e \in Nat
      /\ from \in 0 .. e
  BY <1>1, <1>2
<1>4. \/ e = len /\ to = e
      \/ e < len /\ to = e + 1 /\ f[to] = Newline
  BY <1>1, <1>2
<1>5. e < len <=> f[to] = Newline
  BY <1>1, <1>2
<1>6. ASSUME NEW i \in (from + 1) .. e
      PROVE  f[i] \notin LineEnd
  <2>1. i \in 1 .. len /\ (i \in (from + 1) .. (to - 1) \/ (i = to /\ e = to))
    BY <1>1, <1>2, <1>3
  <2>2. f[i] # Newline
    BY <1>2, <2>1
  <2>3. f[i] # Nul
    BY <1>1, <2>1 DEF ToSet
  <2> QED BY <2>2, <2>3 DEF LineEnd
<1>7. Content(f, from, to) = SubSeq(f, from + 1, e)
  BY DEF Content
<1> HIDE DEF e
<1>8. IsArguments(f, from, e, to, Content(f, from, to))
  BY <1>3, <1>4, <1>6, <1>7 DEF IsArguments, len
<1> QED BY <1>3, <1>5, <1>8 DEF len

LEMMA NumbersLine ==
  ASSUME NEW f, NEW from \in Nat, NEW p \in Nat, from <= p, NEW e, NEW to \in Nat, Len(f) \in Nat, to <= Len(f),
         e < Len(f) <=> f[to] = Newline,
         NEW r, NEW known \in BOOLEAN, NEW means, means.op \in WithNumbers,
         ReadsLine(f, p, e, to, r, known, means),
         NEW m, m = IF known THEN means ELSE Unknown
  PROVE  ReadsAs(f, from, to, r, m)
<1>1. CASE known
  <2>1. m = means /\ m.op # "invalid" /\ m.op \in WithNumbers
    BY <1>1 DEF WithNumbers
  <2>2. r.at = to /\ (f[to] = Newline => r.cmd = m)
    BY <1>1, <2>1 DEF ReadsLine
  <2> QED BY <2>1, <2>2 DEF ReadsAs
<1>2. CASE ~ known
  <2>1. m = Unknown /\ r.cmd = Unknown
    BY <1>2 DEF ReadsLine, Unknown
  <2>2. PICK q \in p .. to : r.at = cleanup(f, q)
    BY <1>2 DEF ReadsLine
  <2>3. q \in from .. Len(f) /\ q <= to
    <3>1. q \in Nat /\ q <= to
      OBVIOUS
    <3> QED BY <3>1
  <2> QED BY <2>1, <2>2, <2>3 DEF ReadsAs, Unknown
<1> QED BY <1>1, <1>2

LEMMA KeywordsMean ==
  /\ Command("C") = "create" /\ Command("R") = "reserve" /\ Command("S") = "show"
  /\ Command("W") = "wait"
  /\ \A c \in Alone : c \in Letters /\ Command(c) \notin WithNumbers \cup {"invalid"}
  /\ \A c \in Letters : c \in Alone \/ c \in {"C", "R", "S", "W"}
  /\ \A c \in {"C", "R", "S", "W"} : c \in Letters /\ c \notin Alone
BY DEF Command, Alone, Letters, WithNumbers

(* Every line of a job file is read as the grammar says.                   *)
THEOREM LinesRead ==
  ASSUME NEW f \in Texts, Nul \notin ToSet(f), NEW from, NEW to, IsLine(f, from, to),
         NEW stale \in DigitRuns
  PROVE  ReadsAs(f, from, to, ReadCommand(f, from, stale), Meaning(Content(f, from, to)))
<1> DEFINE line == Content(f, from, to)
           m == Meaning(line)
           g == get_next(f, from)
           r == ReadCommand(f, from, stale)
           c == f[from + 1]
           w == Keyword(line)
           end == After(f, from, Len(w))
           a == Behind(line)
           Goal == ReadsAs(f, from, to, r, m)
<1> SUFFICES Goal
  OBVIOUS
<1>1. PICK e \in from .. to : /\ IsArguments(f, from, e, to, line)
                              /\ e < Len(f) <=> f[to] = Newline
                              /\ from \in Nat /\ to \in Nat /\ to <= Len(f)
  BY LineIsArguments
<1> HIDE DEF line
<1>2. /\ e \in Nat /\ from <= e /\ e <= to /\ e <= Len(f) /\ Len(f) \in Nat
      /\ line \in Texts /\ Len(line) = e - from /\ from < to
      /\ \A i \in 1 .. (e - from) : line[i] = f[from + i]
      /\ to \in 1 .. Len(f)
  <2>1. /\ e \in Nat /\ e <= Len(f) /\ Len(f) \in Nat /\ line \in Texts /\ Len(line) = e - from
        /\ \A i \in 1 .. (e - from) : line[i] = f[from + i]
    <3>1. IsArguments(f, from, e, to, line)
      BY <1>1
    <3> QED BY ONLY <3>1, ArgumentsAre, f \in Texts
  <2>2. from <= e /\ e <= to
    BY <1>1
  <2>3. to \in 1 .. Len(f) /\ from \in 0 .. (to - 1)
    BY DEF IsLine
  <2>4. from < to
    BY <1>1, <2>3
  <2> QED BY <2>1, <2>2, <2>3, <2>4
<1>3. \/ e = Len(f) /\ to = e
      \/ e < Len(f) /\ to = e + 1 /\ f[to] = Newline
  BY <1>1 DEF IsArguments
<1>4. r = CASE g.cmd.op = "create"  -> parse_create(f, g.at, stale)
            [] g.cmd.op = "reserve" -> parse_reserve(f, g.at, stale)
            [] g.cmd.op = "show"    -> parse_show(f, g.at, stale)
            [] g.cmd.op = "wait"    -> parse_wait(f, g.at, stale)
            [] OTHER -> g
  BY DEF ReadCommand
<1>5. from # Len(f)
  BY <1>1, <1>2
<1> HIDE DEF g, r, m, c, w, a, end, Goal
<1>6. g.cmd.op \notin WithNumbers => r = g
  BY <1>4 DEF WithNumbers
<1>7. ASSUME NEW q \in from .. Len(f), q <= to \/ q <= from + 8, g = Invalid(f, q), m = Unknown
      PROVE  Goal
  <2>1. g.cmd = Unknown /\ g.at = cleanup(f, q) /\ g.cmd.op \notin WithNumbers
    BY <1>7 DEF Invalid, Unknown, WithNumbers
  <2>2. r.cmd = Unknown /\ r.at = cleanup(f, q)
    BY <1>6, <2>1
  <2>3. m.op = "invalid"
    BY <1>7 DEF Unknown
  <2> QED BY <1>7, <2>2, <2>3 DEF ReadsAs, Goal
<1>8. ASSUME g.at = to, g.cmd = m, m.op \notin WithNumbers \cup {"invalid"}
      PROVE  Goal
  <2>1. r = g
    BY <1>6, <1>8
  <2> QED BY <1>8, <2>1 DEF ReadsAs, Goal
<1>9. CASE e = from
  <2>1. to = from + 1 /\ c = Newline
    BY <1>2, <1>3, <1>9 DEF c
  <2>2. g = Parsed(from + 1, [op |-> "empty"])
    BY <1>5, <2>1 DEF get_next, g, c
  <2>3. line = <<>>
    <3>1. Len(line) = 0
      BY <1>1, <1>2, <1>9
    <3> QED BY <1>2, <3>1, EmptySeq DEF Texts
  <2>4. m = [op |-> "empty"]
    BY <2>3 DEF m, Meaning
  <2>5. g.at = to /\ g.cmd = m /\ m.op \notin WithNumbers \cup {"invalid"}
    BY <2>1, <2>2, <2>4 DEF Parsed, WithNumbers
  <2> QED BY <1>8, <2>5
<1>10. CASE e # from
  <2>1. 1 \in 1 .. (e - from) /\ from + 1 \in from .. e /\ from + 1 \in (from + 1) .. e
        /\ from + 1 \in from .. Len(f) /\ from + 1 <= to
    BY <1>1, <1>2, <1>10
  <2>2. line[1] = c /\ c \notin LineEnd
    <3>1. f[from + 1] \notin LineEnd
      BY <1>1, <2>1 DEF IsArguments
    <3> QED BY <1>2, <2>1, <3>1 DEF c
  <2>3. line # <<>>
    <3>1. Len(line) # 0
      BY <1>2, <2>1
    <3> QED BY <3>1, EmptySeq
  <2>4. w = Chars(Word(c)) /\ c # Newline
    BY <2>2 DEF w, Keyword, LineEnd
  <2>5. g = IF c = "#" THEN Parsed(cleanup(f, from + 1), [op |-> "empty"])
            ELSE IF w = <<>> THEN Invalid(f, from + 1)
            ELSE IF SubSeq(f, from + 1, end) # w THEN Invalid(f, end)
            ELSE IF c \in Alone /\ end < Len(f) /\ f[end + 1] # Newline
                 THEN Invalid(f, end + 1)
            ELSE Parsed(IF c \in Alone THEN After(f, end, 1) ELSE end, [op |-> Command(c)])
    BY <1>5, <2>4 DEF get_next, g, c, end
  <2>6. CASE c = "#"
    <3>1. m = [op |-> "empty"]
      BY <2>2, <2>6 DEF m, Meaning
    <3>2. cleanup(f, from + 1) = to
      BY <1>1, <2>1, CleansLine
    <3>3. g.at = to /\ g.cmd = m /\ m.op \notin WithNumbers \cup {"invalid"}
      BY <2>5, <2>6, <3>1, <3>2 DEF Parsed, WithNumbers
    <3> QED BY <1>8, <3>3
  <2>7. CASE c # "#" /\ w = <<>>
    <3>1. m = Unknown
      BY <2>2, <2>3, <2>7, MeaningIs DEF m, w
    <3>2. g = Invalid(f, from + 1)
      BY <2>5, <2>7
    <3> QED BY <1>7, <2>1, <3>1, <3>2
  <2>8. CASE c # "#" /\ w # <<>>
    <3>1. c \in Letters /\ Len(w) \in 4 .. 8 /\ \A i \in 1 .. Len(w) : w[i] # Newline
      BY <2>4, <2>8, WordIs
    <3>2. PICK V : w \in Seq(V)
      BY <2>4, WordIs
    <3>3. /\ end \in from .. Len(f) /\ end <= from + 8
          /\ SubSeq(f, from + 1, end) = w <=> IsPrefix(w, line)
          /\ IsPrefix(w, line) => end = from + Len(w) /\ IsArguments(f, end, e, to, a)
      BY <1>1, <3>1, <3>2, WordRead DEF end, a, Behind, w
    <3>4. CASE ~ IsPrefix(w, line)
      <4>1. m = Unknown
        BY <2>2, <2>3, <2>8, <3>4, MeaningIs DEF m, w
      <4>2. g = Invalid(f, end)
        BY <2>5, <2>8, <3>3, <3>4
      <4> QED BY <1>7, <3>3, <4>1, <4>2
    <3>5. CASE IsPrefix(w, line) /\ c \in Alone
      <4>1. m = IF a = <<>> THEN [op |-> Command(c)] ELSE Unknown
        BY <2>2, <2>3, <2>8, <3>5, MeaningIs DEF m, w, a
      <4>2. /\ end \in Nat /\ end <= e /\ a \in Texts /\ Len(a) = e - end
        BY <3>3, <3>5, ArgumentsAre
      <4>3. a = <<>> <=> end = e
        <5>1. a = <<>> <=> Len(a) = 0
          BY <4>2, EmptySeq DEF Texts
        <5> QED BY <1>2, <4>2, <5>1
      <4>4. CASE end < Len(f) /\ f[end + 1] # Newline
        <5>1. g = Invalid(f, end + 1)
          BY <2>5, <2>8, <3>3, <3>5, <4>4
        <5>2. end # e
          BY <1>2, <1>3, <4>4
        <5>3. m = Unknown
          BY <4>1, <4>3, <5>2
        <5>4. end + 1 \in from .. Len(f) /\ end + 1 <= to
          <6>1. end \in from .. Len(f)
            BY <3>3
          <6> QED BY <1>1, <1>2, <4>2, <4>4, <5>2, <6>1
        <5> QED BY <1>7, <5>1, <5>3, <5>4
      <4>5. CASE ~ (end < Len(f) /\ f[end + 1] # Newline)
        <5>1. g = Parsed(After(f, end, 1), [op |-> Command(c)])
          BY <2>5, <2>8, <3>3, <3>5, <4>5
        <5>2. end = e
          <6>1. ASSUME end < e PROVE FALSE
            <7>1. end < Len(f) /\ end + 1 \in (from + 1) .. e
              <8>1. /\ end \in Nat /\ end < e /\ e \in Nat /\ e <= Len(f) /\ Len(f) \in Nat
                    /\ from \in Nat
                BY <1>1, <1>2, <4>2, <6>1
              <8>2. end >= from
                BY <3>3, <8>1
              <8> QED BY ONLY <8>1, <8>2
            <7>2. f[end + 1] \notin LineEnd
              BY <1>1, <7>1 DEF IsArguments
            <7> QED BY <4>5, <7>1, <7>2 DEF LineEnd
          <6> QED BY <1>2, <4>2, <6>1
        <5>3. After(f, end, 1) = to
          BY <1>2, <1>3, <5>2 DEF After
        <5>4. m = [op |-> Command(c)] /\ g.at = to /\ g.cmd = m
          BY <4>1, <4>3, <5>1, <5>2, <5>3 DEF Parsed
        <5>5. m.op \notin WithNumbers \cup {"invalid"}
          BY <3>5, <5>4, KeywordsMean
        <5> QED BY <1>8, <5>4, <5>5
      <4> QED BY <4>4, <4>5
    <3>6. CASE IsPrefix(w, line) /\ c \notin Alone
      <4>1. IsArguments(f, end, e, to, a)
        BY <3>3, <3>6
      <4>2. g.at = end /\ g.cmd.op = Command(c)
        BY <2>5, <2>8, <3>3, <3>6 DEF Parsed
      <4>3. ASSUME NEW known \in BOOLEAN, NEW means, means.op \in WithNumbers,
                   ReadsLine(f, end, e, to, r, known, means),
                   m = IF known THEN means ELSE Unknown
            PROVE  Goal
        <5>1. end \in Nat /\ from <= end
          <6>1. end \in from .. Len(f)
            BY <3>3
          <6> QED BY <1>1, <1>2, <6>1
        <5> QED BY <1>1, <1>2, <4>3, <5>1, NumbersLine DEF Goal
      <4>4. CASE c = "C"
        <5>1. r = parse_create(f, end, stale)
          BY <1>4, <4>2, <4>4, KeywordsMean
        <5>2. m = IF IsCreate(a) THEN CreateMeans(a) ELSE Unknown
          BY <2>2, <2>3, <2>8, <3>6, <4>4, MeaningIs DEF m, w, a
        <5>3. ReadsLine(f, end, e, to, r, IsCreate(a), CreateMeans(a))
          BY <4>1, <5>1, CreateReads DEF CreateMeans
        <5>4. IsCreate(a) \in BOOLEAN /\ CreateMeans(a).op \in WithNumbers
          BY DEF IsCreate, CreateMeans, WithNumbers
        <5> QED BY <4>3, <5>2, <5>3, <5>4
      <4>5. CASE c = "R"
        <5>1. r = parse_reserve(f, end, stale)
          BY <1>4, <4>2, <4>5, KeywordsMean
        <5>2. m = IF KnownReserve(a) THEN ReserveMeans(a) ELSE Unknown
          BY <2>2, <2>3, <2>8, <3>6, <4>5, MeaningIs DEF m, w, a
        <5>3. ReadsLine(f, end, e, to, r, KnownReserve(a), ReserveMeans(a))
          BY <4>1, <5>1, ReserveReads
        <5>4. KnownReserve(a) \in BOOLEAN /\ ReserveMeans(a).op \in WithNumbers
          BY DEF KnownReserve, ReserveMeans, WithNumbers
        <5> QED BY <4>3, <5>2, <5>3, <5>4
      <4>6. CASE c = "S"
        <5>1. r = parse_show(f, end, stale)
          BY <1>4, <4>2, <4>6, KeywordsMean
        <5>2. m = IF IsShow(a) THEN ShowMeans(a) ELSE Unknown
          BY <2>2, <2>3, <2>8, <3>6, <4>6, MeaningIs DEF m, w, a
        <5>3. ReadsLine(f, end, e, to, r, IsShow(a), ShowMeans(a))
          BY <4>1, <5>1, ShowReads DEF ShowMeans
        <5>4. IsShow(a) \in BOOLEAN /\ ShowMeans(a).op \in WithNumbers
          BY DEF IsShow, ShowMeans, WithNumbers
        <5> QED BY <4>3, <5>2, <5>3, <5>4
      <4>7. CASE c = "W"
        <5>1. r = parse_wait(f, end, stale)
          BY <1>4, <4>2, <4>7, KeywordsMean
        <5>2. m = IF IsWait(a) THEN WaitMeans ELSE Unknown
          BY <2>2, <2>3, <2>8, <3>6, <4>7, MeaningIs DEF m, w, a
        <5>3. ReadsLine(f, end, e, to, r, IsWait(a), WaitMeans)
          BY <4>1, <5>1, WaitReads DEF WaitMeans
        <5>4. IsWait(a) \in BOOLEAN /\ WaitMeans.op \in WithNumbers
          BY DEF IsWait, WaitMeans, WithNumbers
        <5> QED BY <4>3, <5>2, <5>3, <5>4
      <4>8. c \in {"C", "R", "S", "W"}
        BY <3>1, <3>6, KeywordsMean
      <4> QED BY <4>4, <4>5, <4>6, <4>7, <4>8
    <3> QED BY <3>4, <3>5, <3>6
  <2> QED BY <2>6, <2>7, <2>8
<1> QED BY <1>9, <1>10

-----------------------------------------------------------------------------
(* The lines of a file follow each other from its head to its end, and all *)
(* of them but the last have a newline.                                    *)
LEMMA LinesAre ==
  ASSUME NEW f \in Texts, NEW L, IsText(f, L)
  PROVE  /\ Len(L) \in Nat /\ DOMAIN L = 1 .. Len(L) /\ Len(f) \in Nat
         /\ Len(f) # 0 => Len(L) # 0
         /\ Len(L) # 0 => L[1].from = 0 /\ L[Len(L)].to = Len(f)
         /\ \A i \in 1 .. Len(L) :
              /\ IsLine(f, L[i].from, L[i].to)
              /\ L[i].means = Meaning(Content(f, L[i].from, L[i].to))
              /\ L[i].from \in Nat /\ L[i].to \in Nat
              /\ L[i].from < L[i].to /\ L[i].to <= Len(f)
              /\ i # Len(L) => /\ i + 1 \in 1 .. Len(L) /\ L[i + 1].from = L[i].to
                               /\ f[L[i].to] = Newline
<1> DEFINE n == Len(L)
<1>1. /\ n \in Nat /\ DOMAIN L = 1 .. n
      /\ IF n = 0 THEN f = <<>> ELSE L[1].from = 0 /\ L[n].to = Len(f)
      /\ \A i \in 1 .. n : /\ IsLine(f, L[i].from, L[i].to)
                           /\ L[i].means = Meaning(Content(f, L[i].from, L[i].to))
                           /\ i > 1 => L[i].from = L[i - 1].to
  BY DEF IsText
<1> HIDE DEF n
<1>2. Len(f) \in Nat
  BY DEF Texts
<1>3. Len(f) # 0 => n # 0
  <2>1. Len(<<>>) = 0
    OBVIOUS
  <2> QED BY <1>1, <2>1
<1>4. ASSUME NEW i \in 1 .. n
      PROVE  L[i].from \in Nat /\ L[i].to \in Nat /\ L[i].from < L[i].to /\ L[i].to <= Len(f)
  <2>1. L[i].to \in 1 .. Len(f) /\ L[i].from \in 0 .. L[i].to - 1
    BY <1>1 DEF IsLine
  <2> QED BY <1>2, <2>1
<1>5. ASSUME NEW i \in 1 .. n, i # n
      PROVE  i + 1 \in 1 .. n /\ L[i + 1].from = L[i].to /\ f[L[i].to] = Newline
  <2>1. i + 1 \in 1 .. n /\ i + 1 > 1 /\ (i + 1) - 1 = i
    BY <1>1, <1>5
  <2>2. L[i + 1].from = L[i].to
    BY <1>1, <2>1
  <2>3. L[i].to # Len(f)
    BY <1>2, <1>4, <2>1, <2>2
  <2>4. IsLine(f, L[i].from, L[i].to)
    BY <1>1
  <2> QED BY <2>1, <2>2, <2>3, <2>4 DEF IsLine
<1> QED BY <1>1, <1>2, <1>3, <1>4, <1>5 DEF n

LEMMA LinesInOrder ==
  ASSUME NEW f \in Texts, NEW L, IsText(f, L), NEW i \in 1 .. Len(L), NEW j \in 1 .. Len(L),
         i < j
  PROVE  L[i].to <= L[j].from
<1> DEFINE n == Len(L)
           S == {m \in Nat : i + 1 + m <= n => L[i].to <= L[i + 1 + m].from}
<1>1. /\ n \in Nat
      /\ \A k \in 1 .. n :
           /\ L[k].from \in Nat /\ L[k].to \in Nat /\ L[k].from < L[k].to
           /\ k # n => L[k + 1].from = L[k].to
  BY LinesAre
<1> HIDE DEF n
<1>2. i \in Nat /\ j \in Nat /\ i \in 1 .. n /\ j \in 1 .. n /\ i <= n /\ j <= n
  BY <1>1 DEF n
<1>3. 0 \in S
  <2>1. L[i + 1].from = L[i].to /\ i + 1 + 0 = i + 1
    BY <1>1, <1>2
  <2>2. L[i].to <= L[i].to
    BY <1>1, <1>2
  <2> QED BY <2>1, <2>2
<1>4. ASSUME NEW m \in S
      PROVE  m + 1 \in S
  <2>1. m \in Nat /\ m + 1 \in Nat /\ (i + 1 + m <= n => L[i].to <= L[i + 1 + m].from)
    OBVIOUS
  <2> DEFINE k == i + 1 + m
  <2>2. k \in Nat /\ k >= 1 /\ i + 1 + (m + 1) = k + 1
    BY <1>2, <2>1
  <2>3. k <= n => L[i].to <= L[k].from
    BY <2>1
  <2> HIDE DEF k
  <2>4. ASSUME k + 1 <= n
        PROVE  L[i].to <= L[k + 1].from
    <3>1. k \in 1 .. n /\ k # n
      BY <1>1, <2>2, <2>4
    <3>2. /\ L[k].from \in Nat /\ L[k].to \in Nat /\ L[k].from < L[k].to
          /\ L[k + 1].from = L[k].to /\ L[i].to <= L[k].from /\ L[i].to \in Nat
      BY <1>1, <1>2, <2>3, <3>1
    <3> QED BY <3>2
  <2> QED BY <2>1, <2>2, <2>4
<1>5. S = Nat
  <2>1. S \in SUBSET Nat
    OBVIOUS
  <2> HIDE DEF S
  <2> QED BY <1>3, <1>4, <2>1, SetInduction
<1>6. j - i - 1 \in Nat /\ i + 1 + (j - i - 1) = j
  BY <1>2
<1> DEFINE m == j - i - 1
<1>7. m \in S
  BY <1>5, <1>6
<1> QED BY <1>2, <1>6, <1>7

(* Every place in the file is in one of its lines.                         *)
LEMMA LineAt ==
  ASSUME NEW f \in Texts, NEW L, IsText(f, L), NEW p \in Nat, p < Len(f)
  PROVE  \E i \in 1 .. Len(L) : L[i].from <= p /\ p < L[i].to
<1> DEFINE n == Len(L)
           S == {q \in Nat : q < Len(f) => \E i \in 1 .. n : L[i].from <= q /\ q < L[i].to}
<1>1. /\ n \in Nat /\ Len(f) \in Nat
      /\ Len(f) # 0 => n # 0
      /\ n # 0 => L[1].from = 0 /\ L[n].to = Len(f)
      /\ \A i \in 1 .. n :
           /\ L[i].from \in Nat /\ L[i].to \in Nat /\ L[i].from < L[i].to
           /\ i # n => i + 1 \in 1 .. n /\ L[i + 1].from = L[i].to
  BY LinesAre
<1> HIDE DEF n
<1>2. 0 \in S
  <2>1. ASSUME 0 < Len(f)
        PROVE  1 \in 1 .. n /\ L[1].from <= 0 /\ 0 < L[1].to
    <3>1. 1 \in 1 .. n /\ L[1].from = 0
      BY <1>1, <2>1
    <3>2. L[1].to \in Nat /\ L[1].from < L[1].to
      BY <1>1, <3>1
    <3> QED BY <3>1, <3>2
  <2> QED BY <2>1
<1>3. ASSUME NEW q \in S
      PROVE  q + 1 \in S
  <2>1. q \in Nat /\ q + 1 \in Nat
    OBVIOUS
  <2>2. ASSUME q + 1 < Len(f)
        PROVE  \E i \in 1 .. n : L[i].from <= q + 1 /\ q + 1 < L[i].to
    <3>1. q < Len(f)
      BY <1>1, <2>1, <2>2
    <3>2. PICK i \in 1 .. n : L[i].from <= q /\ q < L[i].to
      BY <3>1
    <3>3. L[i].from \in Nat /\ L[i].to \in Nat
      BY <1>1
    <3>4. CASE q + 1 < L[i].to
      BY <2>1, <3>2, <3>3, <3>4
    <3>5. CASE ~ (q + 1 < L[i].to)
      <4>1. L[i].to = q + 1
        BY <2>1, <3>2, <3>3, <3>5
      <4>2. i # n
        BY <1>1, <2>1, <2>2, <4>1
      <4>3. i + 1 \in 1 .. n /\ L[i + 1].from = q + 1
        BY <1>1, <4>1, <4>2
      <4>4. L[i + 1].to \in Nat /\ L[i + 1].from < L[i + 1].to
        BY <1>1, <4>3
      <4> DEFINE k == i + 1
      <4>5. k \in 1 .. n /\ L[k].from <= q + 1 /\ q + 1 < L[k].to
        BY <2>1, <4>3, <4>4
      <4> HIDE DEF k
      <4> QED BY <4>5
    <3> QED BY <3>4, <3>5
  <2> QED BY <2>1, <2>2
<1>4. S = Nat
  <2>1. S \in SUBSET Nat
    OBVIOUS
  <2> HIDE DEF S
  <2> QED BY <1>2, <1>3, <2>1, SetInduction
<1>5. p \in S
  BY <1>4
<1> QED BY <1>5 DEF n

(* cleanup from some place goes to the end of the line it is in.           *)
LEMMA CleansToLineEnd ==
  ASSUME NEW f \in Texts, NEW L, IsText(f, L), Len(f) # 0, NEW q \in 0 .. Len(f)
  PROVE  \E j \in 1 .. Len(L) : /\ cleanup(f, q) = L[j].to /\ L[j].from <= q
                                /\ q < L[j].to \/ L[j].to = Len(f)
<1> DEFINE n == Len(L)
<1>1. /\ n \in Nat /\ n # 0 /\ n \in 1 .. n /\ Len(f) \in Nat /\ L[n].to = Len(f)
      /\ \A i \in 1 .. n : /\ IsLine(f, L[i].from, L[i].to)
                           /\ L[i].from \in Nat /\ L[i].to \in Nat
                           /\ L[i].from < L[i].to /\ L[i].to <= Len(f)
  <2>1. /\ n \in Nat /\ n # 0 /\ Len(f) \in Nat /\ L[n].to = Len(f)
        /\ \A i \in 1 .. n : /\ IsLine(f, L[i].from, L[i].to)
                             /\ L[i].from \in Nat /\ L[i].to \in Nat
                             /\ L[i].from < L[i].to /\ L[i].to <= Len(f)
    BY LinesAre
  <2> HIDE DEF n
  <2> QED BY <2>1
<1> HIDE DEF n
<1>2. CASE q < Len(f)
  <2>1. q \in Nat
    BY <1>1
  <2>2. PICK j \in 1 .. n : L[j].from <= q /\ q < L[j].to
    BY <1>2, <2>1, LineAt DEF n
  <2> DEFINE to == L[j].to
  <2>3. /\ to \in Nat /\ to <= Len(f) /\ L[j].from \in Nat /\ IsLine(f, L[j].from, to)
    BY <1>1
  <2>4. to \in q .. Len(f) /\ to # q
    BY <1>1, <2>1, <2>2, <2>3
  <2>5. \A i \in (q + 1) .. (to - 1) : i \in (L[j].from + 1) .. (to - 1)
    BY <2>1, <2>2, <2>3
  <2> HIDE DEF to
  <2>6. /\ \A i \in (q + 1) .. (to - 1) : f[i] # Newline
        /\ to = Len(f) \/ (to # q /\ f[to] = Newline)
    BY <2>3, <2>4, <2>5 DEF IsLine
  <2>7. cleanup(f, q) = to
    BY ONLY <2>4, <2>6, CleansUpTo, f \in Texts, q \in 0 .. Len(f)
  <2> QED BY <2>2, <2>7 DEF n, to
<1>3. CASE ~ (q < Len(f))
  <2>1. q = Len(f) /\ q \in q .. Len(f) /\ \A i \in (q + 1) .. (q - 1) : f[i] # Newline
    BY <1>1, <1>3
  <2>2. cleanup(f, q) = q
    BY <2>1, CleansUpTo
  <2>3. L[n].from <= q
    BY <1>1, <2>1
  <2> QED BY <1>1, <2>1, <2>2, <2>3 DEF n
<1> QED BY <1>2, <1>3

(* A line with a command is longer than its keyword.                       *)
LEMMA CommandIsLong ==
  ASSUME NEW f \in Texts, Nul \notin ToSet(f), NEW from, NEW to, IsLine(f, from, to),
         Meaning(Content(f, from, to)).op \notin {"empty", "invalid"}
  PROVE  from + 4 <= to
<1> DEFINE line == Content(f, from, to)
           w == Keyword(line)
<1>1. PICK e \in from .. to : /\ IsArguments(f, from, e, to, line)
                              /\ e < Len(f) <=> f[to] = Newline
                              /\ from \in Nat /\ to \in Nat /\ to <= Len(f)
  BY LineIsArguments
<1>2. Len(line) = e - from /\ e \in Nat /\ e <= to /\ line \in Texts
  <2>1. IsArguments(f, from, e, to, line)
    BY <1>1
  <2>2. Len(line) = e - from /\ e \in Nat /\ line \in Texts
    BY ONLY <2>1, ArgumentsAre, f \in Texts
  <2> QED BY <1>1, <2>2
<1>3. Meaning(line).op \notin {"empty", "invalid"}
  OBVIOUS
<1> HIDE DEF line
<1>4. line # <<>> /\ line[1] # "#"
  BY <1>3 DEF Meaning
<1>5. w # <<>> /\ IsPrefix(w, line)
  <2>1. Meaning(line) # Unknown
    BY <1>3 DEF Unknown
  <2> QED BY <1>4, <2>1, MeaningIs
<1>6. Len(w) \in 4 .. 8
  BY <1>5, WordIs DEF Keyword
<1> HIDE DEF w
<1>7. Len(w) <= Len(line)
  BY <1>5 DEF IsPrefix
<1> DEFINE n == Len(line)
           m == Len(w)
<1>8. m <= n /\ m >= 4 /\ m \in Nat /\ n = e - from /\ e <= to /\ e \in Nat
  <2>1. m \in Nat /\ m >= 4
    <3> HIDE DEF m
    <3>1. m \in 4 .. 8
      BY <1>6 DEF m
    <3> QED BY <3>1
  <2> QED BY <1>2, <1>7, <2>1
<1> HIDE DEF n, m
<1> QED BY <1>1, <1>8

LEMMA AtMostTwo ==
  ASSUME NEW x, NEW y, NEW C, \A c \in C : c = x \/ c = y
  PROVE  Cardinality(C) <= 2
<1> DEFINE one == {x}
           two == one \cup {y}
<1>1. IsFiniteSet({}) /\ Cardinality({}) = 0
  BY FS_EmptySet
<1>2. IsFiniteSet(one) /\ Cardinality(one) = 1
  BY FS_Singleton
<1>3. IsFiniteSet(two) /\ Cardinality(two) \in Nat /\ Cardinality(two) <= 2
  <2> HIDE DEF one
  <2>1. /\ IsFiniteSet(one \cup {y})
        /\ Cardinality(one \cup {y}) = IF y \in one THEN Cardinality(one) ELSE Cardinality(one) + 1
    BY <1>2, FS_AddElement
  <2> HIDE DEF two
  <2>2. two = one \cup {y}
    BY DEF two
  <2> QED BY <1>2, <2>1, <2>2
<1>4. C \in SUBSET two
  OBVIOUS
<1> HIDE DEF two
<1>5. IsFiniteSet(C) /\ Cardinality(C) <= Cardinality(two)
  BY <1>3, <1>4, FS_Subset
<1>6. Cardinality(C) \in Nat
  BY <1>5, FS_CardinalityType
<1> QED BY <1>3, <1>5, <1>6

CommandsOf(L, i, j) == {l \in (i + 1) .. j : L[l].means.op \notin {"empty", "invalid"}}

(* A command is read to the end of its line.  After an invalid line, what  *)
(* is behind it may be lost, up to the end of the line where the last      *)
(* character of a keyword would be: no two commands are shorter.           *)
LEMMA ReadToLineEnd ==
  ASSUME NEW f \in Texts, Nul \notin ToSet(f), NEW L, IsText(f, L), NEW i \in 1 .. Len(L),
         NEW stale \in DigitRuns, NEW r, r = ReadCommand(f, L[i].from, stale)
  PROVE  \E j \in i .. Len(L) :
           /\ r.at = L[j].to
           /\ j = i \/ L[i].means.op = "invalid"
           /\ Cardinality(CommandsOf(L, i, j)) <= 2
<1> DEFINE n == Len(L)
           Commands(j) == CommandsOf(L, i, j)
<1> SUFFICES \E j \in i .. n :
               /\ r.at = L[j].to /\ (j = i \/ L[i].means.op = "invalid")
               /\ Cardinality(Commands(j)) <= 2
  OBVIOUS
<1>1. /\ n \in Nat /\ Len(f) \in Nat
      /\ \A k \in 1 .. n : /\ IsLine(f, L[k].from, L[k].to)
                           /\ L[k].means = Meaning(Content(f, L[k].from, L[k].to))
                           /\ L[k].from \in Nat /\ L[k].to \in Nat
                           /\ L[k].from < L[k].to /\ L[k].to <= Len(f)
  BY LinesAre
<1>2. i \in 1 .. n
  OBVIOUS
<1> HIDE DEF n
<1>3. i \in Nat /\ i >= 1 /\ i <= n
  BY <1>1, <1>2
<1>4. ReadsAs(f, L[i].from, L[i].to, r, L[i].means)
  <2> DEFINE from == L[i].from
             to == L[i].to
  <2>1. IsLine(f, from, to) /\ L[i].means = Meaning(Content(f, from, to))
    BY <1>1, <1>2
  <2>2. r = ReadCommand(f, from, stale)
    OBVIOUS
  <2> HIDE DEF from, to
  <2>3. ReadsAs(f, from, to, ReadCommand(f, from, stale), Meaning(Content(f, from, to)))
    BY ONLY <2>1, LinesRead, f \in Texts, Nul \notin ToSet(f), stale \in DigitRuns
  <2> QED BY <2>1, <2>2, <2>3 DEF from, to
<1>5. CASE L[i].means.op # "invalid"
  <2>1. r.at = L[i].to /\ i \in i .. n
    BY <1>3, <1>4, <1>5 DEF ReadsAs
  <2>2. \A c \in Commands(i) : c = i
    BY <1>3 DEF CommandsOf
  <2> HIDE DEF Commands
  <2>3. Cardinality(Commands(i)) <= 2
    BY <2>2, AtMostTwo
  <2> QED BY <2>1, <2>3
<1>6. CASE L[i].means.op = "invalid"
  <2>1. PICK q \in L[i].from .. Len(f) :
          r.at = cleanup(f, q) /\ (q <= L[i].to \/ q <= L[i].from + 8)
    BY <1>4, <1>6 DEF ReadsAs
  <2>2. L[i].from \in Nat /\ L[i].to \in Nat /\ L[i].from < L[i].to /\ L[i].to <= Len(f)
    BY <1>1, <1>2
  <2>3. q \in Nat /\ q \in 0 .. Len(f) /\ L[i].from <= q /\ Len(f) # 0
    BY <1>1, <2>1, <2>2
  <2>4. PICK j \in 1 .. n : /\ cleanup(f, q) = L[j].to /\ L[j].from <= q
                            /\ q < L[j].to \/ L[j].to = Len(f)
    BY <2>3, CleansToLineEnd DEF n
  <2>5. /\ j \in Nat /\ j <= n /\ L[j].from \in Nat /\ L[j].to \in Nat
    BY <1>1
  <2>6. \A k, l \in 1 .. n : k < l => L[k].to <= L[l].from
    BY LinesInOrder DEF n
  <2>7. j \in i .. n
    <3>1. ASSUME j < i PROVE FALSE
      <4>1. L[j].to <= L[i].from
        BY <1>2, <2>6, <3>1
      <4> QED BY <1>1, <2>2, <2>3, <2>4, <2>5, <4>1
    <3> QED BY <1>1, <1>3, <2>5, <3>1
  <2>8. /\ Commands(j) \in SUBSET Nat
        /\ \A k \in Commands(j) : /\ k \in 1 .. n /\ i < k /\ k <= j
                                  /\ L[k].means.op \notin {"empty", "invalid"}
    BY <1>1, <1>3, <2>5 DEF CommandsOf
  <2> HIDE DEF Commands
  <2>9. ASSUME NEW k \in Commands(j), NEW l \in Commands(j), k < l
        PROVE  l = j
    <3>1. /\ k \in 1 .. n /\ l \in 1 .. n /\ i < k /\ l <= j /\ k \in Nat /\ l \in Nat
          /\ L[k].means.op \notin {"empty", "invalid"} /\ L[l].means.op \notin {"empty", "invalid"}
      BY <2>8
    <3>2. L[k].from + 4 <= L[k].to /\ L[l].from + 4 <= L[l].to
      BY <1>1, <3>1, CommandIsLong
    <3>3. L[i].to <= L[k].from /\ L[k].to <= L[l].from
      BY <1>2, <2>6, <2>9, <3>1
    <3>4. /\ L[k].from \in Nat /\ L[k].to \in Nat /\ L[l].from \in Nat /\ L[l].to \in Nat
      BY <1>1, <3>1
    <3>5. ASSUME l < j PROVE FALSE
      <4>1. L[l].to <= L[j].from
        BY <2>6, <3>1, <3>5
      <4>2. q <= L[i].to \/ q <= L[i].from + 8
        BY <2>1
      <4> DEFINE a == L[i].from
                 b == L[i].to
                 c == L[k].from
                 d == L[k].to
                 u == L[l].from
                 v == L[l].to
                 w == L[j].from
      <4>3. a \in Nat /\ b \in Nat /\ c \in Nat /\ d \in Nat /\ u \in Nat /\ v \in Nat /\ w \in Nat
        BY <2>2, <2>5, <3>4
      <4>4. a < b /\ b <= c /\ c + 4 <= d /\ d <= u /\ u + 4 <= v /\ v <= w /\ w <= q
        BY <2>2, <2>4, <3>2, <3>3, <4>1
      <4>5. q <= b \/ q <= a + 8
        BY <4>2
      <4> HIDE DEF a, b, c, d, u, v, w
      <4> QED BY <2>3, <4>3, <4>4, <4>5
    <3> QED BY <2>5, <3>1, <3>5
  <2>10. \E x : \A c \in Commands(j) : c = x \/ c = j
    <3>1. CASE \E x \in Commands(j) : x # j
      <4>1. PICK x \in Commands(j) : x # j
        BY <3>1
      <4>2. ASSUME NEW c \in Commands(j), c # x
            PROVE  c = j
        <5>1. c < x \/ x < c
          BY <2>8, <4>2
        <5> QED BY <2>9, <4>1, <5>1
      <4> QED BY <4>2
    <3>2. CASE ~ \E x \in Commands(j) : x # j
      BY <3>2
    <3> QED BY <3>1, <3>2
  <2>11. Cardinality(Commands(j)) <= 2
    BY <2>10, AtMostTwo
  <2> QED BY <1>6, <2>1, <2>4, <2>7, <2>11
<1> QED BY <1>5, <1>6
=============================================================================
