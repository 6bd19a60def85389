------------------------ MODULE ClientSessionProofs ------------------------
(***************************************************************************)
(* Proofs about ClientSession: for any plans, values, number of calls and  *)
(* buffers, the client and its worker stay in step until an answer is too  *)
(* long for a read, and what the client prints is what the store answered. *)
(***************************************************************************)
EXTENDS ClientSession, CommonProofs, SequenceTheorems

(* The numbers that a pipe may hold, and the requests.                     *)
Wire == [as : {"text", "int", "size_t", "unsigned"}, val : Nat \cup {-1}]
Commands == DOMAIN FirstRead

(* The writes that the worker has still to do.                             *)
PiecesTyped == pieces \in Seq(Seq(Wire)) /\ (wpc = "write" => pieces # <<>>)

(* While nothing was cut, where the client and the worker stand determines *)
(* what the pipes hold: nothing between two commands; a request that was   *)
(* not taken yet; an answer of one or two writes, of which so much is      *)
(* written and so much is read; or the request to quit.                    *)
Idle == at = "loop" /\ req = <<>> /\ resp = <<>> /\ wpc = "read"
Sent(op) == at = FirstRead[op] /\ req = <<op>> /\ resp = <<>> /\ wpc = "read"
OneWrite(op) ==
  \E w \in Seq(Wire) :
    /\ told.writes = <<w>>
    /\ \/ at = FirstRead[op] /\ wpc = "write" /\ pieces = <<w>> /\ resp = <<>>
       \/ at = FirstRead[op] /\ wpc = "read" /\ resp = w
       \/ op = "show" /\ at = "body" /\ wpc = "read" /\ resp = <<>>
TwoWrites ==
  \E v, w \in Seq(Wire) :
    /\ told.writes = <<v, w>>
    /\ \/ at = "size" /\ wpc = "write" /\ pieces = <<v, w>> /\ resp = <<>>
       \/ at = "size" /\ wpc = "write" /\ pieces = <<w>> /\ resp = v
       \/ at = "size" /\ wpc = "read" /\ resp = v \o w
       \/ at = "body" /\ wpc = "write" /\ pieces = <<w>> /\ resp = <<>>
       \/ at = "body" /\ wpc = "read" /\ resp \in {w, <<>>}
Answered(op) ==
  req = <<>> /\ told \in Answers(op) /\ (OneWrite(op) \/ (op = "show" /\ TwoWrites))
Quitting ==
  /\ at = "ended" /\ resp = <<>>
  /\ \/ req = <<"quit">> /\ wpc = "read"
     \/ req = <<>> /\ wpc = "free"

InPhase == Idle \/ Quitting \/ \E op \in Commands : Sent(op) \/ Answered(op)

(* The inductive invariant.                                                *)
SessionInv == TypeOK /\ PiecesTyped /\ (~ cut => InPhase) /\ PrintsTheAnswer

-----------------------------------------------------------------------------
(* The size of what is written is a number.                                *)
LEMMA BytesIsNat ==
  ASSUME NEW f
  PROVE  Bytes(f) \in Nat
BY DEF Bytes, TextBytes

LEMMA TotalIsNat ==
  ASSUME NEW fs, Len(fs) \in Nat
  PROVE  Total(fs) \in Nat
<1> DEFINE n == Len(fs)
           b == [k \in 1 .. n |-> Bytes(fs[k])]
           sums == CHOOSE s : s = [k \in 0 .. n |-> IF k = 0 THEN 0 ELSE s[k - 1] + Bytes(fs[k])]
<1>1. \A k \in 1 .. n : b[k] \in Nat
  BY BytesIsNat
<1>2. \A s : [k \in 0 .. n |-> IF k = 0 THEN 0 ELSE s[k - 1] + Bytes(fs[k])]
              = [k \in 0 .. n |-> IF k = 0 THEN 0 ELSE s[k - 1] + b[k]]
  OBVIOUS
<1>3. PICK s : s = [k \in 0 .. n |-> IF k = 0 THEN 0 ELSE s[k - 1] + b[k]]
  <2> HIDE DEF b, n
  <2> QED BY <1>1, PartialSums DEF n
<1>4. sums = [k \in 0 .. n |-> IF k = 0 THEN 0 ELSE sums[k - 1] + b[k]]
  BY <1>2, <1>3, ZenonT(60)
<1>5. sums \in [0 .. n -> Nat]
  <2> HIDE DEF b, n, sums
  <2> QED BY <1>1, <1>4, PartialSumsAreNumbers DEF n
<1>6. Total(fs) = sums[n]
  BY DEF Total
<1> HIDE DEF sums
<1> QED BY <1>5, <1>6

(* Ids are written one after the other.                                    *)
LEMMA IdsAreWire ==
  ASSUME NEW s \in Seq(Nat)
  PROVE  /\ IdsAs(s) \in Seq(Wire) /\ Len(IdsAs(s)) = Len(s)
         /\ \A i \in 1 .. Len(s) : IdsAs(s)[i] = AsId(s[i])
<1>1. \A i \in 1 .. Len(s) : AsId(s[i]) \in Wire
  BY DEF AsId, Wire
<1>2. IdsAs(s) = [i \in 1 .. Len(s) |-> AsId(s[i])]
  BY DEF IdsAs
<1> DEFINE t == [i \in 1 .. Len(s) |-> AsId(s[i])]
<1>3. t \in Seq(Wire) /\ Len(t) = Len(s) /\ \A i \in 1 .. Len(s) : t[i] = AsId(s[i])
  BY <1>1
<1> QED BY <1>2, <1>3

(* The rows, the columns and the seats of an event.                        *)
LEMMA SeatsAreNumbers ==
  ASSUME NEW s \in Seats
  PROVE  /\ s \in Seq(Nat) /\ Len(s) >= 3
         /\ Len(s) = 2 + s[1] * s[2]
<1>1. PICK p \in Plans : \E u \in [1 .. (p[1] * p[2]) -> Values] : s = <<p[1], p[2]>> \o u
  BY DEF Seats
<1>2. PICK u \in [1 .. (p[1] * p[2]) -> Values] : s = <<p[1], p[2]>> \o u
  BY <1>1
<1>3. /\ p[1] \in Nat \ {0} /\ p[2] \in Nat \ {0} /\ Values \subseteq Nat
  BY ClientSessionAssumption
<1> DEFINE n == p[1] * p[2]
<1>4. n \in Nat /\ n >= 1
  BY <1>3, Z3
<1> HIDE DEF n
<1>5. u \in Seq(Nat) /\ Len(u) = n
  <2>1. u \in [1 .. n -> Nat]
    BY <1>2, <1>3 DEF n
  <2>2. n \in Nat
    BY <1>4
  <2> QED BY <2>1, <2>2
<1>6. <<p[1], p[2]>> \in Seq(Nat) /\ Len(<<p[1], p[2]>>) = 2
  BY <1>3
<1>7. s \in Seq(Nat) /\ Len(s) = 2 + n /\ s[1] = p[1] /\ s[2] = p[2]
  BY <1>2, <1>5, <1>6
<1> QED BY <1>4, <1>7 DEF n

(* The second write of SHOW is what the client decodes as one.             *)
LEMMA ShowDecodes ==
  ASSUME NEW s \in Seats
  PROVE  /\ SeatsWrite(s) \in Seq(Wire)
         /\ IsShow(SeatsWrite(s)) /\ ValuesOf(Tail(SeatsWrite(s))) = s
<1> DEFINE n == Len(s)
           t == SubSeq(s, 3, n)
           h == <<AsInt(0), AsSize(s[1]), AsSize(s[2])>>
           f == h \o IdsAs(t)
<1>1. /\ s \in Seq(Nat) /\ n >= 3 /\ n \in Nat /\ n = 2 + s[1] * s[2]
      /\ s[1] \in Nat /\ s[2] \in Nat
  BY SeatsAreNumbers
<1>2. /\ t \in Seq(Nat) /\ Len(t) = n - 2 /\ \A i \in 1 .. (n - 2) : t[i] = s[i + 2]
  <2>1. \A i \in 3 .. n : s[i] \in Nat
    <3> SUFFICES ASSUME NEW i \in 3 .. n PROVE s[i] \in Nat
      OBVIOUS
    <3>1. s \in Seq(Nat) /\ i \in 1 .. Len(s)
      BY <1>1
    <3> HIDE DEF n
    <3> QED BY <3>1, ElementOfSeq
  <2>2. n \in Int /\ 3 \in Int /\ 3 <= n /\ n - 3 + 1 = n - 2
    BY <1>1
  <2>3. \A i \in 1 .. (n - 2) : 3 + i - 1 = i + 2
    BY <1>1
  <2> HIDE DEF n
  <2>4. /\ t \in Seq(Nat) /\ Len(t) = n - 2 /\ \A i \in 1 .. (n - 2) : t[i] = s[3 + i - 1]
    BY <2>1, <2>2, SubSeqProperties
  <2> QED BY <2>3, <2>4
<1>3. /\ IdsAs(t) \in Seq(Wire) /\ Len(IdsAs(t)) = n - 2
      /\ \A i \in 1 .. (n - 2) : IdsAs(t)[i] = AsId(s[i + 2])
  <2> HIDE DEF t, n
  <2> QED BY <1>2, IdsAreWire
<1>4. h \in Seq(Wire) /\ Len(h) = 3
  BY <1>1 DEF AsInt, AsSize, Wire
<1>5. /\ f \in Seq(Wire) /\ Len(f) = n + 1
      /\ f[1] = AsInt(0) /\ f[2] = AsSize(s[1]) /\ f[3] = AsSize(s[2])
      /\ \A i \in 4 .. (n + 1) : f[i] = AsId(s[i - 1])
  <2>1. /\ f \in Seq(Wire) /\ Len(f) = n + 1
        /\ \A i \in 1 .. (n + 1) : f[i] = IF i <= 3 THEN h[i] ELSE IdsAs(t)[i - 3]
    <3> DEFINE r == IdsAs(t)
    <3>1. r \in Seq(Wire) /\ Len(r) = n - 2 /\ h \in Seq(Wire) /\ Len(h) = 3 /\ n \in Nat
      BY <1>1, <1>3, <1>4
    <3> HIDE DEF n, t, h, r
    <3>2. /\ h \o r \in Seq(Wire) /\ Len(h \o r) = Len(h) + Len(r)
          /\ \A i \in 1 .. Len(h) + Len(r) : (h \o r)[i] =
                IF i <= Len(h) THEN h[i] ELSE r[i - Len(h)]
      BY <3>1, ConcatProperties
    <3>3. Len(h) + Len(r) = n + 1
      BY <3>1
    <3>4. f = h \o r
      BY DEF r
    <3> HIDE DEF f
    <3>5. f \in Seq(Wire) /\ Len(f) = n + 1
      BY <3>2, <3>3, <3>4
    <3>6. \A i \in 1 .. (n + 1) : f[i] = IF i <= 3 THEN h[i] ELSE r[i - 3]
      BY <3>1, <3>2, <3>3, <3>4
    <3> QED BY <3>5, <3>6 DEF r
  <2>2. h[1] = AsInt(0) /\ h[2] = AsSize(s[1]) /\ h[3] = AsSize(s[2])
    OBVIOUS
  <2> HIDE DEF n, t, h, f
  <2> n \in Nat /\ n >= 3
    BY <1>1
  <2>3. n + 1 \in Nat /\ n + 1 >= 4
    OBVIOUS
  <2>4. \A i \in 4 .. (n + 1) :
          /\ i \in 1 .. (n + 1) /\ ~ (i <= 3)
          /\ i - 3 \in 1 .. (n - 2) /\ (i - 3) + 2 = i - 1
    OBVIOUS
  <2>5. \A i \in 4 .. (n + 1) : f[i] = AsId(s[i - 1])
    BY <1>3, <2>1, <2>4
  <2> QED BY <2>1, <2>2, <2>3, <2>5
<1>6. SeatsWrite(s) = f
  BY DEF SeatsWrite
<1>7. IsShow(f)
  <2> HIDE DEF f, n
  <2>1. f[2].as = "size_t" /\ f[2].val = s[1] /\ f[3].as = "size_t" /\ f[3].val = s[2]
    BY <1>5 DEF AsSize
  <2>2. Len(f) > 3 /\ Len(f) = 3 + s[1] * s[2]
    BY <1>1, <1>5
  <2> QED BY <1>5, <2>1, <2>2 DEF IsShow
<1>8. ValuesOf(Tail(f)) = s
  <2> DEFINE g == Tail(f)
  <2>1. /\ g \in Seq(Wire) /\ Len(g) = n /\ \A i \in 1 .. n : g[i] = f[i + 1]
    <3> HIDE DEF f, n
    <3> QED BY <1>1, <1>5
  <2>2. \A i \in 1 .. n : g[i].val = s[i]
    <3> HIDE DEF f, n, g
    <3> SUFFICES ASSUME NEW i \in 1 .. n PROVE g[i].val = s[i]
      OBVIOUS
    <3>1. CASE i = 1
      BY <1>5, <2>1, <3>1 DEF AsSize
    <3>2. CASE i = 2
      BY <1>5, <2>1, <3>2 DEF AsSize
    <3>3. CASE i >= 3
      <4>1. i + 1 \in 4 .. (n + 1) /\ (i + 1) - 1 = i
        BY <1>1, <3>3
      <4>2. g[i] = AsId(s[i])
        BY <1>5, <2>1, <4>1
      <4> QED BY <4>2 DEF AsId
    <3> QED BY <1>1, <3>1, <3>2, <3>3
  <2>3. DOMAIN g = 1 .. n
    BY <2>1
  <2>4. s = [i \in 1 .. n |-> s[i]]
    BY <1>1
  <2>5. ValuesOf(g) = [i \in 1 .. n |-> g[i].val]
    BY <2>3 DEF ValuesOf
  <2> HIDE DEF g, n
  <2> QED BY <2>2, <2>4, <2>5 DEF g
<1> QED BY <1>5, <1>6, <1>7, <1>8

(* So is the write of LIST.                                                *)
LEMMA ListDecodes ==
  ASSUME NEW s \in Lists
  PROVE  /\ ListWrite(s) \in Seq(Wire)
         /\ IsList(ListWrite(s)) /\ ValuesOf(Tail(Tail(ListWrite(s)))) = s
<1> DEFINE n == Len(s)
           h == <<AsInt(0), AsSize(n)>>
           f == h \o IdsAs(s)
<1>1. s \in Seq(Nat) /\ n \in Nat /\ n >= 1
  <2>1. s # <<>> /\ \E m \in 0 .. MaxEvents : s \in [1 .. m -> Values]
    BY DEF Lists, BoundedSeq, SeqOf
  <2>2. PICK m \in 0 .. MaxEvents : s \in [1 .. m -> Values]
    BY <2>1
  <2>4. m \in Nat /\ Values \subseteq Nat
    BY <2>2, ClientSessionAssumption
  <2>5. s \in [1 .. m -> Nat]
    BY <2>2, <2>4
  <2>3. s \in Seq(Nat)
    BY <2>4, <2>5
  <2> QED BY <2>1, <2>3, EmptySeq
<1>2. /\ IdsAs(s) \in Seq(Wire) /\ Len(IdsAs(s)) = n
      /\ \A i \in 1 .. n : IdsAs(s)[i] = AsId(s[i])
  BY <1>1, IdsAreWire
<1>3. h \in Seq(Wire) /\ Len(h) = 2 /\ h[1] = AsInt(0) /\ h[2] = AsSize(n)
  BY <1>1 DEF AsInt, AsSize, Wire
<1>4. /\ f \in Seq(Wire) /\ Len(f) = n + 2 /\ f[1] = AsInt(0) /\ f[2] = AsSize(n)
      /\ \A i \in 1 .. n : f[i + 2] = AsId(s[i])
  <2> DEFINE r == IdsAs(s)
  <2>1. r \in Seq(Wire) /\ Len(r) = n /\ h \in Seq(Wire) /\ Len(h) = 2 /\ n \in Nat
    BY <1>1, <1>2, <1>3
  <2> HIDE DEF n, h, r
  <2>2. /\ h \o r \in Seq(Wire) /\ Len(h \o r) = Len(h) + Len(r)
        /\ \A i \in 1 .. Len(h) + Len(r) : (h \o r)[i] =
              IF i <= Len(h) THEN h[i] ELSE r[i - Len(h)]
    BY <2>1, ConcatProperties
  <2>6. Len(h) + Len(r) = n + 2
    BY <2>1
  <2>3. /\ h \o r \in Seq(Wire) /\ Len(h \o r) = n + 2
        /\ \A i \in 1 .. (n + 2) : (h \o r)[i] = IF i <= 2 THEN h[i] ELSE r[i - 2]
    BY <2>1, <2>2, <2>6
  <2>4. \A i \in 1 .. n : i + 2 \in 1 .. (n + 2) /\ ~ (i + 2 <= 2) /\ (i + 2) - 2 = i
    BY <2>1
  <2>5. 1 \in 1 .. (n + 2) /\ 2 \in 1 .. (n + 2)
    BY <2>1
  <2> QED BY <1>2, <1>3, <2>3, <2>4, <2>5 DEF r
<1>5. ListWrite(s) = f
  BY DEF ListWrite
<1>6. IsList(f)
  <2> HIDE DEF f, n
  <2>1. Len(f) - 2 = n /\ Len(f) > 2
    BY <1>1, <1>4
  <2> QED BY <1>4, <2>1 DEF IsList
<1>7. ValuesOf(Tail(Tail(f))) = s
  <2> DEFINE g == Tail(Tail(f))
  <2>1. /\ Len(g) = n /\ g \in Seq(Wire) /\ \A i \in 1 .. n : g[i] = f[i + 2]
    <3>1. /\ Tail(f) \in Seq(Wire) /\ Len(Tail(f)) = n + 1
          /\ \A i \in 1 .. (n + 1) : Tail(f)[i] = f[i + 1]
      <4> HIDE DEF f, n
      <4> QED BY <1>1, <1>4
    <3> DEFINE h1 == Tail(f)
    <3>2. /\ Len(Tail(h1)) = n /\ Tail(h1) \in Seq(Wire)
          /\ \A i \in 1 .. n : Tail(h1)[i] = h1[i + 1]
      <4> HIDE DEF h1, n
      <4> QED BY <1>1, <3>1 DEF h1
    <3> HIDE DEF f, n
    <3> QED BY <1>1, <3>1, <3>2
  <2>2. \A i \in 1 .. n : g[i].val = s[i]
    <3>1. \A i \in 1 .. n : AsId(s[i]).val = s[i]
      BY DEF AsId
    <3> HIDE DEF g, f, n
    <3> QED BY <1>4, <2>1, <3>1
  <2>3. DOMAIN g = 1 .. n
    BY <2>1
  <2>4. s = [i \in 1 .. n |-> s[i]]
    BY <1>1
  <2>5. ValuesOf(g) = [i \in 1 .. n |-> g[i].val]
    BY <2>3 DEF ValuesOf
  <2> HIDE DEF g, n
  <2> QED BY <2>2, <2>4, <2>5 DEF g
<1> QED BY <1>4, <1>5, <1>6, <1>7

-----------------------------------------------------------------------------
(* What the store can answer: one write, or the two of SHOW.               *)
LEMMA AnswersAre ==
  ASSUME NEW op \in Commands, NEW a \in Answers(op)
  PROVE  /\ a.op = op
         /\ \/ \E w \in Seq(Wire) : a.writes = <<w>>
            \/ op = "show" /\ \E v, w \in Seq(Wire) : a.writes = <<v, w>>
<1>1. CASE op = "show"
  <2>1. a \in ShowAnswers
    BY <1>1 DEF Answers
  <2>2. CASE a = Answer("show", <<>>, << <<AsText(-1)>> >>)
    <3>1. <<AsText(-1)>> \in Seq(Wire)
      BY DEF AsText, Wire
    <3> QED BY <1>1, <2>2, <3>1 DEF Answer
  <2>3. CASE \E s \in Seats :
               a = Answer("show", s, << <<AsText(Total(SeatsWrite(s)))>>, SeatsWrite(s) >>)
    <3>1. PICK s \in Seats :
            a = Answer("show", s, << <<AsText(Total(SeatsWrite(s)))>>, SeatsWrite(s) >>)
      BY <2>3
    <3>2. SeatsWrite(s) \in Seq(Wire)
      BY ShowDecodes
    <3>3. Total(SeatsWrite(s)) \in Nat
      BY <3>2, TotalIsNat, LenProperties
    <3>4. <<AsText(Total(SeatsWrite(s)))>> \in Seq(Wire)
      BY <3>3 DEF AsText, Wire
    <3> QED BY <1>1, <3>1, <3>2, <3>4 DEF Answer
  <2> QED BY <2>1, <2>2, <2>3 DEF ShowAnswers
<1>2. CASE op = "list"
  <2>1. a \in ListAnswers
    BY <1>2 DEF Answers
  <2>2. CASE a = Answer("list", <<>>, << <<AsText(1)>> >>)
    <3>1. <<AsText(1)>> \in Seq(Wire)
      BY DEF AsText, Wire
    <3> QED BY <1>2, <2>2, <3>1 DEF Answer
  <2>3. CASE \E s \in Lists : a = Answer("list", s, <<ListWrite(s)>>)
    BY <1>2, <2>3, ListDecodes DEF Answer
  <2> QED BY <2>1, <2>2, <2>3 DEF ListAnswers
<1>3. CASE op \notin {"show", "list"}
  <2>1. PICK code \in {0, 1} : a = Answer(op, <<code>>, << <<AsInt(code)>> >>)
    BY <1>3 DEF Answers, CodeAnswers
  <2>2. <<AsInt(code)>> \in Seq(Wire)
    BY DEF AsInt, Wire
  <2> QED BY <2>1, <2>2 DEF Answer
<1> QED BY <1>1, <1>2, <1>3

(* The commands and the client's first read after each.                    *)
LEMMA FirstReads ==
  /\ Commands = {"create", "reserve", "show", "list"}
  /\ FirstRead["create"] = "create" /\ FirstRead["reserve"] = "reserve"
  /\ FirstRead["show"] = "size" /\ FirstRead["list"] = "list"
  /\ \A op \in Commands : FirstRead[op] \in {"create", "reserve", "size", "list"}
BY DEF Commands, FirstRead

(* What is in the pipe can be divided into what a read takes and the rest; *)
(* when nothing is left, the read has taken all.                           *)
LEMMA ReadTakes ==
  ASSUME NEW n \in Nat, resp \in Seq(Wire), Read(n)
  PROVE  /\ resp' \in Seq(Wire) /\ resp # <<>>
         /\ cut' = (cut \/ resp' # <<>>)
         /\ resp' = <<>> => Taken(n) = resp
<1> DEFINE len == Len(resp)
           m == Max(Fits(n))
<1>1. resp # <<>> /\ len \in Nat \ {0} /\ resp' = SubSeq(resp, m + 1, len)
      /\ cut' = (cut \/ resp' # <<>>)
  BY EmptySeq DEF Read
<1>2. Fits(n) \in SUBSET (0 .. len) /\ Fits(n) # {} /\ Fits(n) \subseteq 1 .. len
  <2>1. 1 \in Fits(n)
    BY <1>1 DEF Fits
  <2>2. Fits(n) \subseteq 1 .. len
    BY DEF Fits
  <2> QED BY <2>1, <2>2
<1>3. m \in 1 .. len
  <2> DEFINE S == Fits(n)
  <2>1. \E k \in S : \A j \in S : j <= k
    <3> HIDE DEF S, len
    <3> QED BY <1>1, <1>2, GreatestElement DEF S
  <2>2. \E k \in S : \A j \in S : k >= j
    <3>1. S \subseteq 1 .. len
      BY <1>2
    <3> HIDE DEF S, len
    <3> QED BY <2>1, <3>1
  <2>3. m \in S
    <3> HIDE DEF S
    <3> QED BY <2>2 DEF Max, S
  <2> QED BY <1>2, <2>3
<1> HIDE DEF m
<1>4. resp' \in Seq(Wire) /\ Len(resp') = IF m + 1 <= len THEN len - (m + 1) + 1 ELSE 0
  <2>1. \A i \in (m + 1) .. len : resp[i] \in Wire
    <3>1. \A i \in (m + 1) .. len : i \in 1 .. len
      BY <1>1, <1>3
    <3> QED BY <3>1, ElementOfSeq
  <2>2. m + 1 \in Int /\ len \in Int
    BY <1>1, <1>3
  <2> HIDE DEF len
  <2> QED BY <1>1, <2>1, <2>2, SubSeqProperties
<1>5. ASSUME resp' = <<>>
      PROVE  Taken(n) = resp
  <2>1. ~ (m + 1 <= len)
    <3>1. Len(resp') = 0
      BY <1>5
    <3> QED BY <1>1, <1>3, <1>4, <3>1
  <2>2. m = len
    BY <1>1, <1>3, <2>1
  <2>3. SubSeq(resp, 1, len) = resp
    BY SubSeqFull
  <2> QED BY <2>2, <2>3 DEF Taken, m
<1> QED BY <1>1, <1>4, <1>5

-----------------------------------------------------------------------------
(* The initial state.                                                      *)
LEMMA InitSessionInv == Init => SessionInv
<1> SUFFICES ASSUME Init PROVE SessionInv
  OBVIOUS
<1>1. MaxCalls \in Nat
  BY ClientSessionAssumption
<1>2. TypeOK
  <2>1. calls \in 0 .. MaxCalls
    BY <1>1 DEF Init
  <2>2. last.op = "none" /\ last.code = 0
    BY DEF Init, Nothing
  <2>3. /\ req \in Seq(DOMAIN FirstRead \cup {"quit"})
        /\ resp \in Seq([as : {"text", "int", "size_t", "unsigned"}, val : Nat \cup {-1}])
    <3>1. req = <<>> /\ resp = <<>>
      BY DEF Init
    <3> QED BY <3>1, EmptySeq
  <2> QED BY <2>1, <2>2, <2>3 DEF Init, TypeOK
<1>3. PiecesTyped /\ Idle /\ PrintsTheAnswer
  BY DEF Init, PiecesTyped, Idle, PrintsTheAnswer, Nothing
<1> QED BY <1>2, <1>3 DEF SessionInv, InPhase

(* Between two commands nothing is on its way.                             *)
LEMMA LoopIsIdle ==
  ASSUME SessionInv, ~ cut, at = "loop"
  PROVE  Idle
BY FirstReads DEF SessionInv, InPhase, Quitting, Sent, Answered, OneWrite, TwoWrites

(* The client sends a request.                                             *)
LEMMA SendStep ==
  ASSUME SessionInv, NEW op \in Commands, Send(op)
  PROVE  SessionInv'
<1>1. /\ at = "loop" /\ calls' = calls + 1 /\ calls + 1 \in 0 .. MaxCalls
      /\ req' = Append(req, op) /\ at' = FirstRead[op]
      /\ UNCHANGED <<last, resp, cut, wpc, pieces, told>>
  BY ClientSessionAssumption DEF SessionInv, TypeOK, Send, workerVars
<1>2. TypeOK'
  <2>1. req \in Seq(Commands \cup {"quit"})
    BY DEF SessionInv, TypeOK, Commands
  <2>2. req' \in Seq(Commands \cup {"quit"})
    BY <1>1, <2>1
  <2> QED BY <1>1, <2>2, FirstReads DEF SessionInv, TypeOK, Commands
<1>3. PiecesTyped'
  BY <1>1 DEF SessionInv, PiecesTyped
<1>4. ~ cut' => Sent(op)'
  BY <1>1, LoopIsIdle DEF Idle, Sent
<1>5. PrintsTheAnswer'
  BY <1>1, FirstReads DEF PrintsTheAnswer
<1> QED BY <1>2, <1>3, <1>4, <1>5 DEF SessionInv, InPhase

(* The client quits.                                                       *)
LEMMA QuitStep ==
  ASSUME SessionInv, Quit
  PROVE  SessionInv'
<1>1. /\ at = "loop" /\ req' = Append(req, "quit") /\ at' = "ended"
      /\ UNCHANGED <<calls, last, resp, cut, wpc, pieces, told>>
  BY DEF Quit, workerVars
<1>2. TypeOK'
  <2>1. req \in Seq(Commands \cup {"quit"})
    BY DEF SessionInv, TypeOK, Commands
  <2>2. req' \in Seq(Commands \cup {"quit"})
    BY <1>1, <2>1
  <2> QED BY <1>1, <2>2 DEF SessionInv, TypeOK, Commands
<1>3. PiecesTyped'
  BY <1>1 DEF SessionInv, PiecesTyped
<1>4. ~ cut' => Quitting'
  BY <1>1, LoopIsIdle DEF Idle, Quitting
<1>5. PrintsTheAnswer'
  BY <1>1 DEF PrintsTheAnswer
<1> QED BY <1>2, <1>3, <1>4, <1>5 DEF SessionInv, InPhase

(* A read that leaves nothing is of an answer to the client's own request. *)
LEMMA AnswerIsRead ==
  ASSUME SessionInv, ~ cut, resp # <<>>, NEW op \in Commands,
         at = FirstRead[op] \/ (op = "show" /\ at = "body")
  PROVE  Answered(op)
<1>1. InPhase /\ ~ Idle /\ ~ Quitting
  BY DEF SessionInv, Idle, Quitting
<1>2. PICK c \in Commands : Answered(c)
  BY <1>1 DEF InPhase, Sent
<1>3. c = op
  BY <1>2, FirstReads DEF Answered, OneWrite, TwoWrites
<1> QED BY <1>2, <1>3

(* A read after which the client goes on.                                  *)
LEMMA ReadStep ==
  ASSUME SessionInv, NEW n \in Nat, Read(n), NEW op \in Commands,
         at = FirstRead[op] \/ (op = "show" /\ at = "body"),
         UNCHANGED <<calls, req, wpc, pieces, told>>,
         at' \in {"loop", "body"},
         last'.op \in DOMAIN FirstRead \cup {"none"}, last'.code \in {0, 1},
         ~ cut /\ resp' = <<>> /\ Answered(op) => (Idle' \/ Answered(op)') /\ PrintsTheAnswer'
  PROVE  SessionInv'
<1>1. /\ resp' \in Seq(Wire) /\ resp # <<>> /\ cut' = (cut \/ resp' # <<>>)
  BY ReadTakes DEF SessionInv, TypeOK, Wire
<1>2. TypeOK'
  BY <1>1 DEF SessionInv, TypeOK, Wire
<1>3. PiecesTyped'
  BY DEF SessionInv, PiecesTyped
<1>4. ASSUME ~ cut'
      PROVE  InPhase' /\ PrintsTheAnswer'
  <2>1. ~ cut /\ resp' = <<>>
    BY <1>1, <1>4
  <2>2. Answered(op)
    BY <1>1, <2>1, AnswerIsRead
  <2> QED BY <2>1, <2>2 DEF InPhase
<1>5. cut' => PrintsTheAnswer'
  BY DEF PrintsTheAnswer
<1> QED BY <1>1, <1>2, <1>3, <1>4, <1>5 DEF SessionInv

(* The answers of CREATE and RESERVE.                                      *)
LEMMA CodeReadStep ==
  ASSUME SessionInv, CreateRead \/ ReserveRead
  PROVE  SessionInv'
<1>1. PICK op \in {"create", "reserve"} :
        /\ at = op /\ Read(4) /\ at' = "loop" /\ last'.op = op /\ last'.code \in {0, 1}
        /\ UNCHANGED <<calls, req, wpc, pieces, told>>
  BY DEF CreateRead, ReserveRead, Return, workerVars
<1>2. op \in Commands /\ at = FirstRead[op]
  BY <1>1, FirstReads
<1>3. ASSUME ~ cut, resp' = <<>>, Answered(op)
      PROVE  Idle' /\ PrintsTheAnswer'
  <2>1. resp # <<>>
    BY <1>1 DEF Read
  <2>2. req = <<>> /\ wpc = "read"
    BY <1>1, <1>3, <2>1 DEF Answered, OneWrite
  <2> QED BY <1>1, <1>3, <2>2 DEF Idle, PrintsTheAnswer
<1> QED BY <1>1, <1>2, <1>3, ReadStep DEF Commands

(* The first read of SHOW, which may take the answer's second write, too.  *)
LEMMA SizeReadStep ==
  ASSUME SessionInv, SizeRead
  PROVE  SessionInv'
<1>1. /\ at = "size" /\ Read(pipeBuffer) /\ at' = "body"
      /\ UNCHANGED <<calls, last, req, wpc, pieces, told>> /\ resp # <<>>
  BY DEF SizeRead, Read, workerVars
<1>2. "show" \in Commands /\ at = FirstRead["show"] /\ FirstRead["show"] = "size"
  BY <1>1, FirstReads
<1>3. ASSUME ~ cut, resp' = <<>>, Answered("show")
      PROVE  Answered("show")' /\ PrintsTheAnswer'
  <2>1. req' = <<>> /\ told' \in Answers("show")
    BY <1>1, <1>3 DEF Answered
  <2>2. CASE OneWrite("show")
    BY <1>1, <1>2, <1>3, <2>2, <2>1 DEF OneWrite, Answered, PrintsTheAnswer
  <2>3. CASE TwoWrites
    BY <1>1, <1>2, <1>3, <2>3, <2>1 DEF TwoWrites, Answered, PrintsTheAnswer
  <2> QED BY <1>3, <2>2, <2>3 DEF Answered
<1>4. pipeBuffer \in Nat
  BY ClientSessionAssumption
<1>5. last'.op \in DOMAIN FirstRead \cup {"none"} /\ last'.code \in {0, 1}
  BY <1>1 DEF SessionInv, TypeOK
<1> QED BY <1>1, <1>2, <1>3, <1>4, <1>5, ReadStep

(* One write is not two.                                                   *)
LEMMA OneIsNotTwo ==
  ASSUME NEW u, NEW v, NEW w
  PROVE  <<u>> # <<v, w>>
<1>1. Len(<<u>>) = 1 /\ Len(<<v, w>>) = 2
  OBVIOUS
<1>2. ASSUME <<u>> = <<v, w>>
      PROVE  FALSE
  <2>1. Len(<<u>>) = Len(<<v, w>>)
    BY <1>2, Zenon
  <2> QED BY <1>1, <2>1
<1> QED BY <1>2

(* The second read of SHOW, which finds the seats of the store's answer.   *)
LEMMA BodyReadStep ==
  ASSUME SessionInv, BodyRead
  PROVE  SessionInv'
<1>1. /\ at = "body" /\ Read(showBuffer) /\ resp # <<>> /\ at' = "loop"
      /\ last'.op = "show" /\ last'.code \in {0, 1}
      /\ UNCHANGED <<calls, req, wpc, pieces, told>>
      /\ IsShow(Taken(showBuffer)) =>
           last'.printed = ValuesOf(Tail(Taken(showBuffer)))
  BY DEF BodyRead, Read, Return, workerVars
<1>2. "show" \in Commands /\ FirstRead["show"] = "size"
  BY FirstReads
<1>3. showBuffer \in Nat
  BY ClientSessionAssumption
<1>4. ASSUME ~ cut, resp' = <<>>, Answered("show")
      PROVE  Idle' /\ PrintsTheAnswer'
  <2>1. req = <<>> /\ told \in ShowAnswers
    BY <1>4 DEF Answered, Answers
  <2>2. ~ OneWrite("show")
    BY <1>1, <1>2 DEF OneWrite
  <2>3. PICK v, w \in Seq(Wire) : told.writes = <<v, w>> /\ wpc = "read" /\ resp = w
    BY <1>1, <1>4, <2>2 DEF Answered, TwoWrites
  <2>4. PICK s \in Seats :
          told = Answer("show", s, << <<AsText(Total(SeatsWrite(s)))>>, SeatsWrite(s) >>)
    <3>1. << <<AsText(-1)>> >> # <<v, w>>
      BY OneIsNotTwo
    <3>2. told # Answer("show", <<>>, << <<AsText(-1)>> >>)
      <4>1. Answer("show", <<>>, << <<AsText(-1)>> >>).writes = << <<AsText(-1)>> >>
        BY DEF Answer
      <4>2. told.writes = <<v, w>>
        BY <2>3
      <4> QED BY <3>1, <4>1, <4>2, Zenon
    <3> QED BY <2>1, <3>2 DEF ShowAnswers
  <2>5. told.op = "show" /\ told.data = s /\ w = SeatsWrite(s)
    BY <2>3, <2>4 DEF Answer
  <2>6. Taken(showBuffer) = SeatsWrite(s)
    <3>1. resp \in Seq(Wire)
      BY DEF SessionInv, TypeOK, Wire
    <3> QED BY <1>1, <1>3, <1>4, <2>3, <2>5, <3>1, ReadTakes
  <2>7. last'.printed = s
    BY <1>1, <2>6, ShowDecodes
  <2> QED BY <1>1, <1>4, <2>1, <2>3, <2>5, <2>7 DEF Idle, PrintsTheAnswer
<1>5. last'.op \in DOMAIN FirstRead \cup {"none"}
  BY <1>1, <1>2 DEF Commands
<1> QED BY <1>1, <1>2, <1>3, <1>4, <1>5, ReadStep

(* The read of LIST, of the ids or of the text for no events.              *)
LEMMA ListReadStep ==
  ASSUME SessionInv, ListRead
  PROVE  SessionInv'
<1> DEFINE fs == Taken(pipeBuffer)
<1>1. /\ at = "list" /\ Read(pipeBuffer) /\ resp # <<>> /\ at' = "loop"
      /\ last'.op = "list" /\ last'.code \in {0, 1}
      /\ UNCHANGED <<calls, req, wpc, pieces, told>>
  BY DEF ListRead, Read, Return, workerVars
<1>2. /\ IsList(fs) /\ fs # <<AsText(1)>> => last'.printed = ValuesOf(Tail(Tail(fs)))
      /\ ~ IsList(fs) /\ fs = <<AsText(1)>> => last'.printed = <<>>
  BY DEF ListRead, Return
<1>3. "list" \in Commands /\ FirstRead["list"] = "list"
  BY FirstReads
<1>4. pipeBuffer \in Nat
  BY ClientSessionAssumption
<1>5. ASSUME ~ cut, resp' = <<>>, Answered("list")
      PROVE  Idle' /\ PrintsTheAnswer'
  <2>1. req = <<>> /\ told \in ListAnswers
    BY <1>5 DEF Answered, Answers
  <2>2. PICK w \in Seq(Wire) : told.writes = <<w>> /\ wpc = "read" /\ resp = w
    BY <1>1, <1>3, <1>5 DEF Answered, OneWrite
  <2>3. fs = w
    <3>1. resp \in Seq(Wire)
      BY DEF SessionInv, TypeOK, Wire
    <3> QED BY <1>1, <1>4, <1>5, <2>2, <3>1, ReadTakes
  <2> HIDE DEF fs
  <2>4. told.op = "list" /\ told.data = last'.printed
    <3>1. CASE told = Answer("list", <<>>, << <<AsText(1)>> >>)
      <4>1. w = <<AsText(1)>> /\ told.op = "list" /\ told.data = <<>>
        BY <2>2, <3>1 DEF Answer
      <4>2. ~ IsList(<<AsText(1)>>)
        BY DEF IsList
      <4> QED BY <1>2, <2>3, <4>1, <4>2
    <3>2. CASE \E s \in Lists : told = Answer("list", s, <<ListWrite(s)>>)
      <4>1. PICK s \in Lists : told = Answer("list", s, <<ListWrite(s)>>)
        BY <3>2
      <4>2. w = ListWrite(s) /\ told.op = "list" /\ told.data = s
        BY <2>2, <4>1 DEF Answer
      <4>3. ~ IsList(<<AsText(1)>>)
        BY DEF IsList
      <4>4. IsList(fs) /\ ValuesOf(Tail(Tail(fs))) = s
        BY <2>3, <4>2, ListDecodes
      <4> QED BY <1>2, <4>2, <4>3, <4>4
    <3> QED BY <2>1, <3>1, <3>2 DEF ListAnswers
  <2> QED BY <1>1, <1>5, <2>1, <2>2, <2>4 DEF Idle, PrintsTheAnswer
<1>6. last'.op \in DOMAIN FirstRead \cup {"none"}
  BY <1>1, <1>3 DEF Commands
<1> QED BY <1>1, <1>3, <1>4, <1>5, <1>6, ReadStep

(* The worker takes a request, or the pieces of several.                   *)
LEMMA TakeStep ==
  ASSUME SessionInv, Take
  PROVE  SessionInv'
<1>1. /\ wpc = "read" /\ req # <<>> /\ UNCHANGED <<at, calls, last, resp, cut>>
      /\ req \in Seq(Commands \cup {"quit"}) /\ PiecesTyped
  BY DEF Take, clientVars, SessionInv, TypeOK, Commands
<1>2. /\ Head(req) \in Commands \cup {"quit"}
      /\ Tail(req) \in Seq(Commands \cup {"quit"})
  BY <1>1
<1>3. \/ ~ Whole /\ wpc' = "mixed" /\ req' = <<>> /\ UNCHANGED <<pieces, told>>
      \/ /\ Whole /\ req' = Tail(req) /\ Head(req) # "quit" /\ wpc' = "write"
         /\ told' \in Answers(Head(req)) /\ pieces' = told'.writes
      \/ /\ Whole /\ req' = Tail(req) /\ Head(req) = "quit" /\ wpc' = "free"
         /\ UNCHANGED <<pieces, told>>
  BY DEF Take
<1>4. wpc' \in {"mixed", "write", "free"} /\ req' \in Seq(Commands \cup {"quit"})
  <2>1. <<>> \in Seq(Commands \cup {"quit"})
    BY EmptySeq
  <2> QED BY <1>2, <1>3, <2>1
<1>5. TypeOK'
  BY <1>1, <1>4 DEF SessionInv, TypeOK, Commands
<1>6. PiecesTyped'
  <2>1. CASE wpc' = "write"
    <3>1. Head(req) \in Commands /\ told' \in Answers(Head(req)) /\ pieces' = told'.writes
      BY <1>2, <1>3, <2>1
    <3>2. \/ \E w \in Seq(Wire) : pieces' = <<w>>
          \/ \E v, w \in Seq(Wire) : pieces' = <<v, w>>
      BY <3>1, AnswersAre
    <3>3. /\ \A w \in Seq(Wire) : <<w>> \in Seq(Seq(Wire)) /\ <<w>> # <<>>
          /\ \A v, w \in Seq(Wire) : <<v, w>> \in Seq(Seq(Wire)) /\ <<v, w>> # <<>>
      <4> DEFINE S == Seq(Wire)
      <4> HIDE DEF S
      <4>1. /\ \A w \in S : <<w>> \in Seq(S) /\ <<w>> # <<>>
            /\ \A v, w \in S : <<v, w>> \in Seq(S) /\ <<v, w>> # <<>>
        OBVIOUS
      <4> QED BY <4>1 DEF S
    <3>4. pieces' \in Seq(Seq(Wire)) /\ pieces' # <<>>
      BY <3>2, <3>3
    <3> QED BY <3>4 DEF PiecesTyped
  <2>2. CASE wpc' # "write"
    BY <1>1, <1>3, <2>2 DEF PiecesTyped
  <2> QED BY <2>1, <2>2
<1>7. ~ cut => PrintsTheAnswer' /\ InPhase'
  <2> SUFFICES ASSUME ~ cut PROVE PrintsTheAnswer' /\ InPhase'
    OBVIOUS
  <2>1. at # "loop"
    BY <1>1, LoopIsIdle DEF Idle
  <2>2. PrintsTheAnswer'
    BY <1>1, <2>1 DEF PrintsTheAnswer
  <2>3. Quitting \/ \E op \in Commands : Sent(op)
    BY <1>1 DEF SessionInv, InPhase, Idle, Answered
  <2>4. CASE Quitting
    <3>1. req = <<"quit">> /\ at = "ended" /\ resp = <<>>
      BY <1>1, <2>4 DEF Quitting
    <3>2. Head(req) = "quit" /\ Tail(req) = <<>> /\ Whole
      BY <3>1 DEF Whole
    <3> QED BY <1>1, <1>3, <2>2, <3>1, <3>2 DEF InPhase, Quitting
  <2>5. ASSUME NEW op \in Commands, Sent(op)
        PROVE  InPhase'
    <3>1. req = <<op>> /\ at = FirstRead[op] /\ resp = <<>> /\ op # "quit"
      BY <2>5, FirstReads DEF Sent
    <3>2. Head(req) = op /\ Tail(req) = <<>> /\ Whole
      BY <3>1 DEF Whole
    <3>3. /\ req' = <<>> /\ wpc' = "write" /\ told' \in Answers(op)
          /\ pieces' = told'.writes /\ at' = FirstRead[op] /\ resp' = <<>>
      BY <1>1, <1>3, <3>1, <3>2
    <3>4. OneWrite(op)' \/ (op = "show" /\ TwoWrites')
      <4>1. \/ \E w \in Seq(Wire) : told'.writes = <<w>>
            \/ op = "show" /\ \E v, w \in Seq(Wire) : told'.writes = <<v, w>>
        BY <3>3, AnswersAre
      <4> QED BY <3>3, <4>1, FirstReads DEF OneWrite, TwoWrites
    <3>5. told' \in Answers(op)'
      BY <3>3 DEF Answers
    <3> QED BY <3>3, <3>4, <3>5 DEF InPhase, Answered
  <2> QED BY <2>2, <2>3, <2>4, <2>5
<1>8. cut => PrintsTheAnswer'
  BY <1>1 DEF PrintsTheAnswer
<1> QED BY <1>1, <1>5, <1>6, <1>7, <1>8 DEF SessionInv

(* The worker writes a part of an answer.                                  *)
LEMMA WriteStep ==
  ASSUME SessionInv, Write
  PROVE  SessionInv'
<1>1. /\ wpc = "write" /\ pieces' = Tail(pieces)
      /\ UNCHANGED <<at, calls, last, req, cut, told>>
      /\ resp \in Seq(Wire) /\ pieces \in Seq(Seq(Wire)) /\ pieces # <<>>
  BY DEF Write, clientVars, SessionInv, TypeOK, PiecesTyped, Wire
<1>2. /\ Head(pieces) \in Seq(Wire) /\ Tail(pieces) \in Seq(Seq(Wire))
  <2> HIDE DEF Wire
  <2> QED BY <1>1
<1>3. \/ /\ at # "ended" /\ resp' = resp \o Head(pieces)
         /\ wpc' = IF Tail(pieces) = <<>> THEN "read" ELSE "write"
      \/ at = "ended" /\ wpc' = "killed" /\ resp' = resp
  BY DEF Write
<1>4. TypeOK' /\ PiecesTyped'
  <2>1. resp' \in Seq(Wire)
    <3>1. resp \o Head(pieces) \in Seq(Wire)
      BY <1>1, <1>2, ConcatProperties
    <3> QED BY <1>1, <1>3, <3>1
  <2>2. wpc' \in {"read", "write", "killed"} /\ (wpc' = "write" => Tail(pieces) # <<>>)
    BY <1>3
  <2>3. TypeOK'
    BY <1>1, <2>1, <2>2 DEF SessionInv, TypeOK, Wire
  <2> QED BY <1>1, <1>2, <2>2, <2>3 DEF PiecesTyped
<1>5. ~ cut => PrintsTheAnswer' /\ InPhase'
  <2> SUFFICES ASSUME ~ cut PROVE PrintsTheAnswer' /\ InPhase'
    OBVIOUS
  <2>1. at # "loop"
    BY <1>1, LoopIsIdle DEF Idle
  <2>2. PrintsTheAnswer'
    BY <1>1, <2>1 DEF PrintsTheAnswer
  <2>3. PICK op \in Commands : Answered(op)
    BY <1>1 DEF SessionInv, InPhase, Idle, Quitting, Sent
  <2>4. /\ FirstRead[op] # "ended" /\ (op = "show" => FirstRead[op] = "size")
    BY FirstReads
  <2>5. req' = <<>> /\ told' \in Answers(op)'
    BY <1>1, <2>3 DEF Answered, Answers
  <2>6. CASE OneWrite(op)
    <3>1. PICK w \in Seq(Wire) :
            /\ told.writes = <<w>> /\ at = FirstRead[op] /\ pieces = <<w>> /\ resp = <<>>
      BY <1>1, <2>6 DEF OneWrite
    <3>2. Head(pieces) = w /\ Tail(pieces) = <<>> /\ resp \o w = w
      BY <3>1, ConcatEmptySeq
    <3>3. resp' = w /\ wpc' = "read" /\ at' = FirstRead[op] /\ told'.writes = <<w>>
      BY <1>1, <1>3, <2>4, <3>1, <3>2
    <3>4. OneWrite(op)'
      BY <3>3 DEF OneWrite
    <3> QED BY <2>2, <2>3, <2>5, <3>4 DEF InPhase, Answered
  <2>7. CASE op = "show" /\ TwoWrites
    <3>1. PICK v, w \in Seq(Wire) :
            /\ told.writes = <<v, w>>
            /\ \/ at = "size" /\ pieces = <<v, w>> /\ resp = <<>>
               \/ at = "size" /\ pieces = <<w>> /\ resp = v
               \/ at = "body" /\ pieces = <<w>> /\ resp = <<>>
      BY <1>1, <2>7 DEF TwoWrites
    <3>2. resp' = resp \o Head(pieces) /\ told'.writes = <<v, w>> /\ at' = at
          /\ wpc' = IF Tail(pieces) = <<>> THEN "read" ELSE "write"
      BY <1>1, <1>3, <3>1
    <3>3. <<>> \o v = v /\ <<>> \o w = w
      BY ConcatEmptySeq
    <3>4. TwoWrites'
      <4>1. CASE at = "size" /\ pieces = <<v, w>> /\ resp = <<>>
        <5>1. Head(pieces) = v /\ Tail(pieces) = <<w>> /\ Tail(pieces) # <<>>
          BY <4>1
        <5>2. at' = "size" /\ wpc' = "write" /\ pieces' = <<w>> /\ resp' = v
          BY <1>1, <3>2, <3>3, <4>1, <5>1
        <5> QED BY <3>1, <3>2, <5>2 DEF TwoWrites
      <4>2. CASE at = "size" /\ pieces = <<w>> /\ resp = v
        <5>1. Head(pieces) = w /\ Tail(pieces) = <<>>
          BY <4>2
        <5>2. at' = "size" /\ wpc' = "read" /\ resp' = v \o w
          BY <3>2, <4>2, <5>1
        <5> QED BY <3>1, <3>2, <5>2 DEF TwoWrites
      <4>3. CASE at = "body" /\ pieces = <<w>> /\ resp = <<>>
        <5>1. Head(pieces) = w /\ Tail(pieces) = <<>>
          BY <4>3
        <5>2. at' = "body" /\ wpc' = "read" /\ resp' = w
          BY <3>2, <3>3, <4>3, <5>1
        <5> QED BY <3>1, <3>2, <5>2 DEF TwoWrites
      <4> QED BY <3>1, <4>1, <4>2, <4>3
    <3> QED BY <2>2, <2>3, <2>5, <2>7, <3>4 DEF InPhase, Answered
  <2> QED BY <2>2, <2>3, <2>6, <2>7 DEF Answered
<1>6. cut => PrintsTheAnswer'
  BY <1>1 DEF PrintsTheAnswer
<1> QED BY <1>1, <1>4, <1>5, <1>6 DEF SessionInv

(* Every step keeps the invariant.                                         *)
LEMMA NextSessionInv ==
  ASSUME SessionInv, [Next]_vars
  PROVE  SessionInv'
<1>1. ASSUME NEW op \in DOMAIN FirstRead, Send(op)
      PROVE  SessionInv'
  BY <1>1, SendStep DEF Commands
<1>2. CASE Client
  BY <1>2, CodeReadStep, SizeReadStep, BodyReadStep, ListReadStep DEF Client
<1>3. CASE Quit
  BY <1>3, QuitStep
<1>4. CASE Worker
  BY <1>4, TakeStep, WriteStep DEF Worker
<1>5. CASE UNCHANGED vars
  <2>1. UNCHANGED <<at, calls, last, req, resp, cut, wpc, pieces, told>>
    BY <1>5 DEF vars
  <2>2. TypeOK' /\ PiecesTyped' /\ PrintsTheAnswer' /\ (cut' = cut)
    BY <2>1 DEF SessionInv, TypeOK, PiecesTyped, PrintsTheAnswer
  <2>3. InPhase => InPhase'
    BY <2>1 DEF InPhase, Idle, Quitting, Sent, Answered, Answers, OneWrite, TwoWrites
  <2> QED BY <2>2, <2>3 DEF SessionInv
<1> QED BY <1>1, <1>2, <1>3, <1>4, <1>5 DEF Next

-----------------------------------------------------------------------------
(* The invariant holds of every behaviour of the client and its worker.    *)
THEOREM SessionInvariant == Spec => []SessionInv
<1>1. Init => SessionInv
  BY InitSessionInv
<1>2. SessionInv /\ [Next]_vars => SessionInv'
  BY NextSessionInv
<1> QED BY <1>1, <1>2, PTL DEF Spec

(* The client, the pipes and the worker keep their types: no step writes   *)
(* or decodes anything that is not a number of the stream.                 *)
THEOREM TypeCorrect == Spec => []TypeOK
<1>1. SessionInv => TypeOK
  BY DEF SessionInv
<1> QED BY <1>1, SessionInvariant, PTL

(* Without lengths or numbers in their messages the two sides stay in      *)
(* step, for any buffers, as long as no answer is too long for a read: one *)
(* request at most is on its way, and between two commands nothing is left *)
(* in a pipe.                                                              *)
THEOREM StaysInStep == Spec => []InStep
<1>1. ASSUME SessionInv, ~ cut
      PROVE  InStep
  <2>1. Len(req) <= 1 /\ wpc \notin {"mixed", "killed"}
    <3>1. req = <<>> \/ \E c : req = <<c>>
      BY <1>1 DEF SessionInv, InPhase, Idle, Quitting, Sent, Answered
    <3>2. wpc \in {"read", "write", "free"}
      BY <1>1 DEF SessionInv, InPhase, Idle, Quitting, Sent, Answered, OneWrite, TwoWrites
    <3>3. Len(<<>>) = 0 /\ \A c : Len(<<c>>) = 1
      OBVIOUS
    <3>4. Len(req) <= 1
      <4>1. CASE req = <<>>
        BY <3>3, <4>1
      <4>2. ASSUME NEW c, req = <<c>>
            PROVE  Len(req) <= 1
        BY <3>3, <4>2
      <4> QED BY <3>1, <4>1, <4>2
    <3> QED BY <3>2, <3>4
  <2>2. at = "loop" => req = <<>> /\ resp = <<>> /\ wpc = "read"
    BY <1>1, LoopIsIdle DEF Idle
  <2> QED BY <2>1, <2>2 DEF InStep
<1>2. SessionInv => InStep
  BY <1>1 DEF InStep
<1> QED BY <1>2, SessionInvariant, PTL

(* What a SHOW or a LIST that returned 0 has printed is what the store     *)
(* answered to that call, if no answer so far was too long for a read.     *)
THEOREM PrintsWhatWasTold == Spec => []PrintsTheAnswer
<1>1. SessionInv => PrintsTheAnswer
  BY DEF SessionInv
<1> QED BY <1>1, SessionInvariant, PTL
=============================================================================
