----------------------------- MODULE HttpProofs -----------------------------
(***************************************************************************)
(* What a connection keeps in memory, that the cuts between the reads      *)
(* leave no trace, and that a body is therefore decoded however it is cut  *)
(* when it is decoded at once: for every stream of bytes and every cut.    *)
(***************************************************************************)
EXTENDS HttpBody, Loops, SequenceTheorems, TLAPS

(* A connection, and what holds of it at every point inside onReadyRead(). *)
Connection ==
    [state : {"headers", "body", "responded"}, buffer : Seq(Symbol), complete : BOOLEAN,
     chunk : {"size", "data", "crlf", "trailer", "done"}, remaining : Nat, trailer : Nat,
     length : Int, body : Seq(Symbol), status : Nat, asks : Nat]
Sane(k) ==
    /\ k \in Connection
    /\ Len(k.body) <= Ceiling
    /\ k.chunk = "data" => k.remaining > 0
    /\ k.state = "headers" => k.chunk = "size" /\ k.body = <<>>
    /\ k.state = "body" => sent.framing \in {"length", "chunked"}
    /\ k.state = "body" /\ sent.framing = "length" =>
          k.chunk = "size" /\ k.length \in Nat /\ Len(k.body) <= k.length
    /\ k.chunk = "done" => k.complete
    /\ k.complete => k.buffer = <<>>
    /\ k.state = "responded" => ~k.complete /\ k.status # 0

(* The chunk loop has nothing more to do, or only trailers to look at.     *)
Settled(k) ==
    \/ k.state = "responded" \/ k.complete \/ k.chunk \in {"trailer", "done"}
    \/ k.chunk = "size" /\ indexOf(k.buffer, CRLF) < 0 /\ Len(k.buffer) <= MaxHeadSize
    \/ k.chunk = "data" /\ k.buffer = <<>>
    \/ k.chunk = "crlf" /\ Len(k.buffer) < 2

HttpInv == /\ sent \in Stream /\ pos \in 0..Len(sent.bytes)
           /\ Sane(conn) /\ MemoryIsBounded

-----------------------------------------------------------------------------
(* The operators on bytes.                                                 *)
LEMMA IndexInside ==
    ASSUME NEW b \in Seq(Symbol), NEW pattern, Len(pattern) \in Nat
    PROVE  \/ indexOf(b, pattern) = -1
           \/ /\ indexOf(b, pattern) \in Nat
              /\ indexOf(b, pattern) + Len(pattern) <= Len(b)
<1> DEFINE S == Starts(b, pattern)
<1>1. Len(b) \in Nat
  OBVIOUS
<1>2. \A i \in S : i \in Nat /\ i + Len(pattern) <= Len(b)
  BY <1>1 DEF Starts
<1>3. CASE S = {}
  BY <1>3 DEF indexOf
<1>4. CASE S # {}
  <2> HIDE DEF S
  <2>1. \E i \in S : \A j \in S : i <= j
    BY <1>2, <1>4, LeastExists
  <2>2. indexOf(b, pattern) = CHOOSE i \in S : \A j \in S : i <= j
    BY <1>4 DEF indexOf, S
  <2>3. indexOf(b, pattern) \in S
    BY <2>1, <2>2
  <2> QED BY <1>2, <2>3
<1>5. QED
  BY <1>3, <1>4

LEMMA Cutting ==
    ASSUME NEW b \in Seq(Symbol), NEW n \in Nat, n <= Len(b)
    PROVE  /\ Left(b, n) \in Seq(Symbol) /\ Len(Left(b, n)) = n
           /\ Without(b, n) \in Seq(Symbol) /\ Len(Without(b, n)) = Len(b) - n
<1>0. Len(b) \in Nat /\ \A i \in 1..Len(b) : b[i] \in Symbol
  OBVIOUS
<1>1. /\ SubSeq(b, 1, n) \in Seq(Symbol)
      /\ Len(SubSeq(b, 1, n)) = IF 1 <= n THEN n - 1 + 1 ELSE 0
  <2>1. 1 \in Int /\ n \in Int /\ \A i \in 1..n : b[i] \in Symbol
    BY <1>0
  <2> QED BY <2>1, SubSeqProperties
<1>2. /\ SubSeq(b, n + 1, Len(b)) \in Seq(Symbol)
      /\ Len(SubSeq(b, n + 1, Len(b))) = IF n + 1 <= Len(b) THEN Len(b) - (n + 1) + 1 ELSE 0
  <2>1. n + 1 \in Int /\ Len(b) \in Int /\ \A i \in (n + 1)..Len(b) : b[i] \in Symbol
    BY <1>0
  <2> QED BY <2>1, SubSeqProperties
<1>3. QED
  BY <1>0, <1>1, <1>2 DEF Left, Without

LEMMA SizesAreNat ==
    ASSUME NEW digits \in Seq(Symbol), IsSize(digits)
    PROVE  SizeOf(digits) \in Nat
<1> DEFINE N == Len(digits)
           Body(v) == [n \in 0..N |-> IF n = 0 THEN 0 ELSE 16 * v[n - 1] + Digit[digits[n]]]
           value == CHOOSE v : v = Body(v)
           digit(n) == IF n \in 1..N THEN Digit[digits[n]] ELSE 0
           step == [n \in Nat |-> [x \in Nat |-> 16 * x + digit(n + 1)]]
<1>0. N \in Nat
  OBVIOUS
<1>1. N \in Nat /\ \A n \in 1..N : digits[n] \in DOMAIN Digit
  BY DEF IsSize
<1>2. \A s \in DOMAIN Digit : Digit[s] \in Nat
  BY DEF Digit
<1>3. \A n \in Nat : digit(n) \in Nat
  BY <1>1, <1>2
<1>4. step \in [Nat -> [Nat -> Nat]]
  <2>1. \A n \in Nat : n + 1 \in Nat
    OBVIOUS
  <2> HIDE DEF digit
  <2>2. \A n \in Nat : digit(n + 1) \in Nat
    BY <1>3, <2>1
  <2>3. \A n \in Nat : [x \in Nat |-> 16 * x + digit(n + 1)] \in [Nat -> Nat]
    BY ONLY <2>2
  <2> QED BY <2>3
<1>5. PICK f \in [Nat -> Nat] : f[0] = 0 /\ \A n \in Nat : f[n + 1] = step[n][f[n]]
  <2> HIDE DEF step, Body, value, digit, N
  <2> QED BY <1>4, NatLoopExists
<1>6. \E v : v = Body(v)
  <2> DEFINE v == [n \in 0..N |-> f[n]]
  <2>1. ASSUME NEW n \in 0..N PROVE v[n] = Body(v)[n]
    <3>1. CASE n = 0
      BY <1>1, <1>5, <3>1
    <3>2. CASE n # 0
      <4>1. n - 1 \in Nat /\ n - 1 \in 0..N /\ (n - 1) + 1 = n /\ n \in 1..N
        <5> HIDE DEF N
        <5> QED BY <1>0, <3>2
      <4>2. f[n] = step[n - 1][f[n - 1]] /\ f[n - 1] \in Nat
        BY <1>5, <4>1
      <4>3. f[n] = 16 * f[n - 1] + Digit[digits[n]]
        BY <4>1, <4>2
      <4> QED BY <3>2, <4>1, <4>3
    <3> QED BY <3>1, <3>2
  <2>2. v = Body(v)
    BY <2>1
  <2> QED BY <2>2
<1>7. value = Body(value)
  <2> HIDE DEF Body
  <2> QED BY <1>6
<1>8. SizeOf(digits) = value[N]
  BY DEF SizeOf
<1> HIDE DEF value, step
<1>9. \A n \in Nat : n <= N => value[n] \in Nat
  <2> DEFINE S == {n \in Nat : n <= N => value[n] \in Nat}
  <2>0. /\ value[0] = 0
        /\ \A n \in Nat : n + 1 <= N => value[n + 1] = 16 * value[n] + Digit[digits[n + 1]]
    <3>1. 0 \in 0..N /\ \A n \in Nat : n + 1 <= N => n + 1 \in 0..N /\ n + 1 # 0 /\ (n + 1) - 1 = n
      BY <1>1
    <3> QED BY <1>7, <3>1
  <2>1. 0 \in S
    BY <2>0
  <2>2. ASSUME NEW n \in Nat, n \in S PROVE n + 1 \in S
    <3> SUFFICES ASSUME n + 1 <= N PROVE value[n + 1] \in Nat
      OBVIOUS
    <3>1. value[n] \in Nat /\ n + 1 \in 1..N
      <4> HIDE DEF N
      <4>1. n <= N /\ n + 1 \in 1..N
        BY <1>0
      <4> QED BY <2>2, <4>1
    <3>2. Digit[digits[n + 1]] \in Nat
      BY <1>1, <1>2, <3>1
    <3>3. value[n + 1] = 16 * value[n] + Digit[digits[n + 1]]
      BY <2>0
    <3> DEFINE x == value[n]
               y == Digit[digits[n + 1]]
    <3>4. x \in Nat /\ y \in Nat
      BY <3>1, <3>2
    <3> HIDE DEF x, y
    <3>5. 16 * x + y \in Nat
      BY <3>4
    <3> QED BY <3>3, <3>5 DEF x, y
  <2> HIDE DEF S
  <2>3. \A n \in Nat : n \in S
    BY <2>1, <2>2, SetInduction
  <2> QED BY <2>3 DEF S
<1>10. QED
  BY <1>1, <1>8, <1>9

-----------------------------------------------------------------------------
(* One turn of the chunk loop: it goes on only by taking bytes.            *)
InBody(k) == Sane(k) /\ k.state # "headers" /\ sent.framing = "chunked"
Onward(k, n) == InBody(n) /\ (Settled(n) \/ (~Settled(k) /\ Len(n.buffer) < Len(k.buffer)))

LEMMA CeilingIsNat == ASSUME sent \in Stream PROVE Ceiling \in Nat
<1>1. sent.sink => sent.limit \in Nat
  <2>1. \A s \in Stream : s.sink => s.limit \in Nat
    BY HttpAssumption, Zenon
  <2> QED BY <2>1, Zenon
<1>2. MaxBufferedBody \in Nat
  BY HttpAssumption
<1>3. QED
  BY <1>1, <1>2, Zenon DEF Ceiling

LEMMA FailSettles ==
    ASSUME NEW k, InBody(k), ~k.complete, NEW status \in Nat \ {0}
    PROVE  InBody(fail(k, status)) /\ Settled(fail(k, status))
<1> DEFINE n == fail(k, status)
<1>1. /\ n \in Connection /\ n.state = "responded" /\ n.buffer = k.buffer /\ n.complete = k.complete
      /\ n.chunk = k.chunk /\ n.remaining = k.remaining /\ n.body = k.body /\ n.status = status
  BY DEF fail, InBody, Sane, Connection
<1> HIDE DEF n
<1>2. Sane(n)
  BY <1>1 DEF Sane, InBody
<1>3. QED
  BY <1>1, <1>2 DEF InBody, Settled, n

LEMMA CrlfLength == Len(CRLF) = 2 /\ Len(CRLF \o CRLF) = 4
  BY DEF CRLF

LEMMA SizeLine ==
    ASSUME NEW s \in Seq(Symbol), NEW eol \in Nat, eol <= Len(s), IsSize(SizeDigits(Left(s, eol)))
    PROVE  SizeOf(SizeDigits(Left(s, eol))) \in Nat
<1> DEFINE line == Left(s, eol)
           semi == indexOf(line, <<";">>)
           digits == SizeDigits(line)
<1>1. line \in Seq(Symbol)
  BY Cutting
<1>2. digits = IF semi >= 0 THEN Left(line, semi) ELSE line
  BY DEF SizeDigits
<1>3. Len(<<";">>) = 1
  OBVIOUS
<1> HIDE DEF line
<1>4. semi = -1 \/ (semi \in Nat /\ semi + 1 <= Len(line))
  BY <1>1, <1>3, IndexInside
<1> HIDE DEF semi
<1>5. semi >= 0 => semi \in Nat /\ semi <= Len(line)
  BY <1>1, <1>4
<1>6. digits \in Seq(Symbol)
  <2> HIDE DEF digits
  <2> QED BY <1>1, <1>2, <1>5, Cutting
<1>7. IsSize(digits)
  BY DEF line
<1> HIDE DEF digits
<1>8. SizeOf(digits) \in Nat
  BY <1>6, <1>7, SizesAreNat
<1>9. QED
  BY <1>8 DEF digits, line

LEMMA SizeTurn ==
    ASSUME sent \in Stream, NEW k, InBody(k), k.state = "body", ~k.complete, k.chunk = "size"
    PROVE  Onward(k, ChunkSize(k))
<1> DEFINE eol == indexOf(k.buffer, CRLF)
           digits == SizeDigits(Left(k.buffer, eol))
           rest == [k EXCEPT !.buffer = Without(@, eol + 2)]
<1>0. k \in Connection /\ k.buffer \in Seq(Symbol) /\ Len(k.buffer) \in Nat /\ MaxHeadSize \in Nat
  BY HttpAssumption DEF InBody, Sane, Connection
<1>1. eol = -1 \/ (eol \in Nat /\ eol + 2 <= Len(k.buffer))
  BY <1>0, IndexInside, CrlfLength
<1>2. CASE eol < 0
  <2>1. CASE Len(k.buffer) > MaxHeadSize
    <3>1. ChunkSize(k) = fail(k, 400)
      BY <1>2, <2>1 DEF ChunkSize
    <3> QED BY <3>1, FailSettles DEF Onward
  <2>2. CASE ~(Len(k.buffer) > MaxHeadSize)
    <3>1. ChunkSize(k) = k
      BY <1>2, <2>2 DEF ChunkSize
    <3>2. Len(k.buffer) <= MaxHeadSize
      BY <1>0, <2>2
    <3>3. Settled(k)
      BY <1>2, <3>2 DEF Settled
    <3> QED BY <3>1, <3>3 DEF Onward
  <2> QED BY <2>1, <2>2
<1>3. CASE ~(eol < 0)
  <2>1. eol \in Nat /\ eol + 2 \in Nat /\ eol + 2 <= Len(k.buffer)
    BY <1>0, <1>1, <1>3
  <2>2. /\ Without(k.buffer, eol + 2) \in Seq(Symbol)
        /\ Len(Without(k.buffer, eol + 2)) = Len(k.buffer) - (eol + 2)
    <3> HIDE DEF eol
    <3> QED BY <1>0, <2>1, Cutting
  <2>3. ~Settled(k)
    BY <1>3 DEF Settled, InBody, Sane
  <2> DEFINE new == IF ~IsSize(digits) THEN fail(rest, 400)
                    ELSE [k EXCEPT !.buffer = Without(@, eol + 2),
                                   !.remaining = SizeOf(digits),
                                   !.chunk = IF SizeOf(digits) = 0 THEN "trailer" ELSE "data"]
  <2>4. ChunkSize(k) = new
    BY <1>3 DEF ChunkSize
  <2>6. CASE ~IsSize(digits)
    <3>1. /\ rest \in Connection /\ rest.state = k.state /\ rest.complete = k.complete
          /\ rest.chunk = k.chunk /\ rest.remaining = k.remaining /\ rest.body = k.body
      BY <1>0, <2>2 DEF Connection
    <3>2. new = fail(rest, 400)
      BY <2>6
    <3> HIDE DEF rest, new
    <3>3. InBody(rest)
      BY <3>1 DEF InBody, Sane
    <3> QED BY <2>4, <3>1, <3>2, <3>3, FailSettles DEF Onward
  <2>7. CASE IsSize(digits)
    <3> DEFINE size == SizeOf(digits)
    <3>1. size \in Nat
      <4>1. eol <= Len(k.buffer)
        <5> HIDE DEF eol
        <5> QED BY <1>0, <2>1
      <4> HIDE DEF eol
      <4> QED BY <1>0, <2>1, <2>7, <4>1, SizeLine
    <3>2. new = [k EXCEPT !.buffer = Without(@, eol + 2), !.remaining = size,
                          !.chunk = IF size = 0 THEN "trailer" ELSE "data"]
      BY <2>7
    <3> HIDE DEF size, digits, new, rest, eol
    <3>3. /\ new \in Connection /\ new.state = k.state /\ new.complete = k.complete
          /\ new.body = k.body /\ new.remaining = size
          /\ new.chunk = IF size = 0 THEN "trailer" ELSE "data"
          /\ new.buffer = Without(k.buffer, eol + 2)
      BY <1>0, <2>2, <3>1, <3>2 DEF Connection
    <3>4. InBody(new)
      BY <3>1, <3>3 DEF InBody, Sane
    <3>5. Len(new.buffer) < Len(k.buffer)
      BY <1>0, <2>1, <2>2, <3>3
    <3> QED BY <2>3, <2>4, <3>4, <3>5 DEF Onward
  <2> QED BY <2>6, <2>7
<1>4. QED
  BY <1>2, <1>3

LEMMA DataTurn ==
    ASSUME sent \in Stream, NEW k, InBody(k), k.state = "body", ~k.complete, k.chunk = "data"
    PROVE  Onward(k, ChunkData(k))
<1> DEFINE take == Least(k.remaining, Len(k.buffer))
           data == Left(k.buffer, take)
           taken == [k EXCEPT !.buffer = Without(@, take), !.remaining = @ - take,
                              !.chunk = ChunkAfter(k, take)]
<1>0. /\ k \in Connection /\ k.buffer \in Seq(Symbol) /\ Len(k.buffer) \in Nat
      /\ k.remaining \in Nat /\ k.remaining > 0 /\ k.body \in Seq(Symbol)
  BY DEF InBody, Sane, Connection
<1>1. CASE k.buffer = <<>>
  <2>1. ChunkData(k) = k /\ Settled(k)
    BY <1>1 DEF ChunkData, Settled
  <2> QED BY <2>1 DEF Onward
<1>2. CASE k.buffer # <<>>
  <2>1. Len(k.buffer) > 0
    BY <1>0, <1>2
  <2>2. take \in Nat /\ take > 0 /\ take <= Len(k.buffer) /\ take <= k.remaining
    BY <1>0, <2>1 DEF Least
  <2>3. ~Settled(k)
    BY <1>2 DEF Settled, InBody, Sane
  <2>4. ChunkData(k) = deliver(taken, data)
    BY <1>2 DEF ChunkData
  <2> HIDE DEF take
  <2>5. /\ data \in Seq(Symbol) /\ Len(data) = take
        /\ Without(k.buffer, take) \in Seq(Symbol)
        /\ Len(Without(k.buffer, take)) = Len(k.buffer) - take
    BY <1>0, <2>2, Cutting
  <2>6. /\ taken \in Connection /\ taken.state = k.state /\ taken.complete = k.complete
        /\ taken.body = k.body /\ taken.remaining = k.remaining - take
        /\ taken.chunk = IF k.remaining = take THEN "crlf" ELSE "data"
        /\ taken.buffer = Without(k.buffer, take)
    <3>1. k.remaining - take \in Nat
      BY <1>0, <2>2
    <3> QED BY <1>0, <2>5, <3>1 DEF Connection, ChunkAfter
  <2> HIDE DEF taken, data
  <2>7. InBody(taken)
    <3>1. taken.chunk = "data" => taken.remaining > 0
      BY <1>0, <2>2, <2>6
    <3> QED BY <2>6, <3>1 DEF InBody, Sane
  <2>8. CASE ~WithinCeiling(taken, data)
    <3>1. ChunkData(k) = fail(taken, 413)
      BY <2>4, <2>8 DEF deliver
    <3> QED BY <2>6, <2>7, <3>1, FailSettles DEF Onward
  <2>9. CASE WithinCeiling(taken, data)
    <3> DEFINE new == [taken EXCEPT !.body = @ \o data]
    <3>1. ChunkData(k) = new
      BY <2>4, <2>9 DEF deliver
    <3>2. /\ taken.body \o data \in Seq(Symbol)
          /\ Len(taken.body \o data) = Len(taken.body) + Len(data)
      <4>1. taken.body \in Seq(Symbol) /\ data \in Seq(Symbol)
        BY <1>0, <2>5, <2>6
      <4> QED BY ONLY <4>1, ConcatProperties
    <3>3. Len(taken.body \o data) <= Ceiling
      BY <2>9, <3>2 DEF WithinCeiling
    <3>4. /\ new \in Connection /\ new.state = taken.state /\ new.complete = taken.complete
          /\ new.body = taken.body \o data /\ new.remaining = taken.remaining
          /\ new.chunk = taken.chunk /\ new.buffer = taken.buffer
      BY <2>6, <3>2 DEF Connection
    <3> HIDE DEF new
    <3>5. InBody(new)
      BY <2>6, <2>7, <3>3, <3>4 DEF InBody, Sane
    <3>6. Len(new.buffer) < Len(k.buffer)
      BY <1>0, <2>2, <2>5, <2>6, <3>4
    <3> QED BY <2>3, <3>1, <3>5, <3>6 DEF Onward
  <2> QED BY <2>8, <2>9
<1>3. QED
  BY <1>1, <1>2

LEMMA CrlfTurn ==
    ASSUME NEW k, InBody(k), k.state = "body", ~k.complete, k.chunk = "crlf"
    PROVE  Onward(k, ChunkCrlf(k))
<1> DEFINE new == [k EXCEPT !.buffer = Without(@, 2), !.chunk = "size"]
<1>0. k \in Connection /\ k.buffer \in Seq(Symbol) /\ Len(k.buffer) \in Nat
  BY DEF InBody, Sane, Connection
<1>1. CASE Len(k.buffer) < 2
  <2>1. ChunkCrlf(k) = k /\ Settled(k)
    BY <1>1 DEF ChunkCrlf, Settled
  <2> QED BY <2>1 DEF Onward
<1>2. CASE ~(Len(k.buffer) < 2)
  <2>1. ChunkCrlf(k) = new
    BY <1>2 DEF ChunkCrlf
  <2>2. Without(k.buffer, 2) \in Seq(Symbol) /\ Len(Without(k.buffer, 2)) = Len(k.buffer) - 2
    <3>1. 2 \in Nat /\ 2 <= Len(k.buffer)
      BY <1>0, <1>2
    <3> QED BY <1>0, <3>1, Cutting
  <2>3. /\ new \in Connection /\ new.state = k.state /\ new.complete = k.complete
        /\ new.body = k.body /\ new.remaining = k.remaining
        /\ new.chunk = "size" /\ new.buffer = Without(k.buffer, 2)
    BY <1>0, <2>2 DEF Connection
  <2> HIDE DEF new
  <2>4. InBody(new)
    BY <2>3 DEF InBody, Sane
  <2>5. ~Settled(k) /\ Len(new.buffer) < Len(k.buffer)
    BY <1>0, <1>2, <2>2, <2>3 DEF Settled, InBody, Sane
  <2> QED BY <2>1, <2>4, <2>5 DEF Onward
<1>3. QED
  BY <1>1, <1>2

LEMMA TrailerTurn ==
    ASSUME NEW k, InBody(k), k.state = "body", ~k.complete, k.chunk = "trailer"
    PROVE  Onward(k, ChunkTrailer(k))
<1> DEFINE eol == indexOf(k.buffer, CRLF)
           counted == [k EXCEPT !.trailer = @ + eol + 2]
           taken == [counted EXCEPT !.buffer = Without(@, eol + 2)]
           ended == [taken EXCEPT !.chunk = "done", !.length = Len(k.body)]
<1>0. /\ k \in Connection /\ k.buffer \in Seq(Symbol) /\ Len(k.buffer) \in Nat
      /\ k.trailer \in Nat /\ k.body \in Seq(Symbol) /\ Len(k.body) \in Int
  BY DEF InBody, Sane, Connection
<1>1. eol = -1 \/ (eol \in Nat /\ eol + 2 <= Len(k.buffer))
  BY <1>0, IndexInside, CrlfLength
<1>2. ChunkTrailer(k) = IF eol < 0 THEN k
                        ELSE IF counted.trailer > MaxHeadSize THEN fail(counted, 431)
                        ELSE IF eol = 0 THEN finishBody(ended) ELSE taken
  BY DEF ChunkTrailer
<1>3. CASE eol < 0
  <2>1. ChunkTrailer(k) = k /\ Settled(k)
    BY <1>2, <1>3 DEF Settled
  <2> QED BY <2>1 DEF Onward
<1>4. CASE ~(eol < 0)
  <2> HIDE DEF eol
  <2>1. eol \in Nat /\ eol + 2 \in Nat /\ eol + 2 <= Len(k.buffer) /\ k.trailer + eol + 2 \in Nat
    BY <1>0, <1>1, <1>4
  <2>2. Without(k.buffer, eol + 2) \in Seq(Symbol)
    BY <1>0, <2>1, Cutting
  <2>3. /\ counted \in Connection /\ counted.state = k.state /\ counted.complete = k.complete
        /\ counted.body = k.body /\ counted.remaining = k.remaining
        /\ counted.chunk = k.chunk /\ counted.buffer = k.buffer
    BY <1>0, <2>1 DEF Connection
  <2>4. InBody(counted)
    <3> HIDE DEF counted
    <3> QED BY <2>3 DEF InBody, Sane
  <2>5. CASE counted.trailer > MaxHeadSize
    <3>1. ChunkTrailer(k) = fail(counted, 431)
      BY <1>2, <1>4, <2>5
    <3> HIDE DEF counted
    <3> QED BY <2>3, <2>4, <3>1, FailSettles DEF Onward
  <2>6. /\ taken \in Connection /\ taken.state = k.state /\ taken.complete = k.complete
        /\ taken.body = k.body /\ taken.remaining = k.remaining
        /\ taken.chunk = k.chunk
    BY <2>2, <2>3 DEF Connection
  <2>7. CASE ~(counted.trailer > MaxHeadSize) /\ eol # 0
    <3>1. ChunkTrailer(k) = taken
      BY <1>2, <1>4, <2>7
    <3> HIDE DEF taken
    <3>2. InBody(taken) /\ Settled(taken)
      BY <2>6 DEF InBody, Sane, Settled
    <3> QED BY <3>1, <3>2 DEF Onward
  <2>8. CASE ~(counted.trailer > MaxHeadSize) /\ eol = 0
    <3> HIDE DEF taken
    <3>1. /\ ended \in Connection /\ ended.state = k.state /\ ended.complete = k.complete
          /\ ended.body = k.body /\ ended.remaining = k.remaining /\ ended.chunk = "done"
      BY <1>0, <2>6 DEF Connection
    <3>2. ChunkTrailer(k) = finishBody(ended)
      BY <1>2, <1>4, <2>8
    <3> HIDE DEF ended
    <3> DEFINE new == [ended EXCEPT !.complete = TRUE, !.buffer = <<>>, !.asks = @ + 1]
    <3>3. finishBody(ended) = new
      BY <3>1 DEF finishBody
    <3>4. /\ new \in Connection /\ new.state = k.state /\ new.complete = TRUE
          /\ new.body = k.body /\ new.buffer = <<>> /\ new.chunk = "done"
      <4>1. <<>> \in Seq(Symbol) /\ ended.asks + 1 \in Nat
        BY <3>1 DEF Connection
      <4> QED BY <3>1, <4>1 DEF Connection
    <3> HIDE DEF new
    <3>5. InBody(new) /\ Settled(new)
      BY <3>4 DEF InBody, Sane, Settled
    <3> QED BY <3>2, <3>3, <3>5 DEF Onward
  <2> QED BY <2>5, <2>7, <2>8
<1>5. QED
  BY <1>3, <1>4

LEMMA ChunkTurn ==
    ASSUME sent \in Stream, NEW k, InBody(k)
    PROVE  Onward(k, ChunkStep(k))
<1>1. CASE k.state # "body" \/ k.complete
  <2>1. ChunkStep(k) = k
    BY <1>1 DEF ChunkStep
  <2>2. Settled(k)
    BY <1>1 DEF Settled, InBody, Sane, Connection
  <2> QED BY <2>1, <2>2 DEF Onward
<1>2. CASE k.state = "body" /\ ~k.complete
  <2>1. k.chunk \in {"size", "data", "crlf", "trailer"}
    BY <1>2 DEF InBody, Sane, Connection
  <2>2. CASE k.chunk = "size"
    BY <1>2, <2>2, SizeTurn DEF ChunkStep
  <2>3. CASE k.chunk = "data"
    BY <1>2, <2>3, DataTurn DEF ChunkStep
  <2>4. CASE k.chunk = "crlf"
    BY <1>2, <2>4, CrlfTurn DEF ChunkStep
  <2>5. CASE k.chunk = "trailer"
    BY <1>2, <2>5, TrailerTurn DEF ChunkStep
  <2> QED BY <2>1, <2>2, <2>3, <2>4, <2>5
<1>3. QED
  BY <1>1, <1>2 DEF InBody, Sane, Connection

(* The turns of the chunk loop, one for every byte it could look at.       *)
Run(f, k) == f[0] = k /\ \A n \in Nat : InBody(f[n]) /\ f[n + 1] = ChunkStep(f[n])

LEMMA ChunkRuns ==
    ASSUME sent \in Stream, NEW k, InBody(k)
    PROVE  \E f : Run(f, k) /\ consumeChunkedBody(k) = f[Len(k.buffer)]
<1> DEFINE N == Len(k.buffer)
           Body(g) == [n \in 0..N |-> IF n = 0 THEN k ELSE ChunkStep(g[n - 1])]
           after == CHOOSE g : g = Body(g)
           S == {x \in Connection : InBody(x)}
           step == [n \in Nat |-> [x \in S |-> ChunkStep(x)]]
<1>0. N \in Nat
  BY DEF InBody, Sane, Connection
<1>1. \A x : InBody(x) => x \in Connection /\ Len(x.buffer) \in Nat
  BY DEF InBody, Sane, Connection
<1>2. k \in S
  BY <1>1
<1>3. \A x \in S : ChunkStep(x) \in S
  BY <1>1, ChunkTurn DEF Onward
<1>4. step \in [Nat -> [S -> S]]
  <2> HIDE DEF S
  <2> QED BY <1>3
<1>5. PICK f \in [Nat -> S] : f[0] = k /\ \A n \in Nat : f[n + 1] = step[n][f[n]]
  <2> HIDE DEF S, step, Body, after, N
  <2>1. \A b \in S, st \in [Nat -> [S -> S]] :
           \E f \in [Nat -> S] : f[0] = b /\ \A i \in Nat : f[i + 1] = st[i][f[i]]
    BY ONLY RecursionExists
  <2> QED BY ONLY <1>2, <1>4, <2>1
<1>6. \A n \in Nat : f[n] \in S /\ f[n + 1] = ChunkStep(f[n])
  <2> HIDE DEF S
  <2> QED BY <1>5
<1>7. Run(f, k)
  BY <1>5, <1>6 DEF Run
<1> HIDE DEF step, S
<1>8. \E g : g = Body(g)
  <2> DEFINE g == [n \in 0..N |-> f[n]]
  <2>1. ASSUME NEW n \in 0..N PROVE g[n] = Body(g)[n]
    <3>1. CASE n = 0
      BY <1>0, <1>5, <3>1
    <3>2. CASE n # 0
      <4>1. n - 1 \in Nat /\ n - 1 \in 0..N /\ (n - 1) + 1 = n
        <5> HIDE DEF N
        <5> QED BY <1>0, <3>2
      <4>2. f[n] = ChunkStep(f[n - 1])
        BY <1>6, <4>1
      <4> QED BY <3>2, <4>1, <4>2
    <3> QED BY <3>1, <3>2
  <2>2. g = Body(g)
    BY <2>1
  <2> QED BY <2>2
<1>9. after = Body(after)
  <2> HIDE DEF Body
  <2> QED BY <1>8
<1>10. consumeChunkedBody(k) = after[N]
  BY DEF consumeChunkedBody
<1> HIDE DEF after
<1>11. \A n \in Nat : n <= N => after[n] = f[n]
  <2> DEFINE T == {n \in Nat : n <= N => after[n] = f[n]}
  <2>0. /\ after[0] = k
        /\ \A n \in Nat : n + 1 <= N => after[n + 1] = ChunkStep(after[n])
    <3>1. 0 \in 0..N /\ \A n \in Nat : n + 1 <= N => n + 1 \in 0..N /\ n + 1 # 0 /\ (n + 1) - 1 = n
      BY <1>0
    <3> QED BY <1>9, <3>1
  <2>1. 0 \in T
    BY <1>5, <2>0
  <2>2. ASSUME NEW n \in Nat, n \in T PROVE n + 1 \in T
    <3> SUFFICES ASSUME n + 1 <= N PROVE after[n + 1] = f[n + 1]
      OBVIOUS
    <3>1. n <= N
      <4> HIDE DEF N
      <4> QED BY <1>0
    <3> QED BY <1>6, <2>0, <2>2, <3>1
  <2> HIDE DEF T
  <2>3. \A n \in Nat : n \in T
    BY <2>1, <2>2, SetInduction
  <2> QED BY <2>3 DEF T
<1>12. after[N] = f[N]
  <2> HIDE DEF N
  <2> QED BY <1>0, <1>11
<1>13. QED
  BY <1>7, <1>10, <1>12

(* consumeChunkedBody(): a turn for each byte is enough for the loop to    *)
(* come to where it stops.                                                 *)
LEMMA ChunkedBodySettles ==
    ASSUME sent \in Stream, NEW k, InBody(k)
    PROVE  /\ InBody(consumeChunkedBody(k))
           /\ Settled(consumeChunkedBody(k)) \/ Len(consumeChunkedBody(k).buffer) = 0
<1> DEFINE N == Len(k.buffer)
           Nearer(n, x) == InBody(x) /\ (Settled(x) \/ Len(x.buffer) <= N - n)
<1>0. N \in Nat
  BY DEF InBody, Sane, Connection
<1>1. \A x : InBody(x) => Len(x.buffer) \in Nat
  BY DEF InBody, Sane, Connection
<1>2. PICK f : Run(f, k) /\ consumeChunkedBody(k) = f[N]
  BY ChunkRuns
<1>3. f[0] = k /\ \A n \in Nat : InBody(f[n]) /\ f[n + 1] = ChunkStep(f[n])
  BY <1>2 DEF Run
<1>4. \A n \in Nat : Nearer(n, f[n])
  <2> DEFINE T == {n \in Nat : Nearer(n, f[n])}
  <2>1. 0 \in T
    BY <1>0, <1>3
  <2>2. ASSUME NEW n \in Nat, n \in T PROVE n + 1 \in T
    <3> DEFINE x == f[n]
               y == f[n + 1]
    <3>1. InBody(x) /\ (Settled(x) \/ Len(x.buffer) <= N - n)
      BY <2>2
    <3>2. y = ChunkStep(x)
      BY <1>3
    <3> HIDE DEF x, y
    <3>3. InBody(y) /\ (Settled(y) \/ (~Settled(x) /\ Len(y.buffer) < Len(x.buffer)))
      BY <3>1, <3>2, ChunkTurn DEF Onward
    <3>4. Len(x.buffer) \in Nat /\ Len(y.buffer) \in Nat
      BY <1>1, <3>1, <3>3
    <3>5. Settled(y) \/ Len(y.buffer) <= N - (n + 1)
      <4> HIDE DEF N
      <4> QED BY <1>0, <3>1, <3>3, <3>4
    <3> QED BY <3>3, <3>5 DEF y
  <2> HIDE DEF T
  <2>3. \A n \in Nat : n \in T
    BY <2>1, <2>2, SetInduction
  <2> QED BY <2>3 DEF T
<1>5. Nearer(N, f[N])
  BY <1>0, <1>4
<1>6. Len(f[N].buffer) \in Nat /\ (Settled(f[N]) \/ Len(f[N].buffer) <= 0)
  <2> HIDE DEF N
  <2> QED BY <1>0, <1>1, <1>5
<1>7. QED
  BY <1>2, <1>5, <1>6

-----------------------------------------------------------------------------
(* A read.                                                                 *)

(* What is bounded between two reads.                                      *)
Resting(k) == Sane(k) /\ (k.state # "responded" /\ k.chunk # "trailer" =>
                             Len(k.buffer) <= MaxHeadSize)

LEMMA SettledRests ==
    ASSUME NEW k, InBody(k), Settled(k) \/ Len(k.buffer) = 0
    PROVE  Resting(k)
<1>0. MaxHeadSize \in Nat \ {0} /\ Len(k.buffer) \in Nat
  BY HttpAssumption DEF InBody, Sane, Connection
<1>1. k.complete \/ k.chunk = "done" => Len(k.buffer) = 0
  BY DEF InBody, Sane
<1>2. k.chunk = "crlf" /\ Len(k.buffer) < 2 => Len(k.buffer) <= MaxHeadSize
  BY <1>0
<1>3. QED
  BY <1>0, <1>1, <1>2 DEF Resting, Settled, InBody

LEMMA FailRests ==
    ASSUME NEW k, Sane(k), ~k.complete, NEW status \in Nat \ {0}
    PROVE  Resting(fail(k, status))
<1> DEFINE n == fail(k, status)
<1>1. /\ n \in Connection /\ n.state = "responded" /\ n.buffer = k.buffer /\ n.complete = k.complete
      /\ n.chunk = k.chunk /\ n.remaining = k.remaining /\ n.body = k.body /\ n.status = status
  BY DEF fail, Sane, Connection
<1> HIDE DEF n
<1>2. Sane(n)
  BY <1>1 DEF Sane
<1>3. QED
  BY <1>1, <1>2 DEF Resting, n

LEMMA FinishRests ==
    ASSUME NEW k, Sane(k), k.state = "body", ~k.complete
    PROVE  Resting(finishBody(k))
<1> DEFINE new == [k EXCEPT !.complete = TRUE, !.buffer = <<>>, !.asks = @ + 1]
<1>1. finishBody(k) = new
  BY DEF finishBody
<1>2. /\ new \in Connection /\ new.state = k.state /\ new.complete = TRUE /\ new.chunk = k.chunk
      /\ new.body = k.body /\ new.buffer = <<>> /\ new.remaining = k.remaining
      /\ new.length = k.length
  <2>1. <<>> \in Seq(Symbol) /\ k.asks + 1 \in Nat /\ k \in Connection
    BY DEF Sane, Connection
  <2> QED BY <2>1 DEF Connection
<1> HIDE DEF new
<1>3. Sane(new)
  BY <1>2 DEF Sane
<1>4. Len(new.buffer) <= MaxHeadSize
  BY <1>2, HttpAssumption
<1>5. QED
  BY <1>1, <1>3, <1>4 DEF Resting

LEMMA PlainBodyRests ==
    ASSUME sent \in Stream, NEW k, Sane(k), k.state = "body", ~k.complete, sent.framing = "length"
    PROVE  Resting(consumePlainBody(k))
<1> DEFINE want == k.length - Len(k.body)
           take == Least(want, Len(k.buffer))
           data == Left(k.buffer, take)
           rest == [k EXCEPT !.buffer = Without(@, take)]
           fed == IF take = 0 THEN k ELSE deliver(rest, data)
<1>0. /\ k \in Connection /\ k.buffer \in Seq(Symbol) /\ Len(k.buffer) \in Nat
      /\ k.body \in Seq(Symbol) /\ Len(k.body) \in Nat
      /\ k.length \in Nat /\ want \in Nat /\ k.chunk = "size" /\ MaxHeadSize \in Nat
  BY HttpAssumption DEF Sane, Connection
<1>1. take \in Nat /\ take <= want /\ take <= Len(k.buffer) /\ (take = want \/ take = Len(k.buffer))
  <2> HIDE DEF want
  <2> QED BY <1>0 DEF Least
<1>2. consumePlainBody(k) = IF fed.state = "body" /\ Len(fed.body) >= k.length
                            THEN finishBody(fed) ELSE fed
  BY DEF consumePlainBody
<1> HIDE DEF take
<1>3. /\ data \in Seq(Symbol) /\ Len(data) = take
      /\ Without(k.buffer, take) \in Seq(Symbol)
      /\ Len(Without(k.buffer, take)) = Len(k.buffer) - take
  BY <1>0, <1>1, Cutting
<1>4. /\ rest \in Connection /\ rest.state = k.state /\ rest.complete = k.complete
      /\ rest.chunk = k.chunk /\ rest.remaining = k.remaining /\ rest.body = k.body
      /\ rest.length = k.length /\ rest.buffer = Without(k.buffer, take)
  BY <1>0, <1>3 DEF Connection
<1> HIDE DEF rest, data
<1>5. Sane(rest)
  BY <1>4 DEF Sane
<1>6. CASE take # 0 /\ ~WithinCeiling(rest, data)
  <2>1. fed = fail(rest, 413) /\ fed.state = "responded"
    <3>1. fed = fail(rest, 413)
      BY <1>6 DEF deliver
    <3> QED BY <1>4, <3>1 DEF fail, Connection
  <2>2. consumePlainBody(k) = fail(rest, 413)
    BY <1>2, <2>1
  <2> QED BY <1>4, <1>5, <2>2, FailRests
<1>7. CASE take = 0 \/ WithinCeiling(rest, data)
  <2>1. /\ fed \in Connection /\ fed.state = "body" /\ fed.complete = k.complete
        /\ fed.chunk = "size" /\ fed.remaining = k.remaining /\ fed.length = k.length
        /\ Len(fed.body) = Len(k.body) + take /\ Len(fed.body) <= Ceiling
        /\ Len(fed.buffer) = Len(k.buffer) - take
    <3>1. CASE take = 0
      BY <1>0, <3>1 DEF Sane
    <3>2. CASE take # 0
      <4>1. fed = [rest EXCEPT !.body = @ \o data]
        BY <1>7, <3>2 DEF deliver
      <4>2. /\ rest.body \o data \in Seq(Symbol)
            /\ Len(rest.body \o data) = Len(rest.body) + Len(data)
        <5>1. rest.body \in Seq(Symbol) /\ data \in Seq(Symbol)
          BY <1>0, <1>3, <1>4
        <5> QED BY ONLY <5>1, ConcatProperties
      <4>3. /\ fed \in Connection /\ fed.state = rest.state /\ fed.complete = rest.complete
            /\ fed.chunk = rest.chunk /\ fed.remaining = rest.remaining
            /\ fed.length = rest.length /\ fed.body = rest.body \o data
            /\ fed.buffer = rest.buffer
        BY <1>4, <4>1, <4>2 DEF Connection
      <4>4. Len(fed.body) = Len(k.body) + take
        BY <1>3, <1>4, <4>2, <4>3
      <4>5. Len(fed.body) <= Ceiling
        BY <1>7, <3>2, <4>2, <4>3 DEF WithinCeiling
      <4> HIDE DEF fed
      <4> QED BY <1>0, <1>3, <1>4, <4>3, <4>4, <4>5
    <3> QED BY <3>1, <3>2
  <2> HIDE DEF fed
  <2>2. Len(fed.body) <= k.length /\ (take = want => Len(fed.body) >= k.length)
    BY <1>0, <1>1, <2>1
  <2>3. Sane(fed)
    BY <1>0, <2>1, <2>2 DEF Sane
  <2>4. CASE Len(fed.body) >= k.length
    <3>1. consumePlainBody(k) = finishBody(fed)
      BY <1>2, <2>1, <2>4
    <3> QED BY <2>1, <2>3, <3>1, FinishRests
  <2>5. CASE ~(Len(fed.body) >= k.length)
    <3>1. consumePlainBody(k) = fed /\ take = Len(k.buffer)
      BY <1>1, <1>2, <2>2, <2>5
    <3>2. Len(fed.buffer) <= MaxHeadSize
      BY <1>0, <2>1, <3>1
    <3> QED BY <2>3, <3>1, <3>2 DEF Resting
  <2> QED BY <2>4, <2>5
<1>8. QED
  BY <1>6, <1>7

LEMMA BodyRests ==
    ASSUME sent \in Stream, NEW k, Sane(k), k.state # "headers"
    PROVE  Resting(consumeBody(k))
<1>1. CASE k.state # "body"
  <2>1. consumeBody(k) = k
    BY <1>1 DEF consumeBody
  <2>2. k.state = "responded"
    BY <1>1 DEF Sane, Connection
  <2> QED BY <2>1, <2>2 DEF Resting
<1>2. CASE k.state = "body" /\ k.complete
  <2>1. consumeBody(k) = k
    BY <1>2 DEF consumeBody
  <2>2. Len(k.buffer) <= MaxHeadSize
    BY <1>2, HttpAssumption DEF Sane
  <2> QED BY <2>1, <2>2 DEF Resting
<1>3. CASE k.state = "body" /\ ~k.complete /\ sent.framing = "chunked"
  <2>1. consumeBody(k) = consumeChunkedBody(k)
    BY <1>3 DEF consumeBody
  <2>2. InBody(k)
    BY <1>3 DEF InBody
  <2> QED BY <2>1, <2>2, ChunkedBodySettles, SettledRests
<1>4. CASE k.state = "body" /\ ~k.complete /\ sent.framing = "length"
  <2>1. consumeBody(k) = consumePlainBody(k)
    BY <1>4 DEF consumeBody
  <2> QED BY <1>4, <2>1, PlainBodyRests
<1>5. QED
  BY <1>1, <1>2, <1>3, <1>4 DEF Sane

LEMMA HeadIsSane ==
    ASSUME sent \in Stream, NEW k, Sane(k), k.state = "headers", ~k.complete
    PROVE  Sane(parseHead(k)) /\ parseHead(k).state # "headers"
<1> DEFINE length == IF sent.framing = "length" THEN sent.length ELSE -1
           parsed == [k EXCEPT !.state = "body", !.length = length]
           r == parseHead(k)
<1>0. /\ k \in Connection /\ k.chunk = "size" /\ k.body = <<>> /\ Len(k.body) <= Ceiling
      /\ sent.length \in Nat
      /\ sent.framing \in {"length", "chunked", "invalid", "preflight"}
  BY HttpAssumption DEF Sane
<1>1. length \in Int
  BY <1>0
<1>2. /\ r = CASE sent.framing = "invalid" -> fail(k, 400)
               [] sent.framing = "preflight" -> fail(parsed, 204)
               [] sent.sink /\ sent.framing = "length" /\ sent.length > sent.limit
                     -> fail(parsed, 413)
               [] OTHER -> parsed
  BY DEF parseHead
<1>3. /\ parsed \in Connection /\ parsed.state = "body" /\ parsed.complete = k.complete
      /\ parsed.chunk = "size" /\ parsed.body = <<>> /\ parsed.length = length
      /\ parsed.buffer = k.buffer
  <2> HIDE DEF length
  <2> QED BY <1>0, <1>1 DEF Connection
<1> HIDE DEF parsed, r
<1>4. \A x \in Connection, status \in Nat :
         /\ fail(x, status) \in Connection /\ fail(x, status).state = "responded"
         /\ fail(x, status).complete = x.complete /\ fail(x, status).chunk = x.chunk
         /\ fail(x, status).body = x.body /\ fail(x, status).buffer = x.buffer
         /\ fail(x, status).status = status
  BY DEF fail, Connection
<1>5. \/ r = fail(k, 400) \/ r = fail(parsed, 204) \/ r = fail(parsed, 413)
      \/ r = parsed /\ sent.framing \in {"length", "chunked"}
  <2>1. CASE sent.framing = "invalid"
    BY <1>2, <2>1
  <2>2. CASE sent.framing = "preflight"
    BY <1>2, <2>2
  <2>3. CASE sent.framing \in {"length", "chunked"}
    <3>1. r = fail(parsed, 413) \/ r = parsed
      BY <1>2, <2>3
    <3> QED BY <2>3, <3>1
  <2> QED BY <1>0, <2>1, <2>2, <2>3
<1>6. /\ r \in Connection /\ r.complete = k.complete /\ r.chunk = "size" /\ r.body = <<>>
      /\ r.buffer = k.buffer
      /\ \/ r.state = "responded" /\ r.status # 0
         \/ r.state = "body" /\ r.length = length /\ sent.framing \in {"length", "chunked"}
  <2> HIDE DEF length
  <2>1. CASE r = fail(k, 400)
    <3>1. k \in Connection /\ 400 \in Nat
      BY <1>0
    <3>2. /\ r \in Connection /\ r.state = "responded" /\ r.complete = k.complete
          /\ r.chunk = k.chunk /\ r.body = k.body /\ r.buffer = k.buffer /\ r.status = 400
      BY ONLY <1>4, <2>1, <3>1
    <3> QED BY <1>0, <3>2
  <2>2. CASE r = fail(parsed, 204)
    BY <1>3, <1>4, <2>2, SMTT(30)
  <2>3. CASE r = fail(parsed, 413)
    BY <1>3, <1>4, <2>3, SMTT(30)
  <2>4. CASE r = parsed /\ sent.framing \in {"length", "chunked"}
    BY <1>3, <2>4
  <2> QED BY <1>5, <2>1, <2>2, <2>3, <2>4
<1>7. r.state = "body" /\ sent.framing = "length" => r.length \in Nat /\ Len(r.body) <= r.length
  BY <1>0, <1>6
<1>8. Sane(r)
  BY <1>0, <1>6, <1>7 DEF Sane
<1>9. QED
  BY <1>6, <1>8 DEF r

LEMMA ReadHeadRests ==
    ASSUME sent \in Stream, NEW k, Sane(k), k.state = "headers", ~k.complete
    PROVE  Resting(ReadHead(k))
<1> DEFINE end == indexOf(k.buffer, CRLF \o CRLF)
           rest == [k EXCEPT !.buffer = Without(@, end + 4)]
<1>0. k \in Connection /\ k.buffer \in Seq(Symbol) /\ Len(k.buffer) \in Nat /\ MaxHeadSize \in Nat
  BY HttpAssumption DEF Sane, Connection
<1>1. end = -1 \/ (end \in Nat /\ end + 4 <= Len(k.buffer))
  <2> DEFINE pattern == CRLF \o CRLF
  <2>1. Len(pattern) = 4 /\ Len(pattern) \in Nat /\ end = indexOf(k.buffer, pattern)
    BY CrlfLength
  <2> HIDE DEF pattern, end
  <2> QED BY <1>0, <2>1, IndexInside
<1>2. ReadHead(k) = IF end < 0 THEN IF Len(k.buffer) > MaxHeadSize THEN fail(k, 431) ELSE k
                    ELSE consumeBody(parseHead(rest))
  BY DEF ReadHead
<1> HIDE DEF end
<1>3. CASE end < 0 /\ Len(k.buffer) > MaxHeadSize
  BY <1>2, <1>3, FailRests
<1>4. CASE end < 0 /\ ~(Len(k.buffer) > MaxHeadSize)
  BY <1>0, <1>2, <1>4 DEF Resting
<1>5. CASE ~(end < 0)
  <2>1. end + 4 \in Nat /\ end + 4 <= Len(k.buffer)
    BY <1>0, <1>1, <1>5
  <2>2. Without(k.buffer, end + 4) \in Seq(Symbol)
    BY <1>0, <2>1, Cutting
  <2>3. /\ rest \in Connection /\ rest.state = k.state /\ rest.complete = k.complete
        /\ rest.chunk = k.chunk /\ rest.remaining = k.remaining /\ rest.body = k.body
    BY <1>0, <2>2 DEF Connection
  <2>4. ReadHead(k) = consumeBody(parseHead(rest))
    BY <1>2, <1>5
  <2> HIDE DEF rest
  <2>5. Sane(rest) /\ rest.state = "headers" /\ ~rest.complete
    BY <2>3 DEF Sane
  <2> QED BY <2>4, <2>5, HeadIsSane, BodyRests
<1>6. QED
  BY <1>3, <1>4, <1>5

LEMMA ReadRests ==
    ASSUME sent \in Stream, NEW k, Resting(k), NEW bytes \in Seq(Symbol)
    PROVE  Resting(onReadyRead(k, bytes))
<1> DEFINE fed == [k EXCEPT !.buffer = @ \o bytes]
<1>0. Sane(k) /\ k \in Connection /\ k.buffer \in Seq(Symbol)
  BY DEF Resting, Sane, Connection
<1>1. CASE k.state = "responded" \/ k.complete
  <2>1. onReadyRead(k, bytes) = k
    BY <1>1 DEF onReadyRead, DropsTail
  <2> QED BY <2>1
<1>2. CASE k.state # "responded" /\ ~k.complete
  <2>1. onReadyRead(k, bytes) = IF k.state = "headers" THEN ReadHead(fed) ELSE consumeBody(fed)
    BY <1>2 DEF onReadyRead, DropsTail
  <2>2. k.buffer \o bytes \in Seq(Symbol)
    BY ONLY <1>0, bytes \in Seq(Symbol), ConcatProperties
  <2>3. /\ fed \in Connection /\ fed.state = k.state /\ fed.complete = k.complete
        /\ fed.chunk = k.chunk /\ fed.remaining = k.remaining /\ fed.body = k.body
        /\ fed.length = k.length
    BY <1>0, <2>2 DEF Connection
  <2> HIDE DEF fed
  <2>4. Sane(fed)
    BY <1>0, <1>2, <2>3 DEF Sane
  <2>5. CASE k.state = "headers"
    BY <1>2, <2>1, <2>3, <2>4, <2>5, ReadHeadRests
  <2>6. CASE k.state # "headers"
    BY <1>2, <2>1, <2>3, <2>4, <2>6, BodyRests
  <2> QED BY <2>5, <2>6
<1>3. QED
  BY <1>1, <1>2

LEMMA HttpNext == HttpInv /\ [Next]_vars => HttpInv'
<1> SUFFICES ASSUME HttpInv, [Next]_vars PROVE HttpInv'
  OBVIOUS
<1>0. /\ sent \in Stream /\ pos \in 0..Len(sent.bytes) /\ sent.bytes \in Seq(Symbol)
      /\ Resting(conn)
  BY HttpAssumption DEF HttpInv, MemoryIsBounded, Resting
<1>1. ASSUME sent' = sent, pos' \in 0..Len(sent.bytes), Resting(conn')
      PROVE  HttpInv'
  <2>1. Sane(conn)'
    BY <1>1 DEF Resting, Sane, Ceiling
  <2>2. MemoryIsBounded'
    BY <1>1 DEF Resting, Sane, Ceiling, MemoryIsBounded
  <2> QED BY <1>0, <1>1, <2>1, <2>2 DEF HttpInv
<1>2. CASE Read
  <2>1. PICK n \in 1..(Len(sent.bytes) - pos) :
           /\ pos' = pos + n
           /\ conn' = onReadyRead(conn, SubSeq(sent.bytes, pos + 1, pos + n))
    BY <1>2 DEF Read
  <2>2. Len(sent.bytes) \in Nat /\ pos' \in 0..Len(sent.bytes)
    BY <1>0, <2>1
  <2>3. SubSeq(sent.bytes, pos + 1, pos + n) \in Seq(Symbol)
    <3>1. /\ pos + 1 \in Int /\ pos + n \in Int
          /\ \A i \in (pos + 1)..(pos + n) : sent.bytes[i] \in Symbol
      BY <1>0, <2>2
    <3> QED BY <3>1, SubSeqProperties
  <2>4. Resting(conn')
    BY <1>0, <2>1, <2>3, ReadRests
  <2>5. sent' = sent
    BY <1>2 DEF Read
  <2> QED BY <1>1, <2>2, <2>4, <2>5
<1>3. CASE TimedOut
  <2>1. Resting(conn') /\ sent' = sent /\ pos' = pos
    BY <1>0, <1>3, FailRests DEF TimedOut, Resting
  <2> QED BY <1>0, <1>1, <2>1
<1>4. CASE UNCHANGED vars
  BY <1>0, <1>1, <1>4 DEF vars
<1>5. QED
  BY <1>2, <1>3, <1>4 DEF Next

LEMMA HttpStarts == Init => HttpInv
<1> SUFFICES ASSUME Init PROVE HttpInv
  OBVIOUS
<1>1. sent \in Stream /\ pos = 0 /\ conn = NewConnection /\ sent.bytes \in Seq(Symbol)
  BY HttpAssumption DEF Init
<1>2. pos \in 0..Len(sent.bytes)
  BY <1>1
<1>3. /\ conn \in Connection /\ conn.state = "headers" /\ conn.buffer = <<>>
      /\ conn.complete = FALSE /\ conn.chunk = "size" /\ conn.body = <<>>
  BY <1>1 DEF NewConnection, Connection
<1>4. Ceiling \in Nat /\ MaxHeadSize \in Nat
  BY <1>1, CeilingIsNat, HttpAssumption
<1>5. Sane(conn) /\ MemoryIsBounded
  BY <1>3, <1>4 DEF Sane, MemoryIsBounded
<1>6. QED
  BY <1>1, <1>2, <1>5 DEF HttpInv

(* onReadyRead() and all it calls: for any bytes, however they are cut     *)
(* into reads, what a connection keeps waiting for more of them is within  *)
(* the limit on a line (an unfinished trailer aside), and what it handed   *)
(* on is within its ceiling.                                               *)
THEOREM MemoryBounded == Spec => []MemoryIsBounded
<1>1. HttpInv => MemoryIsBounded
  BY DEF HttpInv
<1>2. QED
  BY <1>1, HttpStarts, HttpNext, PTL DEF Spec

-----------------------------------------------------------------------------
(* Bytes that come later change nothing in the bytes before them.          *)
LEMMA Associative == \A u, v, w \in Seq(Symbol) : (u \o v) \o w = u \o (v \o w)
  BY ConcatAssociative, SMTT(30)

LEMMA SubSeqAt ==
    ASSUME NEW s \in Seq(Symbol), NEW m \in Nat, NEW n \in Nat, n <= Len(s)
    PROVE  /\ SubSeq(s, m + 1, n) \in Seq(Symbol)
           /\ Len(SubSeq(s, m + 1, n)) = IF m < n THEN n - m ELSE 0
           /\ \A i \in 1..(n - m) : SubSeq(s, m + 1, n)[i] = s[m + i]
<1>1. m + 1 \in Int /\ n \in Int /\ \A i \in (m + 1)..n : s[i] \in Symbol
  OBVIOUS
<1>2. /\ SubSeq(s, m + 1, n) \in Seq(Symbol)
      /\ Len(SubSeq(s, m + 1, n)) = IF m + 1 <= n THEN n - (m + 1) + 1 ELSE 0
      /\ \A i \in 1..(n - (m + 1) + 1) : SubSeq(s, m + 1, n)[i] = s[(m + 1) + i - 1]
  BY <1>1, SubSeqProperties
<1>3. /\ n - (m + 1) + 1 = n - m /\ (m + 1 <= n <=> m < n)
      /\ \A i \in 1..(n - m) : (m + 1) + i - 1 = m + i
  OBVIOUS
<1>4. QED
  BY <1>2, <1>3

LEMMA JoinedBefore ==
    ASSUME NEW a \in Seq(Symbol), NEW b \in Seq(Symbol), NEW m \in Nat, NEW n \in Nat, n <= Len(a)
    PROVE  SubSeq(a \o b, m + 1, n) = SubSeq(a, m + 1, n)
<1> DEFINE u == SubSeq(a \o b, m + 1, n)
           v == SubSeq(a, m + 1, n)
<1>1. /\ a \o b \in Seq(Symbol) /\ Len(a \o b) = Len(a) + Len(b)
      /\ \A i \in 1..(Len(a) + Len(b)) : (a \o b)[i] = IF i <= Len(a) THEN a[i] ELSE b[i - Len(a)]
  BY ConcatProperties
<1>2. Len(a) \in Nat /\ Len(b) \in Nat /\ n <= Len(a \o b)
  BY <1>1
<1>3. /\ u \in Seq(Symbol) /\ Len(u) = (IF m < n THEN n - m ELSE 0)
      /\ \A i \in 1..(n - m) : u[i] = (a \o b)[m + i]
  BY <1>1, <1>2, SubSeqAt
<1>4. /\ v \in Seq(Symbol) /\ Len(v) = (IF m < n THEN n - m ELSE 0)
      /\ \A i \in 1..(n - m) : v[i] = a[m + i]
  BY SubSeqAt
<1> HIDE DEF u, v
<1>5. \A i \in 1..Len(u) : u[i] = v[i]
  <2> TAKE i \in 1..Len(u)
  <2>1. i \in 1..(n - m) /\ m + i \in 1..(Len(a) + Len(b)) /\ m + i <= Len(a)
    BY <1>2, <1>3
  <2> QED BY <1>1, <1>3, <1>4, <2>1
<1>6. u = v
  BY <1>3, <1>4, <1>5, SeqEqual
<1>7. QED
  BY <1>6 DEF u, v

LEMMA JoinedCut ==
    ASSUME NEW a \in Seq(Symbol), NEW b \in Seq(Symbol), NEW n \in Nat, n <= Len(a)
    PROVE  Left(a \o b, n) = Left(a, n) /\ Without(a \o b, n) = Without(a, n) \o b
<1>1. /\ a \o b \in Seq(Symbol) /\ Len(a \o b) = Len(a) + Len(b)
      /\ \A i \in 1..(Len(a) + Len(b)) : (a \o b)[i] = IF i <= Len(a) THEN a[i] ELSE b[i - Len(a)]
  BY ConcatProperties
<1>2. Left(a \o b, n) = Left(a, n)
  <2>1. SubSeq(a \o b, 0 + 1, n) = SubSeq(a, 0 + 1, n)
    BY JoinedBefore
  <2> QED BY <2>1 DEF Left
<1> DEFINE N == Len(a) + Len(b)
           u == SubSeq(a \o b, n + 1, N)
           w == SubSeq(a, n + 1, Len(a))
           v == w \o b
<1>3. Len(a) \in Nat /\ Len(b) \in Nat /\ N \in Nat /\ n <= N
  OBVIOUS
<1>4. /\ u \in Seq(Symbol) /\ Len(u) = (IF n < N THEN N - n ELSE 0)
      /\ \A i \in 1..(N - n) : u[i] = (a \o b)[n + i]
  <2>1. N <= Len(a \o b)
    BY <1>1, <1>3
  <2> HIDE DEF N
  <2> QED BY <1>1, <1>3, <2>1, SubSeqAt, SMTT(30)
<1>5. /\ w \in Seq(Symbol) /\ Len(w) = (IF n < Len(a) THEN Len(a) - n ELSE 0)
      /\ \A i \in 1..(Len(a) - n) : w[i] = a[n + i]
  BY <1>3, SubSeqAt
<1> HIDE DEF u, w, N
<1>6. /\ v \in Seq(Symbol) /\ Len(v) = Len(w) + Len(b)
      /\ \A i \in 1..(Len(w) + Len(b)) : v[i] = IF i <= Len(w) THEN w[i] ELSE b[i - Len(w)]
  BY <1>5, ConcatProperties
<1> HIDE DEF v
<1>7. Len(w) = Len(a) - n /\ Len(u) = N - n /\ Len(u) = Len(v)
  BY <1>3, <1>4, <1>5, <1>6 DEF N
<1>8. \A i \in 1..Len(u) : u[i] = v[i]
  <2> TAKE i \in 1..Len(u)
  <2>1. i \in 1..(N - n) /\ n + i \in 1..(Len(a) + Len(b)) /\ i \in 1..(Len(w) + Len(b))
    BY <1>3, <1>6, <1>7 DEF N
  <2>2. u[i] = IF n + i <= Len(a) THEN a[n + i] ELSE b[n + i - Len(a)]
    BY <1>1, <1>4, <2>1
  <2>3. v[i] = IF i <= Len(w) THEN w[i] ELSE b[i - Len(w)]
    BY <1>6, <2>1
  <2>4. /\ n + i <= Len(a) <=> i <= Len(w)
        /\ n + i - Len(a) = i - Len(w)
        /\ i <= Len(w) => i \in 1..(Len(a) - n)
    BY <1>3, <1>7, <2>1
  <2> QED BY <1>5, <2>2, <2>3, <2>4
<1>9. u = v
  BY <1>4, <1>6, <1>7, <1>8, SeqEqual
<1>10. Without(a \o b, n) = Without(a, n) \o b
  BY <1>1, <1>9 DEF Without, u, v, w, N
<1>11. QED
  BY <1>2, <1>10

LEMMA JoinedPast ==
    ASSUME NEW a \in Seq(Symbol), NEW b \in Seq(Symbol), NEW t \in Nat, t <= Len(b)
    PROVE  /\ Left(a \o b, Len(a) + t) = a \o Left(b, t)
           /\ Without(a \o b, Len(a) + t) = Without(b, t)
<1> DEFINE M == Len(a)
           N == Len(a) + Len(b)
           p == SubSeq(a \o b, 0 + 1, M + t)
           l == SubSeq(b, 0 + 1, t)
           q == a \o l
           u == SubSeq(a \o b, (M + t) + 1, N)
           v == SubSeq(b, t + 1, Len(b))
<1>1. /\ a \o b \in Seq(Symbol) /\ Len(a \o b) = N
      /\ \A i \in 1..N : (a \o b)[i] = IF i <= M THEN a[i] ELSE b[i - M]
  BY ConcatProperties
<1>2. M \in Nat /\ Len(b) \in Nat /\ N \in Nat /\ M + t \in Nat /\ M + t <= N /\ N = M + Len(b)
  OBVIOUS
<1>3. /\ p \in Seq(Symbol) /\ Len(p) = (IF 0 < M + t THEN (M + t) - 0 ELSE 0)
      /\ \A i \in 1..((M + t) - 0) : p[i] = (a \o b)[0 + i]
  <2> HIDE DEF M, N
  <2> QED BY <1>1, <1>2, SubSeqAt
<1>4. /\ l \in Seq(Symbol) /\ Len(l) = (IF 0 < t THEN t - 0 ELSE 0)
      /\ \A i \in 1..(t - 0) : l[i] = b[0 + i]
  BY SubSeqAt
<1>5. /\ u \in Seq(Symbol) /\ Len(u) = (IF M + t < N THEN N - (M + t) ELSE 0)
      /\ \A i \in 1..(N - (M + t)) : u[i] = (a \o b)[(M + t) + i]
  <2> HIDE DEF M, N
  <2>1. N <= Len(a \o b)
    BY <1>1, <1>2
  <2> QED BY <1>1, <1>2, <2>1, SubSeqAt, SMTT(30)
<1>6. /\ v \in Seq(Symbol) /\ Len(v) = (IF t < Len(b) THEN Len(b) - t ELSE 0)
      /\ \A i \in 1..(Len(b) - t) : v[i] = b[t + i]
  BY SubSeqAt
<1> HIDE DEF p, l, u, v
<1>7. /\ q \in Seq(Symbol) /\ Len(q) = M + Len(l)
      /\ \A i \in 1..(M + Len(l)) : q[i] = IF i <= M THEN a[i] ELSE l[i - M]
  BY <1>4, ConcatProperties
<1> HIDE DEF q, M, N
<1>8. Len(l) = t /\ Len(p) = M + t /\ Len(q) = M + t /\ Len(u) = N - (M + t) /\ Len(v) = Len(b) - t
  BY <1>2, <1>3, <1>4, <1>5, <1>6, <1>7, SMTT(30)
<1>9. \A i \in 1..Len(p) : p[i] = q[i]
  <2> TAKE i \in 1..Len(p)
  <2>1. i \in 1..(M + t) /\ i \in 1..((M + t) - 0) /\ i \in 1..N /\ 0 + i = i /\ i \in 1..(M + Len(l))
    BY <1>2, <1>8
  <2>2. p[i] = IF i <= M THEN a[i] ELSE b[i - M]
    BY <1>1, <1>3, <2>1
  <2>3. q[i] = IF i <= M THEN a[i] ELSE l[i - M]
    BY <1>7, <2>1
  <2>4. ~(i <= M) => i - M \in 1..(t - 0) /\ 0 + (i - M) = i - M
    BY <1>2, <2>1
  <2> QED BY <1>4, <2>2, <2>3, <2>4
<1>10. \A i \in 1..Len(u) : u[i] = v[i]
  <2> TAKE i \in 1..Len(u)
  <2>1. /\ i \in 1..(N - (M + t)) /\ (M + t) + i \in 1..N /\ ~((M + t) + i <= M)
        /\ ((M + t) + i) - M = t + i /\ i \in 1..(Len(b) - t)
    BY <1>2, <1>8
  <2> QED BY <1>1, <1>5, <1>6, <2>1
<1>11. p = q
  BY <1>3, <1>7, <1>8, <1>9, SeqEqual
<1>12. u = v
  <2>1. Len(u) = Len(v)
    BY <1>2, <1>8
  <2> QED BY <1>5, <1>6, <1>10, <2>1, SeqEqual
<1>13. QED
  BY <1>1, <1>11, <1>12 DEF Left, Without, p, q, l, u, v, M, N

(* A pattern is found where it was, however much comes after it.           *)
LEMMA IndexStays ==
    ASSUME NEW a \in Seq(Symbol), NEW b \in Seq(Symbol), NEW pattern, Len(pattern) \in Nat,
           ~(indexOf(a, pattern) < 0)
    PROVE  indexOf(a \o b, pattern) = indexOf(a, pattern)
<1> DEFINE S == Starts(a, pattern)
           T == Starts(a \o b, pattern)
           L == Len(pattern)
<1>1. a \o b \in Seq(Symbol) /\ Len(a \o b) = Len(a) + Len(b)
  BY ConcatProperties
<1>2. Len(a) \in Nat /\ Len(b) \in Nat /\ L \in Nat
  OBVIOUS
<1>3. \A i : i \in S <=> i \in 0..(Len(a) - L) /\ SubSeq(a, i + 1, i + L) = pattern
  BY DEF Starts
<1>4. \A i : i \in T <=> i \in 0..(Len(a) + Len(b) - L) /\ SubSeq(a \o b, i + 1, i + L) = pattern
  <2> DEFINE c == a \o b
  <2>1. Len(c) = Len(a) + Len(b) /\ T = Starts(c, pattern)
    BY <1>1
  <2> HIDE DEF c, T
  <2>2. \A i : i \in T <=> i \in 0..(Len(c) - L) /\ SubSeq(c, i + 1, i + L) = pattern
    BY <2>1 DEF Starts
  <2>3. \A i : i \in T <=> i \in 0..(Len(a) + Len(b) - L) /\ SubSeq(c, i + 1, i + L) = pattern
    BY <2>1, <2>2
  <2> QED BY <2>3, Zenon DEF c
<1>5. \A i \in 0..(Len(a) - L) : SubSeq(a \o b, i + 1, i + L) = SubSeq(a, i + 1, i + L)
  <2> TAKE i \in 0..(Len(a) - L)
  <2>1. i \in Nat /\ i + L \in Nat /\ i + L <= Len(a)
    BY <1>2
  <2> QED BY <2>1, JoinedBefore
<1>6. S # {}
  BY DEF indexOf
<1> HIDE DEF S, T, L
<1>7. /\ \A i \in S : i \in T /\ i \in Nat
      /\ \A i \in T : i \in Nat /\ \A j \in S : i <= j => i \in S
  <2>1. \A i \in 0..(Len(a) - L) : i \in 0..(Len(a) + Len(b) - L) /\ i \in Nat
    BY <1>2
  <2>2. \A i \in 0..(Len(a) + Len(b) - L), j \in 0..(Len(a) - L) :
           i \in Nat /\ (i <= j => i \in 0..(Len(a) - L))
    BY <1>2
  <2>3. ASSUME NEW i \in S PROVE i \in T /\ i \in Nat
    BY <1>3, <1>4, <1>5, <2>1
  <2>4. ASSUME NEW i \in T PROVE i \in Nat
    BY <1>2, <1>4
  <2>5. ASSUME NEW i \in T, NEW j \in S, i <= j PROVE i \in S
    <3>1. i \in 0..(Len(a) + Len(b) - L) /\ j \in 0..(Len(a) - L)
      BY <1>3, <1>4
    <3>2. i \in 0..(Len(a) - L)
      BY <2>2, <2>5, <3>1
    <3> QED BY <1>3, <1>4, <1>5, <3>2
  <2> QED BY <2>3, <2>4, <2>5
<1>8. PICK x \in S : \A y \in S : x <= y
  <2>1. S \subseteq Nat
    BY <1>7
  <2> QED BY <1>6, <2>1, LeastExists
<1>9. \A y \in T : x <= y
  <2> SUFFICES ASSUME NEW y \in T, ~(x <= y) PROVE FALSE
    OBVIOUS
  <2>1. x \in Nat /\ y \in Nat /\ y <= x
    BY <1>7
  <2> QED BY <1>7, <1>8, <2>1
<1>10. x \in T /\ T # {}
  BY <1>7
<1>11. \A I : I \subseteq Nat /\ x \in I /\ (\A y \in I : x <= y) =>
          (CHOOSE i \in I : \A j \in I : i <= j) = x
  <2> TAKE I
  <2> HAVE I \subseteq Nat /\ x \in I /\ (\A y \in I : x <= y)
  <2> DEFINE c == CHOOSE i \in I : \A j \in I : i <= j
  <2>1. c \in I /\ \A j \in I : c <= j
    OBVIOUS
  <2> HIDE DEF c
  <2>2. c \in Nat /\ x \in Nat /\ c <= x /\ x <= c
    BY <2>1
  <2>3. c = x
    BY <2>2
  <2> QED BY <2>3 DEF c
<1>12. S \subseteq Nat /\ T \subseteq Nat
  BY <1>7
<1>13. indexOf(a, pattern) = x
  BY <1>6, <1>8, <1>11, <1>12 DEF indexOf, S
<1>14. indexOf(a \o b, pattern) = x
  BY <1>9, <1>10, <1>11, <1>12 DEF indexOf, T
<1>15. QED
  BY <1>13, <1>14

-----------------------------------------------------------------------------
(* One turn of the chunk loop, with the bytes b still to come or there     *)
(* already.                                                                *)
Fed(k, b) == [k EXCEPT !.buffer = @ \o b]
Reading(k) == InBody(k) /\ k.state = "body" /\ ~k.complete

(* Bytes a turn could still look at.                                       *)
Todo(k) == IF k.state = "responded" \/ k.complete THEN 0 ELSE Len(k.buffer)

(* j after one read, k after two, with this much of the body in between:   *)
(* the same, or refused alike.  A block refused as a whole may have come   *)
(* in two, the first of which was taken.                                   *)
ReadAlike(j, k, body) ==
    \/ j = k
    \/ /\ j.state = "responded" /\ k.state = "responded"
       /\ j.status = k.status /\ j.asks = k.asks /\ k.body \in {j.body, body}

TurnsAlike(k, b, n, m) ==
    \/ n = k
    \/ /\ Todo(n) < Todo(k)
       /\ \/ n.state = "responded" /\ (CutOff(n) \/ ReadAlike(m, n, n.body))
          \/ n.state = "body" /\ n.complete /\ m = n
          \/ n.state = "body" /\ ~n.complete /\ m = Fed(n, b)
          \/ /\ n.state = "body" /\ ~n.complete /\ ChunkStep(n) = n
             /\ ReadAlike(m, ChunkStep(Fed(n, b)), n.body)

ButBuffer(j, k) ==
    /\ j.state = k.state /\ j.complete = k.complete /\ j.chunk = k.chunk
    /\ j.remaining = k.remaining /\ j.trailer = k.trailer /\ j.length = k.length
    /\ j.body = k.body /\ j.status = k.status /\ j.asks = k.asks

LEMMA FieldsEqual ==
    ASSUME NEW j \in Connection, NEW k \in Connection, ButBuffer(j, k), j.buffer = k.buffer
    PROVE  j = k
  BY DEF Connection, ButBuffer

LEMMA FedFields ==
    ASSUME NEW k \in Connection, NEW b \in Seq(Symbol)
    PROVE  /\ Fed(k, b) \in Connection /\ ButBuffer(Fed(k, b), k)
           /\ Fed(k, b).buffer = k.buffer \o b
           /\ Len(Fed(k, b).buffer) = Len(k.buffer) + Len(b)
<1>1. k.buffer \in Seq(Symbol)
  BY DEF Connection
<1>2. k.buffer \o b \in Seq(Symbol) /\ Len(k.buffer \o b) = Len(k.buffer) + Len(b)
  BY ONLY <1>1, b \in Seq(Symbol), ConcatProperties
<1>3. /\ Fed(k, b) \in Connection /\ ButBuffer(Fed(k, b), k)
      /\ Fed(k, b).buffer = k.buffer \o b
  BY <1>2 DEF Fed, Connection, ButBuffer
<1>4. QED
  BY <1>2, <1>3

LEMMA FailFields ==
    ASSUME NEW k \in Connection, NEW status \in Nat
    PROVE  /\ fail(k, status) \in Connection /\ fail(k, status).state = "responded"
           /\ fail(k, status).status = status /\ fail(k, status).buffer = k.buffer
           /\ fail(k, status).chunk = k.chunk /\ fail(k, status).asks = k.asks
           /\ fail(k, status).body = k.body
  BY DEF fail, Connection

LEMMA CutFields ==
    ASSUME NEW k \in Connection, NEW s \in Seq(Symbol)
    PROVE  /\ [k EXCEPT !.buffer = s] \in Connection
           /\ [k EXCEPT !.buffer = s].buffer = s /\ ButBuffer([k EXCEPT !.buffer = s], k)
  BY DEF Connection, ButBuffer

LEMMA SizeTurns ==
    ASSUME sent \in Stream, NEW k, Reading(k), k.chunk = "size", NEW b \in Seq(Symbol)
    PROVE  TurnsAlike(k, b, ChunkSize(k), ChunkSize(Fed(k, b)))
<1> DEFINE f == Fed(k, b)
           s == k.buffer
           eol == indexOf(s, CRLF)
           digits == SizeDigits(Left(s, eol))
           n == ChunkSize(k)
           m == ChunkSize(f)
<1>0. /\ k \in Connection /\ s \in Seq(Symbol) /\ Len(s) \in Nat /\ MaxHeadSize \in Nat
      /\ k.state = "body" /\ ~k.complete /\ sent.framing = "chunked"
  BY HttpAssumption DEF Reading, InBody, Sane, Connection
<1>1. /\ f \in Connection /\ ButBuffer(f, k) /\ f.buffer = s \o b
  BY <1>0, FedFields
<1>2. eol = -1 \/ (eol \in Nat /\ eol + 2 <= Len(s))
  BY <1>0, IndexInside, CrlfLength
<1>3. CASE eol < 0
  <2>1. CASE Len(s) > MaxHeadSize
    <3>1. n = fail(k, 400)
      BY <1>3, <2>1 DEF ChunkSize
    <3> HIDE DEF n
    <3>2. n.state = "responded" /\ n.status = 400 /\ n.buffer = s /\ n.chunk = "size"
      <4>1. k \in Connection /\ 400 \in Nat
        BY <1>0
      <4>2. /\ fail(k, 400).state = "responded" /\ fail(k, 400).status = 400
            /\ fail(k, 400).buffer = k.buffer /\ fail(k, 400).chunk = k.chunk
        BY ONLY <4>1, FailFields
      <4> QED BY <3>1, <4>2
    <3>3. CutOff(n)
      BY <1>0, <1>3, <2>1, <3>2 DEF CutOff
    <3>4. Todo(n) = 0 /\ Todo(k) = Len(s)
      BY <1>0, <3>2 DEF Todo
    <3>5. Todo(n) < Todo(k)
      BY <1>0, <2>1, <3>4
    <3> QED BY <3>2, <3>3, <3>5 DEF TurnsAlike, n
  <2>2. CASE ~(Len(s) > MaxHeadSize)
    <3>1. n = k
      BY <1>3, <2>2 DEF ChunkSize
    <3> QED BY <3>1 DEF TurnsAlike
  <2> QED BY <2>1, <2>2
<1>4. CASE ~(eol < 0)
  <2>1. eol \in Nat /\ eol + 2 \in Nat /\ eol <= Len(s) /\ eol + 2 <= Len(s)
    BY <1>0, <1>2, <1>4
  <2>2. indexOf(s \o b, CRLF) = eol
    BY <1>0, <1>4, CrlfLength, IndexStays
  <2> DEFINE rest == Without(s, eol + 2)
             size == SizeOf(digits)
             after == IF size = 0 THEN "trailer" ELSE "data"
  <2>3. Left(s \o b, eol) = Left(s, eol) /\ Without(s \o b, eol + 2) = rest \o b
    <3> HIDE DEF eol
    <3> QED BY <1>0, <2>1, JoinedCut
  <2>4. rest \in Seq(Symbol) /\ Len(rest) = Len(s) - (eol + 2)
    <3> HIDE DEF eol
    <3> QED BY <1>0, <2>1, Cutting
  <2>5. n = IF ~IsSize(digits) THEN fail([k EXCEPT !.buffer = rest], 400)
            ELSE [k EXCEPT !.buffer = rest, !.remaining = size, !.chunk = after]
    BY <1>4 DEF ChunkSize
  <2>6. m = IF ~IsSize(digits) THEN fail([f EXCEPT !.buffer = rest \o b], 400)
            ELSE [f EXCEPT !.buffer = rest \o b, !.remaining = size, !.chunk = after]
    <3> HIDE DEF f
    <3>1. m = IF ~IsSize(SizeDigits(Left(s \o b, eol)))
              THEN fail([f EXCEPT !.buffer = Without(s \o b, eol + 2)], 400)
              ELSE [f EXCEPT !.buffer = Without(s \o b, eol + 2),
                             !.remaining = SizeOf(SizeDigits(Left(s \o b, eol))),
                             !.chunk = IF SizeOf(SizeDigits(Left(s \o b, eol))) = 0
                                       THEN "trailer" ELSE "data"]
      BY <1>1, <1>4, <2>2 DEF ChunkSize
    <3> QED BY <2>3, <3>1
  <2>7. rest \o b \in Seq(Symbol)
    BY ONLY <2>4, b \in Seq(Symbol), ConcatProperties
  <2>8. Todo(k) = Len(s)
    BY <1>0 DEF Todo
  <2> HIDE DEF rest, n, m, f
  <2>9. CASE ~IsSize(digits)
    <3> DEFINE x == [k EXCEPT !.buffer = rest]
               y == [f EXCEPT !.buffer = rest \o b]
    <3>1. x \in Connection /\ ButBuffer(x, k) /\ y \in Connection /\ ButBuffer(y, f)
      BY <1>0, <1>1, <2>4, <2>7, CutFields
    <3>2. /\ n.state = "responded" /\ n.status = 400 /\ m.state = "responded" /\ m.status = 400
          /\ m.asks = n.asks
      <4> HIDE DEF digits
      <4>1. n = fail(x, 400) /\ m = fail(y, 400)
        BY <2>5, <2>6, <2>9
      <4> HIDE DEF x, y
      <4>2. x \in Connection /\ y \in Connection /\ 400 \in Nat
        BY <3>1
      <4>3. /\ n.state = "responded" /\ n.status = 400 /\ n.asks = x.asks
            /\ m.state = "responded" /\ m.status = 400 /\ m.asks = y.asks
        BY ONLY <4>1, <4>2, FailFields, SMTT(30)
      <4> QED BY <1>1, <3>1, <4>3 DEF ButBuffer
    <3>3. Todo(n) < Todo(k)
      BY <1>0, <2>1, <2>8, <3>2 DEF Todo
    <3> QED BY <3>2, <3>3 DEF TurnsAlike, ReadAlike, n, m, f
  <2>10. CASE IsSize(digits)
    <3>1. size \in Nat
      <4> HIDE DEF eol
      <4> QED BY <1>0, <2>1, <2>10, SizeLine
    <3> HIDE DEF digits
    <3>2. /\ n = [k EXCEPT !.buffer = rest, !.remaining = size, !.chunk = after]
          /\ m = [f EXCEPT !.buffer = rest \o b, !.remaining = size, !.chunk = after]
      BY <2>5, <2>6, <2>10
    <3>3. after \in {"size", "data", "crlf", "trailer", "done"}
      OBVIOUS
    <3> HIDE DEF size, after
    <3>4. /\ n \in Connection /\ n.buffer = rest /\ n.state = "body" /\ ~n.complete
          /\ n.remaining = size /\ n.chunk = after
          /\ n.trailer = k.trailer /\ n.length = k.length
          /\ n.body = k.body /\ n.status = k.status /\ n.asks = k.asks
      BY <1>0, <2>4, <3>1, <3>2, <3>3 DEF Connection
    <3>5. /\ m \in Connection /\ m.buffer = rest \o b /\ m.state = f.state /\ m.complete = f.complete
          /\ m.remaining = size /\ m.chunk = after
          /\ m.trailer = f.trailer /\ m.length = f.length
          /\ m.body = f.body /\ m.status = f.status /\ m.asks = f.asks
      BY <1>1, <2>7, <3>1, <3>2, <3>3 DEF Connection
    <3>6. m = Fed(n, b)
      <4>1. Fed(n, b) \in Connection /\ ButBuffer(Fed(n, b), n) /\ Fed(n, b).buffer = rest \o b
        BY <3>4, FedFields
      <4>2. n.complete = k.complete
        BY <1>0, <3>2 DEF Connection
      <4>3. ButBuffer(m, Fed(n, b))
        BY <1>0, <1>1, <3>4, <3>5, <4>1, <4>2 DEF ButBuffer
      <4> QED BY <3>5, <4>1, <4>3, FieldsEqual
    <3>7. Todo(n) < Todo(k)
      <4>1. Todo(n) = Len(rest)
        BY <3>4 DEF Todo
      <4> QED BY <1>0, <2>1, <2>4, <2>8, <4>1
    <3> QED BY <3>4, <3>6, <3>7 DEF TurnsAlike, n, m, f
  <2> QED BY <2>9, <2>10
<1>5. QED
  BY <1>3, <1>4

LEMMA CrlfTurns ==
    ASSUME NEW k, Reading(k), k.chunk = "crlf", NEW b \in Seq(Symbol)
    PROVE  TurnsAlike(k, b, ChunkCrlf(k), ChunkCrlf(Fed(k, b)))
<1> DEFINE f == Fed(k, b)
           s == k.buffer
           n == ChunkCrlf(k)
           m == ChunkCrlf(f)
<1>0. /\ k \in Connection /\ s \in Seq(Symbol) /\ Len(s) \in Nat
      /\ k.state = "body" /\ ~k.complete /\ Len(b) \in Nat
  BY DEF Reading, InBody, Sane, Connection
<1>1. /\ f \in Connection /\ ButBuffer(f, k) /\ f.buffer = s \o b
      /\ Len(f.buffer) = Len(s) + Len(b)
  BY <1>0, FedFields
<1>2. CASE Len(s) < 2
  <2>1. n = k
    BY <1>2 DEF ChunkCrlf
  <2> QED BY <2>1 DEF TurnsAlike
<1>3. CASE ~(Len(s) < 2)
  <2> DEFINE rest == Without(s, 2)
  <2>1. 2 \in Nat /\ 2 <= Len(s) /\ ~(Len(f.buffer) < 2)
    <3> HIDE DEF f
    <3> QED BY <1>0, <1>1, <1>3
  <2>2. Without(s \o b, 2) = rest \o b
    BY <1>0, <2>1, JoinedCut
  <2>3. rest \in Seq(Symbol) /\ Len(rest) = Len(s) - 2
    BY <1>0, <2>1, Cutting
  <2>4. rest \o b \in Seq(Symbol)
    BY ONLY <2>3, b \in Seq(Symbol), ConcatProperties
  <2>5. n = [k EXCEPT !.buffer = rest, !.chunk = "size"]
    BY <1>3 DEF ChunkCrlf
  <2>6. m = [f EXCEPT !.buffer = rest \o b, !.chunk = "size"]
    <3> HIDE DEF f
    <3> QED BY <1>1, <2>1, <2>2 DEF ChunkCrlf
  <2> HIDE DEF rest, n, m, f
  <2>7. /\ n \in Connection /\ n.buffer = rest /\ n.state = "body" /\ n.complete = k.complete
        /\ n.chunk = "size" /\ n.remaining = k.remaining
        /\ n.trailer = k.trailer /\ n.length = k.length
        /\ n.body = k.body /\ n.status = k.status /\ n.asks = k.asks
    BY <1>0, <2>3, <2>5 DEF Connection
  <2>8. /\ m \in Connection /\ m.buffer = rest \o b /\ m.state = f.state /\ m.complete = f.complete
        /\ m.chunk = "size" /\ m.remaining = f.remaining
        /\ m.trailer = f.trailer /\ m.length = f.length
        /\ m.body = f.body /\ m.status = f.status /\ m.asks = f.asks
    BY <1>1, <2>4, <2>6 DEF Connection
  <2>9. m = Fed(n, b)
    <3>1. Fed(n, b) \in Connection /\ ButBuffer(Fed(n, b), n) /\ Fed(n, b).buffer = rest \o b
      BY <2>7, FedFields
    <3>2. ButBuffer(m, Fed(n, b))
      BY <1>0, <1>1, <2>7, <2>8, <3>1 DEF ButBuffer
    <3> QED BY <2>8, <3>1, <3>2, FieldsEqual
  <2>10. Todo(n) < Todo(k)
    <3>1. Todo(n) = Len(rest) /\ Todo(k) = Len(s)
      BY <1>0, <2>7 DEF Todo
    <3> QED BY <1>0, <2>1, <2>3, <3>1
  <2> QED BY <1>0, <2>7, <2>9, <2>10 DEF TurnsAlike, n, m, f
<1>4. QED
  BY <1>2, <1>3

LEMMA TrailerTurns ==
    ASSUME NEW k, Reading(k), k.chunk = "trailer", NEW b \in Seq(Symbol)
    PROVE  TurnsAlike(k, b, ChunkTrailer(k), ChunkTrailer(Fed(k, b)))
<1> DEFINE f == Fed(k, b)
           s == k.buffer
           eol == indexOf(s, CRLF)
           n == ChunkTrailer(k)
           m == ChunkTrailer(f)
<1>0. /\ k \in Connection /\ s \in Seq(Symbol) /\ Len(s) \in Nat /\ k.trailer \in Nat
      /\ k.state = "body" /\ ~k.complete /\ k.body \in Seq(Symbol) /\ Len(k.body) \in Int
      /\ k.asks \in Nat
  BY DEF Reading, InBody, Sane, Connection
<1>1. /\ f \in Connection /\ ButBuffer(f, k) /\ f.buffer = s \o b
  BY <1>0, FedFields
<1>2. eol = -1 \/ (eol \in Nat /\ eol + 2 <= Len(s))
  BY <1>0, IndexInside, CrlfLength
<1>3. CASE eol < 0
  <2>1. n = k
    BY <1>3 DEF ChunkTrailer
  <2> QED BY <2>1 DEF TurnsAlike
<1>4. CASE ~(eol < 0)
  <2> DEFINE rest == Without(s, eol + 2)
             count == k.trailer + eol + 2
             nc == [k EXCEPT !.trailer = count]
             mc == [f EXCEPT !.trailer = count]
             nt == [nc EXCEPT !.buffer = rest]
             mt == [mc EXCEPT !.buffer = rest \o b]
             ne == [nt EXCEPT !.chunk = "done", !.length = Len(k.body)]
             me == [mt EXCEPT !.chunk = "done", !.length = Len(k.body)]
  <2>1. eol \in Nat /\ eol + 2 \in Nat /\ eol + 2 <= Len(s) /\ count \in Nat
    BY <1>0, <1>2, <1>4
  <2>2. indexOf(s \o b, CRLF) = eol
    BY <1>0, <1>4, CrlfLength, IndexStays
  <2>3. Without(s \o b, eol + 2) = rest \o b
    <3> HIDE DEF eol
    <3> QED BY <1>0, <2>1, JoinedCut
  <2>4. rest \in Seq(Symbol) /\ Len(rest) = Len(s) - (eol + 2)
    <3> HIDE DEF eol
    <3> QED BY <1>0, <2>1, Cutting
  <2>5. rest \o b \in Seq(Symbol)
    <3> HIDE DEF rest
    <3> QED BY ONLY <2>4, b \in Seq(Symbol), ConcatProperties
  <2>6. nc.trailer = count /\ nc.buffer = s /\ mc.trailer = count /\ mc.buffer = s \o b
    <3> HIDE DEF f, eol
    <3> QED BY <1>0, <1>1, <2>1 DEF Connection
  <2>7. n = IF count > MaxHeadSize THEN fail(nc, 431)
            ELSE IF eol = 0 THEN finishBody(ne) ELSE nt
    <3>1. n = IF nc.trailer > MaxHeadSize THEN fail(nc, 431)
              ELSE IF eol = 0
                   THEN finishBody([[nc EXCEPT !.buffer = Without(@, eol + 2)] EXCEPT
                                        !.chunk = "done", !.length = Len(k.body)])
                   ELSE [nc EXCEPT !.buffer = Without(@, eol + 2)]
      BY <1>4 DEF ChunkTrailer
    <3>2. [nc EXCEPT !.buffer = Without(@, eol + 2)] = nt
      BY <2>6
    <3> HIDE DEF nc, n, rest
    <3> QED BY <2>6, <3>1, <3>2, ZenonT(60)
  <2>8. m = IF count > MaxHeadSize THEN fail(mc, 431)
            ELSE IF eol = 0 THEN finishBody(me) ELSE mt
    <3> HIDE DEF f
    <3>0. f.trailer = k.trailer /\ f.body = k.body
      BY <1>1 DEF ButBuffer
    <3>1. m = IF mc.trailer > MaxHeadSize THEN fail(mc, 431)
              ELSE IF eol = 0
                   THEN finishBody([[mc EXCEPT !.buffer = Without(@, eol + 2)] EXCEPT
                                        !.chunk = "done", !.length = Len(k.body)])
                   ELSE [mc EXCEPT !.buffer = Without(@, eol + 2)]
      BY <1>1, <1>4, <2>2, <3>0 DEF ChunkTrailer
    <3>2. [mc EXCEPT !.buffer = Without(@, eol + 2)] = mt
      BY <2>3, <2>6
    <3> HIDE DEF mc, m, rest
    <3> QED BY <2>6, <3>1, <3>2, ZenonT(60)
  <2> HIDE DEF n, m, f, rest, count
  <2>9. /\ nc \in Connection /\ mc \in Connection /\ ButBuffer(mc, nc)
        /\ nc.state = k.state /\ nc.complete = k.complete /\ nc.asks = k.asks
    BY <1>0, <1>1, <2>1 DEF Connection, ButBuffer
  <2> HIDE DEF nc, mc
  <2>10. /\ nt \in Connection /\ mt \in Connection /\ ButBuffer(nt, nc) /\ ButBuffer(mt, mc)
         /\ nt.buffer = rest /\ mt.buffer = rest \o b
    BY <2>4, <2>5, <2>9, CutFields
  <2> HIDE DEF nt, mt
  <2>11. Todo(k) = Len(s) /\ Todo(k) > 0
    <3> HIDE DEF eol
    <3> QED BY <1>0, <2>1 DEF Todo
  <2>12. CASE count > MaxHeadSize
    <3>1. n = fail(nc, 431) /\ m = fail(mc, 431) /\ 431 \in Nat
      BY <2>7, <2>8, <2>12
    <3>2. /\ n.state = "responded" /\ n.status = 431 /\ n.asks = nc.asks
          /\ m.state = "responded" /\ m.status = 431 /\ m.asks = mc.asks
      BY <2>9, <3>1, FailFields
    <3>3. m.asks = n.asks
      BY <2>9, <3>2 DEF ButBuffer
    <3>4. Todo(n) < Todo(k)
      BY <2>11, <3>2 DEF Todo
    <3> QED BY <3>2, <3>3, <3>4 DEF TurnsAlike, ReadAlike, n, m, f
  <2>13. CASE ~(count > MaxHeadSize) /\ eol = 0
    <3>1. n = finishBody(ne) /\ m = finishBody(me)
      BY <2>7, <2>8, <2>13
    <3>2. /\ ne \in Connection /\ me \in Connection /\ ButBuffer(me, ne)
          /\ ne.state = "body" /\ ~ne.complete
      <4>1. ButBuffer(mt, nt) /\ nt.state = "body" /\ ~nt.complete
        BY <1>0, <2>9, <2>10 DEF ButBuffer
      <4> QED BY <1>0, <2>10, <4>1 DEF Connection, ButBuffer
    <3> HIDE DEF ne, me
    <3>3. /\ n = [ne EXCEPT !.complete = TRUE, !.buffer = <<>>, !.asks = @ + 1]
          /\ m = [me EXCEPT !.complete = TRUE, !.buffer = <<>>, !.asks = @ + 1]
      BY <3>1, <3>2 DEF finishBody, ButBuffer
    <3>4. m = n /\ n.state = "body" /\ n.complete = TRUE
      BY <3>2, <3>3 DEF Connection, ButBuffer
    <3>5. Todo(n) < Todo(k)
      BY <2>11, <3>4 DEF Todo
    <3> QED BY <3>4, <3>5 DEF TurnsAlike, n, m, f
  <2>14. CASE ~(count > MaxHeadSize) /\ eol # 0
    <3>1. n = nt /\ m = mt
      BY <2>7, <2>8, <2>14
    <3>2. m = Fed(n, b)
      <4>1. Fed(nt, b) \in Connection /\ ButBuffer(Fed(nt, b), nt) /\ Fed(nt, b).buffer = rest \o b
        BY <2>10, FedFields
      <4>2. ButBuffer(mt, Fed(nt, b))
        BY <2>9, <2>10, <4>1 DEF ButBuffer
      <4>3. mt = Fed(nt, b)
        BY <2>10, <4>1, <4>2, FieldsEqual
      <4> QED BY <3>1, <4>3
    <3>3. n.state = "body" /\ ~n.complete /\ n.buffer = rest
      BY <1>0, <2>9, <2>10, <3>1 DEF ButBuffer
    <3>4. Todo(n) < Todo(k)
      <4>1. Todo(n) = Len(rest)
        BY <3>3 DEF Todo
      <4> HIDE DEF eol
      <4> QED BY <1>0, <2>1, <2>4, <2>11, <4>1
    <3> QED BY <3>2, <3>3, <3>4 DEF TurnsAlike, n, m, f
  <2> QED BY <2>12, <2>13, <2>14
<1>5. QED
  BY <1>3, <1>4
(* A block of data, and what became of it: handed on, or refused.          *)
Handed(n, k, data) ==
    /\ n \in Connection /\ n.body = k.body \o data /\ n.buffer = k.buffer
    /\ n.state = k.state /\ n.complete = k.complete /\ n.chunk = k.chunk
    /\ n.remaining = k.remaining /\ n.trailer = k.trailer /\ n.length = k.length
    /\ n.status = k.status /\ n.asks = k.asks

LEMMA Delivered ==
    ASSUME NEW k \in Connection, NEW data \in Seq(Symbol), Len(k.body) + Len(data) <= Ceiling
    PROVE  Handed(deliver(k, data), k, data)
<1> DEFINE new == k.body \o data
<1>1. k.body \in Seq(Symbol)
  BY DEF Connection
<1>2. new \in Seq(Symbol)
  BY ONLY <1>1, data \in Seq(Symbol), ConcatProperties
<1>3. deliver(k, data) = [k EXCEPT !.body = new]
  BY DEF deliver, WithinCeiling
<1> HIDE DEF new
<1> DEFINE n == [k EXCEPT !.body = new]
<1>4. /\ n \in Connection /\ n.body = new /\ n.buffer = k.buffer
      /\ n.state = k.state /\ n.complete = k.complete /\ n.chunk = k.chunk
      /\ n.remaining = k.remaining /\ n.trailer = k.trailer /\ n.length = k.length
      /\ n.status = k.status /\ n.asks = k.asks
  BY <1>2 DEF Connection
<1> HIDE DEF n
<1>5. Handed(n, k, data)
  BY <1>4 DEF Handed, new
<1>6. QED
  BY <1>3, <1>5 DEF n

LEMMA Refused ==
    ASSUME NEW k \in Connection, NEW data \in Seq(Symbol), ~(Len(k.body) + Len(data) <= Ceiling)
    PROVE  /\ deliver(k, data).state = "responded" /\ deliver(k, data).status = 413
           /\ deliver(k, data).asks = k.asks /\ deliver(k, data).body = k.body
<1>1. deliver(k, data) = fail(k, 413) /\ 413 \in Nat
  BY DEF deliver, WithinCeiling
<1>2. k \in Connection /\ 413 \in Nat
  OBVIOUS
<1>3. /\ fail(k, 413).state = "responded" /\ fail(k, 413).status = 413
      /\ fail(k, 413).asks = k.asks /\ fail(k, 413).body = k.body
  BY ONLY <1>2, FailFields
<1>4. QED
  BY <1>1, <1>3

(* ChunkData() in terms of what it takes.                                  *)
Taking(k, take) ==
    [k EXCEPT !.buffer = Without(@, take), !.remaining = @ - take, !.chunk = ChunkAfter(k, take)]
Took(n, k, take) ==
    /\ n \in Connection /\ n.buffer = Without(k.buffer, take)
    /\ n.remaining = k.remaining - take
    /\ n.chunk = (IF k.remaining = take THEN "crlf" ELSE "data")
    /\ n.state = k.state /\ n.complete = k.complete /\ n.trailer = k.trailer
    /\ n.length = k.length /\ n.status = k.status /\ n.asks = k.asks /\ n.body = k.body

LEMMA TakingFields ==
    ASSUME NEW k \in Connection, NEW take \in Nat, take <= Len(k.buffer), take <= k.remaining
    PROVE  /\ Took(Taking(k, take), k, take)
           /\ Left(k.buffer, take) \in Seq(Symbol) /\ Len(Left(k.buffer, take)) = take
<1>0. k.buffer \in Seq(Symbol) /\ k.remaining \in Nat
  BY DEF Connection
<1>1. /\ Left(k.buffer, take) \in Seq(Symbol) /\ Len(Left(k.buffer, take)) = take
      /\ Without(k.buffer, take) \in Seq(Symbol)
  BY <1>0, Cutting
<1>2. k.remaining - take \in Nat
  BY <1>0
<1>3. QED
  BY <1>0, <1>1, <1>2 DEF Taking, Took, ChunkAfter, Connection

LEMMA DataTurns ==
    ASSUME sent \in Stream, NEW k, Reading(k), k.chunk = "data", NEW b \in Seq(Symbol)
    PROVE  TurnsAlike(k, b, ChunkData(k), ChunkData(Fed(k, b)))
<1> DEFINE f == Fed(k, b)
           s == k.buffer
           R == k.remaining
           n == ChunkData(k)
           m == ChunkData(f)
<1>0. /\ k \in Connection /\ s \in Seq(Symbol) /\ Len(s) \in Nat /\ Len(b) \in Nat
      /\ k.state = "body" /\ ~k.complete /\ R \in Nat /\ R > 0
      /\ k.body \in Seq(Symbol) /\ Len(k.body) \in Nat /\ Ceiling \in Nat
  BY CeilingIsNat DEF Reading, InBody, Sane, Connection
<1>1. /\ f \in Connection /\ ButBuffer(f, k) /\ f.buffer = s \o b /\ Len(f.buffer) = Len(s) + Len(b)
      /\ f.chunk = "data" /\ f.remaining = R /\ f.body = k.body
  BY <1>0, FedFields DEF ButBuffer
<1>2. CASE s = <<>>
  <2>1. n = k
    BY <1>2 DEF ChunkData
  <2> QED BY <2>1 DEF TurnsAlike
<1>3. CASE s # <<>>
  <2>1. Len(s) > 0 /\ f.buffer # <<>>
    <3>1. Len(s) > 0
      BY <1>0, <1>3
    <3>2. Len(f.buffer) > 0 /\ Len(<<>>) = 0
      <4> HIDE DEF f
      <4> QED BY <1>0, <1>1, <3>1
    <3> HIDE DEF f
    <3> QED BY <3>1, <3>2
  <2> DEFINE p == Least(R, Len(s))
             q == Least(R, Len(s) + Len(b))
  <2>2. n = deliver(Taking(k, p), Left(s, p))
    BY <1>3 DEF ChunkData, Taking
  <2>3. m = deliver(Taking(f, q), Left(s \o b, q))
    <3> HIDE DEF f
    <3>1. Least(f.remaining, Len(f.buffer)) = q
      BY <1>1
    <3> QED BY <1>1, <2>1, <3>1 DEF ChunkData, Taking
  <2>4. Todo(k) = Len(s)
    BY <1>0 DEF Todo
  <2>5. /\ p \in Nat /\ p > 0 /\ p <= Len(s) /\ p <= R
        /\ q \in Nat /\ q <= Len(s) + Len(b) /\ q <= R /\ p <= q
        /\ R <= Len(s) => p = R /\ q = R
        /\ ~(R <= Len(s)) => p = Len(s)
    BY <1>0, <2>1 DEF Least
  <2> HIDE DEF n, m, f, p
  <2> DEFINE x == Taking(k, p)
             y == Taking(f, q)
             c == Left(s, p)
             d == Left(s \o b, q)
  <2>6. /\ x \in Connection /\ x.buffer = Without(s, p) /\ x.remaining = R - p
        /\ x.chunk = (IF R = p THEN "crlf" ELSE "data")
        /\ x.state = k.state /\ x.complete = k.complete
        /\ x.trailer = k.trailer /\ x.length = k.length
        /\ x.status = k.status /\ x.asks = k.asks /\ x.body = k.body
        /\ c \in Seq(Symbol) /\ Len(c) = p
    <3>1. Took(x, k, p) /\ c \in Seq(Symbol) /\ Len(c) = p
      BY <1>0, <2>5, TakingFields
    <3> HIDE DEF x, c
    <3> QED BY <3>1 DEF Took
  <2>7. /\ y \in Connection /\ y.buffer = Without(s \o b, q) /\ y.remaining = R - q
        /\ y.chunk = (IF R = q THEN "crlf" ELSE "data")
        /\ y.state = k.state /\ y.complete = k.complete
        /\ y.trailer = k.trailer /\ y.length = k.length
        /\ y.status = k.status /\ y.asks = k.asks /\ y.body = k.body
        /\ d \in Seq(Symbol) /\ Len(d) = q
    <3> HIDE DEF q
    <3>1. q <= Len(f.buffer) /\ q <= f.remaining
      BY <1>1, <2>5
    <3>2. Took(y, f, q) /\ Left(f.buffer, q) \in Seq(Symbol) /\ Len(Left(f.buffer, q)) = q
      BY <1>1, <2>5, <3>1, TakingFields
    <3>3. Left(f.buffer, q) = d
      BY <1>1
    <3> HIDE DEF y, d
    <3> QED BY <1>1, <3>2, <3>3 DEF Took, ButBuffer
  <2>8. /\ n = deliver(x, c) /\ m = deliver(y, d)
    BY <2>2, <2>3
  <2> HIDE DEF x, y, c, d, q
  <2>9. CASE ~(Len(k.body) + p <= Ceiling)
    <3>1. ~(Len(k.body) + q <= Ceiling)
      BY <1>0, <2>5, <2>9
    <3>2. ~(Len(x.body) + Len(c) <= Ceiling) /\ ~(Len(y.body) + Len(d) <= Ceiling)
      BY <2>6, <2>7, <2>9, <3>1
    <3>3. n.state = "responded" /\ n.status = 413 /\ n.asks = x.asks
      BY <2>6, <2>8, <3>2, Refused, ZenonT(60)
    <3>4. m.state = "responded" /\ m.status = 413 /\ m.asks = y.asks
      BY <2>7, <2>8, <3>2, Refused, ZenonT(60)
    <3>5. Todo(n) < Todo(k)
      BY <2>1, <2>4, <3>3 DEF Todo
    <3>6. m.asks = n.asks
      BY <2>6, <2>7, <3>3, <3>4
    <3> QED BY <3>3, <3>4, <3>5, <3>6 DEF TurnsAlike, ReadAlike, n, m, f
  <2>10. CASE Len(k.body) + p <= Ceiling
    <3>1. Len(x.body) + Len(c) <= Ceiling
      BY <2>6, <2>10
    <3>2. /\ n \in Connection /\ n.body = k.body \o c /\ n.buffer = Without(s, p)
          /\ n.state = "body" /\ n.complete = k.complete
          /\ n.remaining = R - p /\ n.chunk = (IF R = p THEN "crlf" ELSE "data")
          /\ n.trailer = k.trailer /\ n.length = k.length
          /\ n.status = k.status /\ n.asks = k.asks
      <4>1. Handed(n, x, c)
        BY <2>6, <2>8, <3>1, Delivered
      <4> QED BY <1>0, <2>6, <4>1 DEF Handed
    <3>3. Todo(n) < Todo(k)
      <4>1. Len(Without(s, p)) = Len(s) - p
        BY <1>0, <2>5, Cutting
      <4>2. Todo(n) = Len(Without(s, p))
        BY <1>0, <3>2 DEF Todo
      <4> QED BY <1>0, <2>1, <2>4, <2>5, <4>1, <4>2
    <3>4. CASE R <= Len(s)
      <4>1. p = q /\ d = c /\ Without(s \o b, q) = Without(s, p) \o b
        <5>1. p = q
          BY <2>5, <3>4
        <5>2. Left(s \o b, p) = Left(s, p) /\ Without(s \o b, p) = Without(s, p) \o b
          BY <1>0, <2>5, JoinedCut
        <5> QED BY <5>1, <5>2 DEF c, d
      <4>2. Len(y.body) + Len(d) <= Ceiling
        BY <2>7, <2>10, <4>1
      <4>3. Handed(m, y, d)
        BY <2>7, <2>8, <4>2, Delivered
      <4>4. Fed(n, b) \in Connection /\ ButBuffer(Fed(n, b), n) /\ Fed(n, b).buffer = n.buffer \o b
        BY <3>2, FedFields
      <4>5. ButBuffer(m, Fed(n, b)) /\ m.buffer = Fed(n, b).buffer
        <5>1. m.body = n.body
          BY <2>7, <3>2, <4>1, <4>3 DEF Handed
        <5>2. m.buffer = n.buffer \o b
          BY <2>7, <3>2, <4>1, <4>3 DEF Handed
        <5>3. m.remaining = n.remaining /\ m.chunk = n.chunk
          BY <2>7, <3>2, <4>1, <4>3 DEF Handed
        <5>4. m.state = n.state /\ m.complete = n.complete /\ m.trailer = n.trailer
          BY <1>0, <2>7, <3>2, <4>3 DEF Handed
        <5>5. m.length = n.length /\ m.status = n.status /\ m.asks = n.asks
          BY <2>7, <3>2, <4>3 DEF Handed
        <5> QED BY <4>4, <5>1, <5>2, <5>3, <5>4, <5>5 DEF ButBuffer
      <4>6. m = Fed(n, b)
        BY <4>3, <4>4, <4>5, FieldsEqual DEF Handed
      <4> QED BY <1>0, <3>2, <3>3, <4>6 DEF TurnsAlike, n, m, f
    <3>5. CASE ~(R <= Len(s))
      <4> DEFINE g == Fed(n, b)
                 t == Least(R - Len(s), Len(b))
      <4>1. p = Len(s) /\ p # R /\ n.chunk = "data" /\ n.remaining = R - Len(s)
        BY <1>0, <2>5, <3>2, <3>5
      <4>2. c = s /\ Without(s, p) = <<>>
        <5>1. Left(s, Len(s)) = s
          BY <1>0, SubSeqFull DEF Left
        <5>2. Without(s, Len(s)) \in Seq(Symbol) /\ Len(Without(s, Len(s))) = Len(s) - Len(s)
          <6>1. Len(s) <= Len(s)
            BY <1>0
          <6> QED BY <1>0, <6>1, Cutting
        <5>3. Len(Without(s, Len(s))) = 0
          BY <1>0, <5>2
        <5>4. Without(s, Len(s)) = <<>>
          BY <5>2, <5>3, EmptySeq
        <5> QED BY <4>1, <5>1, <5>4 DEF c
      <4>3. n.buffer = <<>> /\ n.body = k.body \o s
        BY <3>2, <4>2
      <4>4. ChunkStep(n) = n
        <5>1. ChunkData(n) = n
          BY <4>3 DEF ChunkData
        <5>2. ChunkStep(n) = IF n.state # "body" \/ n.complete THEN n ELSE ChunkData(n)
          BY <4>1 DEF ChunkStep
        <5> QED BY <5>1, <5>2
      <4>5. /\ g \in Connection /\ ButBuffer(g, n) /\ g.buffer = b
            /\ g.chunk = "data" /\ g.remaining = R - Len(s) /\ g.body = k.body \o s
            /\ g.state = "body" /\ g.complete = k.complete
            /\ g.trailer = k.trailer /\ g.length = k.length
            /\ g.status = k.status /\ g.asks = k.asks
        <5>1. g \in Connection /\ ButBuffer(g, n) /\ g.buffer = n.buffer \o b
          BY <3>2, FedFields
        <5>2. <<>> \o b = b
          BY ConcatEmptySeq
        <5> HIDE DEF g
        <5> QED BY <3>2, <4>1, <4>3, <5>1, <5>2 DEF ButBuffer
      <4>6. ChunkStep(g) = ChunkData(g)
        <5> HIDE DEF g
        <5> QED BY <1>0, <4>5 DEF ChunkStep
      <4>7. t \in Nat /\ t <= Len(b) /\ t <= R - Len(s) /\ q = Len(s) + t
        <5>1. \A r, u, v \in Nat : ~(r <= u) =>
                 /\ Least(r - u, v) \in Nat /\ Least(r - u, v) <= v /\ Least(r - u, v) <= r - u
                 /\ Least(r, u + v) = u + Least(r - u, v)
          BY DEF Least
        <5> QED BY <1>0, <3>5, <5>1, ZenonT(60) DEF q
      <4>8. d = s \o Left(b, t) /\ Without(s \o b, q) = Without(b, t)
        <5> HIDE DEF t
        <5> QED BY <1>0, <4>7, JoinedPast DEF d
      <4>9. Len(k.body \o s) = Len(k.body) + Len(s) /\ k.body \o s \in Seq(Symbol)
        BY ONLY <1>0, ConcatProperties
      <4>10. CASE b = <<>>
        <5>1. t = 0
          <6>1. Len(b) = 0
            BY <4>10
          <6> HIDE DEF t
          <6> QED BY <4>7, <6>1
        <5>2. s \o b = s
          BY <1>0, <4>10, ConcatEmptySeq
        <5>3. f = k
          BY <1>0, <1>1, <5>2, FieldsEqual
        <5>4. m = n
          BY <5>3 DEF m, n
        <5>5. ChunkData(g) = g
          <6> HIDE DEF g
          <6> QED BY <4>5, <4>10 DEF ChunkData
        <5>6. g = n
          <6> HIDE DEF g
          <6> QED BY <3>2, <4>3, <4>5, <4>10, FieldsEqual
        <5>7. ReadAlike(m, ChunkStep(g), n.body)
          BY <4>6, <5>4, <5>5, <5>6 DEF ReadAlike
        <5> QED BY <1>0, <3>2, <3>3, <4>4, <5>7 DEF TurnsAlike, n, m, f
      <4>11. CASE b # <<>>
        <5> DEFINE z == Taking(g, t)
                   e == Left(b, t)
                   h == ChunkData(g)
        <5>1. h = deliver(z, e)
          <6>1. Least(g.remaining, Len(g.buffer)) = t
            BY <4>5
          <6> HIDE DEF g, t
          <6> QED BY <4>5, <4>11, <6>1 DEF ChunkData, Taking
        <5> HIDE DEF g, t, h
        <5>2. /\ z \in Connection /\ z.buffer = Without(b, t) /\ z.remaining = (R - Len(s)) - t
              /\ z.chunk = (IF R - Len(s) = t THEN "crlf" ELSE "data")
              /\ z.state = g.state /\ z.complete = g.complete
              /\ z.trailer = g.trailer /\ z.length = g.length
              /\ z.status = g.status /\ z.asks = g.asks /\ z.body = g.body
              /\ e \in Seq(Symbol) /\ Len(e) = t
          <6>1. Took(z, g, t) /\ e \in Seq(Symbol) /\ Len(e) = t
            BY <4>5, <4>7, TakingFields
          <6> HIDE DEF z, e
          <6> QED BY <4>5, <6>1 DEF Took
        <5> HIDE DEF z, e
        <5>3. /\ Len(y.body) + Len(d) = Len(k.body) + (Len(s) + t)
              /\ Len(z.body) + Len(e) = (Len(k.body) + Len(s)) + t
          BY <2>7, <4>5, <4>7, <4>9, <5>2
        <5>4. Len(y.body) + Len(d) <= Ceiling <=> Len(z.body) + Len(e) <= Ceiling
          <6> HIDE DEF R, s
          <6>1. \A u, v, w \in Nat : u + (v + w) = (u + v) + w
            OBVIOUS
          <6>2. Len(k.body) + (Len(s) + t) = (Len(k.body) + Len(s)) + t
            BY <1>0, <4>7, <6>1, ZenonT(60)
          <6> QED BY <5>3, <6>2
        <5>5. CASE Len(y.body) + Len(d) <= Ceiling
          <6>1. Handed(m, y, d)
            BY <2>7, <2>8, <5>5, Delivered
          <6>2. Handed(h, z, e)
            BY <5>1, <5>2, <5>4, <5>5, Delivered
          <6>3. k.body \o d = (k.body \o s) \o e
            <7>1. (k.body \o s) \o e = k.body \o (s \o e)
              <8>1. k.body \in Seq(Symbol) /\ s \in Seq(Symbol) /\ e \in Seq(Symbol)
                BY <1>0, <5>2
              <8> QED BY ONLY <8>1, Associative, Zenon
            <7> QED BY <4>8, <7>1 DEF e
          <6>4. /\ R - q = (R - Len(s)) - t
                /\ R = q <=> R - Len(s) = t
            BY <1>0, <4>7
          <6>5. ButBuffer(m, h) /\ m.buffer = h.buffer
            <7>1. m.body = h.body
              BY <2>7, <4>5, <5>2, <6>1, <6>2, <6>3 DEF Handed
            <7>2. m.remaining = h.remaining /\ m.chunk = h.chunk
              BY <2>7, <4>5, <5>2, <6>1, <6>2, <6>4 DEF Handed
            <7>3. m.buffer = h.buffer
              BY <2>7, <4>5, <4>8, <5>2, <6>1, <6>2 DEF Handed
            <7>4. m.state = h.state /\ m.complete = h.complete /\ m.trailer = h.trailer
              BY <1>0, <2>7, <4>5, <5>2, <6>1, <6>2 DEF Handed
            <7>5. m.length = h.length /\ m.status = h.status /\ m.asks = h.asks
              BY <2>7, <4>5, <5>2, <6>1, <6>2 DEF Handed
            <7> QED BY <7>1, <7>2, <7>3, <7>4, <7>5 DEF ButBuffer
          <6>6. m = h
            BY <6>1, <6>2, <6>5, FieldsEqual DEF Handed
          <6>7. ReadAlike(m, ChunkStep(g), n.body)
            BY <4>6, <6>6 DEF ReadAlike, h
          <6> QED BY <1>0, <3>2, <3>3, <4>4, <6>7 DEF TurnsAlike, n, m, f, g
        <5>6. CASE ~(Len(y.body) + Len(d) <= Ceiling)
          <6>1. m.state = "responded" /\ m.status = 413 /\ m.asks = y.asks
            BY <2>7, <2>8, <5>6, Refused, ZenonT(60)
          <6>2. h.state = "responded" /\ h.status = 413 /\ h.asks = z.asks /\ h.body = z.body
            <7>1. ~(Len(z.body) + Len(e) <= Ceiling)
              BY <5>4, <5>6
            <7>2. /\ deliver(z, e).state = "responded" /\ deliver(z, e).status = 413
                  /\ deliver(z, e).asks = z.asks /\ deliver(z, e).body = z.body
              BY <5>2, <7>1, Refused, ZenonT(60)
            <7> QED BY <5>1, <7>2
          <6>3. m.asks = h.asks /\ h.body = n.body
            BY <2>7, <4>3, <4>5, <5>2, <6>1, <6>2
          <6>4. ReadAlike(m, ChunkStep(g), n.body)
            BY <4>6, <6>1, <6>2, <6>3 DEF ReadAlike, h
          <6> QED BY <1>0, <3>2, <3>3, <4>4, <6>4 DEF TurnsAlike, n, m, f, g
        <5> QED BY <5>5, <5>6
      <4> QED BY <4>10, <4>11
    <3> QED BY <3>4, <3>5
  <2> QED BY <2>9, <2>10
<1>4. QED
  BY <1>2, <1>3

LEMMA ChunkTurnsAlike ==
    ASSUME sent \in Stream, NEW k, Reading(k), NEW b \in Seq(Symbol)
    PROVE  TurnsAlike(k, b, ChunkStep(k), ChunkStep(Fed(k, b)))
<1> DEFINE f == Fed(k, b)
<1>0. k \in Connection /\ k.state = "body" /\ ~k.complete /\ k.chunk \in {"size", "data", "crlf", "trailer"}
  BY DEF Reading, InBody, Sane, Connection
<1>1. f.state = "body" /\ ~f.complete /\ f.chunk = k.chunk
  BY <1>0, FedFields DEF ButBuffer
<1> HIDE DEF f
<1>2. CASE k.chunk = "size"
  <2>1. ChunkStep(k) = ChunkSize(k) /\ ChunkStep(f) = ChunkSize(f)
    BY <1>0, <1>1, <1>2 DEF ChunkStep
  <2> QED BY <1>2, <2>1, SizeTurns DEF f
<1>3. CASE k.chunk = "data"
  <2>1. ChunkStep(k) = ChunkData(k) /\ ChunkStep(f) = ChunkData(f)
    BY <1>0, <1>1, <1>3 DEF ChunkStep
  <2> QED BY <1>3, <2>1, DataTurns DEF f
<1>4. CASE k.chunk = "crlf"
  <2>1. ChunkStep(k) = ChunkCrlf(k) /\ ChunkStep(f) = ChunkCrlf(f)
    BY <1>0, <1>1, <1>4 DEF ChunkStep
  <2> QED BY <1>4, <2>1, CrlfTurns DEF f
<1>5. CASE k.chunk = "trailer"
  <2>1. ChunkStep(k) = ChunkTrailer(k) /\ ChunkStep(f) = ChunkTrailer(f)
    BY <1>0, <1>1, <1>5 DEF ChunkStep
  <2> QED BY <1>5, <2>1, TrailerTurns DEF f
<1>6. QED
  BY <1>0, <1>2, <1>3, <1>4, <1>5

-----------------------------------------------------------------------------
(* The chunk loop.                                                         *)
LEMMA TurnEnds ==
    ASSUME sent \in Stream, NEW k, InBody(k)
    PROVE  /\ InBody(ChunkStep(k)) /\ Todo(k) \in Nat /\ Todo(k) <= Len(k.buffer)
           /\ ChunkStep(k) = k \/ Todo(ChunkStep(k)) < Todo(k)
           /\ k.state = "responded" \/ k.complete => ChunkStep(k) = k
<1>1. InBody(ChunkStep(k))
  BY ChunkTurn DEF Onward
<1>2. Len(k.buffer) \in Nat /\ Todo(k) \in Nat /\ Todo(k) <= Len(k.buffer)
  <2>1. Len(k.buffer) \in Nat
    BY DEF InBody, Sane, Connection
  <2> QED BY <2>1 DEF Todo
<1>3. CASE Reading(k)
  <2>1. <<>> \in Seq(Symbol)
    OBVIOUS
  <2>2. TurnsAlike(k, <<>>, ChunkStep(k), ChunkStep(Fed(k, <<>>)))
    BY <1>3, <2>1, ChunkTurnsAlike
  <2>3. ChunkStep(k) = k \/ Todo(ChunkStep(k)) < Todo(k)
    BY <2>2 DEF TurnsAlike
  <2> QED BY <1>1, <1>2, <1>3, <2>3 DEF Reading
<1>4. CASE ~Reading(k)
  <2>1. ChunkStep(k) = k
    BY <1>4 DEF Reading, ChunkStep, InBody, Sane, Connection
  <2> QED BY <1>1, <1>2, <2>1
<1>5. QED
  BY <1>3, <1>4

(* From the turn for its last byte on the loop stands still.               *)
LEMMA LoopEnds ==
    ASSUME sent \in Stream, NEW k, InBody(k), NEW f, Run(f, k),
           NEW i \in Nat, Len(k.buffer) <= i
    PROVE  f[i] = f[Len(k.buffer)] /\ ChunkStep(f[i]) = f[i]
<1> DEFINE N == Len(k.buffer)
           Near(n) == ChunkStep(f[n]) = f[n] \/ Todo(f[n]) + n <= N
<1>0. N \in Nat
  BY DEF InBody, Sane, Connection
<1>1. f[0] = k /\ \A n \in Nat : InBody(f[n]) /\ f[n + 1] = ChunkStep(f[n])
  BY DEF Run
<1>2. \A n \in Nat : Todo(f[n]) \in Nat /\ (ChunkStep(f[n]) = f[n] \/ Todo(f[n + 1]) < Todo(f[n]))
  BY <1>1, TurnEnds
<1>3. Todo(k) <= N
  BY TurnEnds
<1> HIDE DEF N
<1>4. \A n \in Nat : Near(n)
  <2> DEFINE T == {n \in Nat : Near(n)}
  <2>1. 0 \in T
    <3>1. Todo(f[0]) \in Nat /\ Todo(f[0]) <= N
      BY <1>1, <1>2, <1>3
    <3>2. Todo(f[0]) + 0 <= N
      BY <1>0, <3>1
    <3> QED BY <3>2
  <2>2. ASSUME NEW n \in Nat, n \in T PROVE n + 1 \in T
    <3> DEFINE x == f[n]
               y == f[n + 1]
    <3>0. y = ChunkStep(x) /\ Todo(x) \in Nat /\ (ChunkStep(x) = x \/ Todo(y) < Todo(x))
      BY <1>1, <1>2
    <3>1. n + 1 \in Nat /\ Todo(y) \in Nat
      BY <1>2, SMTT(30)
    <3>2. CASE ChunkStep(x) = x
      BY <2>2, <3>0, <3>1, <3>2
    <3>3. CASE ChunkStep(x) # x
      <4>1. Todo(x) + n <= N /\ Todo(y) < Todo(x)
        BY <2>2, <3>0, <3>3
      <4> HIDE DEF x, y
      <4>2. Todo(y) + (n + 1) <= N
        BY <1>0, <3>0, <3>1, <4>1
      <4> QED BY <3>1, <4>2 DEF y
    <3> QED BY <3>2, <3>3
  <2> HIDE DEF T
  <2>3. \A n \in Nat : n \in T
    BY <2>1, <2>2, SetInduction
  <2> QED BY <2>3 DEF T
<1>5. \A n \in Nat : N <= n => ChunkStep(f[n]) = f[n]
  <2> TAKE n \in Nat
  <2> HAVE N <= n
  <2> DEFINE x == Todo(f[n])
             y == Todo(f[n + 1])
  <2>1. x \in Nat /\ y \in Nat /\ (ChunkStep(f[n]) = f[n] \/ y < x)
    <3>1. n + 1 \in Nat
      OBVIOUS
    <3> QED BY <1>2, <3>1
  <2>2. ChunkStep(f[n]) = f[n] \/ x + n <= N
    BY <1>4
  <2> HIDE DEF x, y
  <2> QED BY <1>0, <2>1, <2>2
<1>6. \A n \in Nat : f[N + n] = f[N]
  <2> DEFINE T == {n \in Nat : f[N + n] = f[N]}
  <2>1. 0 \in T
    BY <1>0
  <2>2. ASSUME NEW n \in Nat, n \in T PROVE n + 1 \in T
    <3>1. N + n \in Nat /\ N <= N + n /\ N + (n + 1) = (N + n) + 1
      BY <1>0
    <3>2. f[(N + n) + 1] = ChunkStep(f[N + n]) /\ ChunkStep(f[N + n]) = f[N + n]
      BY <1>1, <1>5, <3>1
    <3> QED BY <2>2, <3>1, <3>2
  <2> HIDE DEF T
  <2>3. \A n \in Nat : n \in T
    BY <2>1, <2>2, SetInduction
  <2> QED BY <2>3 DEF T
<1>7. i - N \in Nat /\ N + (i - N) = i
  BY <1>0 DEF N
<1>8. f[i] = f[N]
  BY <1>6, <1>7
<1>9. QED
  BY <1>5, <1>8 DEF N

LEMMA LoopStands ==
    ASSUME sent \in Stream, NEW k, InBody(k), ChunkStep(k) = k
    PROVE  consumeChunkedBody(k) = k
<1>1. PICK f : Run(f, k) /\ consumeChunkedBody(k) = f[Len(k.buffer)]
  BY ChunkRuns
<1>2. Len(k.buffer) \in Nat
  BY DEF InBody, Sane, Connection
<1> DEFINE T == {n \in Nat : f[n] = k}
<1>3. f[0] = k /\ \A n \in Nat : f[n + 1] = ChunkStep(f[n])
  BY <1>1 DEF Run
<1>4. 0 \in T /\ \A n \in Nat : n \in T => n + 1 \in T
  BY ONLY <1>3, ChunkStep(k) = k
<1> HIDE DEF T
<1>5. \A n \in Nat : n \in T
  BY <1>4, SetInduction
<1>6. QED
  BY <1>1, <1>2, <1>5 DEF T

LEMMA LoopUnrolls ==
    ASSUME sent \in Stream, NEW k, InBody(k)
    PROVE  consumeChunkedBody(k) = consumeChunkedBody(ChunkStep(k))
<1> DEFINE n == ChunkStep(k)
<1>0. InBody(n)
  BY TurnEnds
<1>1. PICK f : Run(f, k) /\ consumeChunkedBody(k) = f[Len(k.buffer)]
  BY ChunkRuns
<1>2. PICK g : Run(g, n) /\ consumeChunkedBody(n) = g[Len(n.buffer)]
  <2> HIDE DEF n
  <2> QED BY <1>0, ChunkRuns
<1> DEFINE A == Len(k.buffer)
           B == Len(n.buffer)
<1>3. A \in Nat /\ B \in Nat
  <2> HIDE DEF n
  <2> QED BY <1>0 DEF InBody, Sane, Connection
<1>4. f[0] = k /\ \A i \in Nat : f[i + 1] = ChunkStep(f[i])
  BY <1>1 DEF Run
<1>5. g[0] = n /\ \A i \in Nat : g[i + 1] = ChunkStep(g[i])
  BY <1>2 DEF Run
<1>6. \A i \in Nat : g[i] = f[i + 1]
  <2> DEFINE T == {i \in Nat : g[i] = f[i + 1]}
  <2>1. 0 \in T
    <3>1. f[0 + 1] = ChunkStep(f[0])
      BY <1>4
    <3> QED BY <1>4, <1>5, <3>1
  <2>2. ASSUME NEW i \in Nat, i \in T PROVE i + 1 \in T
    <3>1. i + 1 \in Nat /\ g[i] = f[i + 1]
      BY <2>2
    <3>2. g[i + 1] = ChunkStep(g[i]) /\ f[(i + 1) + 1] = ChunkStep(f[i + 1])
      BY <1>4, <1>5, <3>1
    <3> QED BY <3>1, <3>2
  <2> HIDE DEF T
  <2>3. \A i \in Nat : i \in T
    BY <2>1, <2>2, SetInduction
  <2> QED BY <2>3 DEF T
<1> DEFINE C == A + B
<1>7. C \in Nat /\ C + 1 \in Nat /\ A <= C + 1 /\ B <= C
  <2> HIDE DEF A, B
  <2> QED BY <1>3
<1> HIDE DEF n, C
<1>8. f[C + 1] = f[A]
  BY <1>1, <1>7, LoopEnds
<1>9. g[C] = g[B]
  BY <1>0, <1>2, <1>7, LoopEnds
<1>10. g[C] = f[C + 1]
  BY <1>6, <1>7
<1>11. QED
  BY <1>1, <1>2, <1>8, <1>9, <1>10 DEF n

-----------------------------------------------------------------------------
(* The body, read up to a point and then on, or at once.                   *)
Resume(r, b) == IF r.state = "responded" \/ r.complete THEN r ELSE consumeBody(Fed(r, b))
SplitsAlike(k, b) ==
    LET r == consumeBody(k)
    IN  CutOff(r) \/ ReadAlike(consumeBody(Fed(k, b)), Resume(r, b), r.body)

LEMMA FedReads ==
    ASSUME NEW k, Reading(k), NEW b \in Seq(Symbol)
    PROVE  Reading(Fed(k, b))
<1>1. k \in Connection
  BY DEF Reading, InBody, Sane
<1>2. Fed(k, b) \in Connection /\ ButBuffer(Fed(k, b), k)
  BY <1>1, FedFields
<1>3. QED
  BY <1>2 DEF Reading, InBody, Sane, ButBuffer

LEMMA ChunkedStep ==
    ASSUME sent \in Stream, NEW k, Reading(k), NEW b \in Seq(Symbol),
           \A n : Reading(n) /\ Todo(n) < Todo(k) => SplitsAlike(n, b)
    PROVE  SplitsAlike(k, b)
<1> DEFINE F(x) == consumeChunkedBody(x)
           f == Fed(k, b)
           n == ChunkStep(k)
           m == ChunkStep(f)
<1>0. sent.framing = "chunked" /\ InBody(k) /\ k.state = "body" /\ ~k.complete
  BY DEF Reading, InBody
<1>1. Reading(f) /\ InBody(f)
  BY FedReads DEF Reading
<1>2. \A x : Reading(x) => consumeBody(x) = F(x)
  BY <1>0 DEF Reading, consumeBody
<1>3. InBody(n) /\ F(k) = F(n)
  BY <1>0, TurnEnds, LoopUnrolls
<1>4. InBody(m) /\ F(f) = F(m)
  <2> HIDE DEF f
  <2> QED BY <1>1, TurnEnds, LoopUnrolls
<1>5. \A x : InBody(x) /\ (x.state = "responded" \/ x.complete) => F(x) = x
  BY TurnEnds, LoopStands
<1>6. consumeBody(k) = F(k) /\ consumeBody(f) = F(f)
  BY <1>1, <1>2
<1>7. \A x, y : ReadAlike(x, x, y)
  BY DEF ReadAlike
<1>8. TurnsAlike(k, b, n, m)
  BY ChunkTurnsAlike
<1> HIDE DEF F, n, m
<1>9. SUFFICES CutOff(F(n)) \/ ReadAlike(F(m), Resume(F(n), b), F(n).body)
  BY <1>3, <1>4, <1>6 DEF SplitsAlike
<1>10. CASE n = k
  <2>1. F(n) = k
    BY <1>0, <1>10, LoopStands DEF n, F
  <2>2. Resume(F(n), b) = F(m)
    BY <1>0, <1>4, <1>6, <2>1 DEF Resume
  <2> QED BY <1>7, <2>2
<1>11. CASE n.state = "responded" /\ (CutOff(n) \/ ReadAlike(m, n, n.body))
  <2>1. F(n) = n /\ Resume(F(n), b) = n
    BY <1>3, <1>5, <1>11 DEF Resume
  <2>2. ReadAlike(m, n, n.body) => m.state = "responded"
    BY <1>11 DEF ReadAlike
  <2>3. ReadAlike(m, n, n.body) => F(m) = m
    BY <1>4, <1>5, <2>2
  <2> QED BY <1>11, <2>1, <2>3
<1>12. CASE n.state = "body" /\ n.complete /\ m = n
  <2>1. F(n) = n /\ Resume(F(n), b) = n /\ F(m) = n
    BY <1>3, <1>5, <1>12 DEF Resume
  <2> QED BY <1>7, <2>1
<1>13. CASE n.state = "body" /\ ~n.complete /\ m = Fed(n, b) /\ Todo(n) < Todo(k)
  <2>1. Reading(n) /\ Reading(Fed(n, b))
    BY <1>3, <1>13, FedReads DEF Reading
  <2>2. SplitsAlike(n, b)
    BY <1>13, <2>1
  <2>3. consumeBody(n) = F(n) /\ consumeBody(Fed(n, b)) = F(m)
    BY <1>2, <1>13, <2>1
  <2> QED BY <2>2, <2>3 DEF SplitsAlike
<1>14. CASE /\ n.state = "body" /\ ~n.complete /\ ChunkStep(n) = n
            /\ ReadAlike(m, ChunkStep(Fed(n, b)), n.body)
  <2> DEFINE g == Fed(n, b)
             h == ChunkStep(g)
  <2>1. Reading(g) /\ InBody(g)
    BY <1>3, <1>14, FedReads DEF Reading
  <2> HIDE DEF g
  <2>2. InBody(h) /\ F(g) = F(h)
    BY <2>1, TurnEnds, LoopUnrolls DEF F
  <2>3. F(n) = n
    BY <1>3, <1>14, LoopStands DEF F
  <2>4. Resume(F(n), b) = F(h)
    <3>1. n.state # "responded" /\ ~n.complete
      BY <1>14
    <3>2. consumeBody(g) = F(g)
      BY <1>2, <2>1
    <3> QED BY <2>2, <2>3, <3>1, <3>2 DEF Resume, g
  <2>5. ReadAlike(m, h, n.body)
    BY <1>14 DEF g
  <2> HIDE DEF h
  <2>6. m = h \/ (F(m) = m /\ F(h) = h)
    BY <1>4, <1>5, <2>2, <2>5 DEF ReadAlike
  <2>7. ReadAlike(F(m), F(h), n.body)
    BY <1>7, <2>5, <2>6
  <2> QED BY <2>3, <2>4, <2>7
<1>15. QED
  BY <1>8, <1>10, <1>11, <1>12, <1>13, <1>14 DEF TurnsAlike

LEMMA ChunkedSplits ==
    ASSUME sent \in Stream, NEW k, Reading(k), NEW b \in Seq(Symbol)
    PROVE  SplitsAlike(k, b)
<1> DEFINE T == {j \in Nat : \A n : Reading(n) /\ Todo(n) < j => SplitsAlike(n, b)}
<1>0. \A n : Reading(n) => Todo(n) \in Nat
  BY TurnEnds DEF Reading
<1>1. 0 \in T
  BY <1>0
<1>2. ASSUME NEW j \in Nat, j \in T PROVE j + 1 \in T
  <2>1. ASSUME NEW n, Reading(n), Todo(n) < j + 1 PROVE SplitsAlike(n, b)
    <3>1. \A x : Reading(x) /\ Todo(x) < Todo(n) => SplitsAlike(x, b)
      <4> TAKE x
      <4> HAVE Reading(x) /\ Todo(x) < Todo(n)
      <4>1. Todo(x) \in Nat /\ Todo(n) \in Nat
        BY <1>0, <2>1
      <4>2. Todo(x) < j
        BY <2>1, <4>1
      <4> QED BY <1>2, <4>2
    <3> QED BY <2>1, <3>1, ChunkedStep
  <2> QED BY <2>1
<1> HIDE DEF T
<1>3. \A j \in Nat : j \in T
  BY <1>1, <1>2, SetInduction
<1>4. Todo(k) \in Nat /\ Todo(k) + 1 \in Nat /\ Todo(k) < Todo(k) + 1
  BY <1>0
<1>5. QED
  BY <1>3, <1>4 DEF T

-----------------------------------------------------------------------------
(* A body of declared length, in terms of what a read takes of it.         *)
Plain(k) == Sane(k) /\ k.state = "body" /\ ~k.complete /\ sent.framing = "length"
Want(k) == k.length - Len(k.body)
Share(k) == Least(Want(k), Len(k.buffer))
PlainFed(k) == IF Share(k) = 0 THEN k
               ELSE deliver([k EXCEPT !.buffer = Without(@, Share(k))], Left(k.buffer, Share(k)))
Advanced(n, k) ==
    /\ n \in Connection /\ n.body = k.body \o Left(k.buffer, Share(k))
    /\ n.state = "body" /\ n.chunk = k.chunk /\ n.remaining = k.remaining
    /\ n.trailer = k.trailer /\ n.length = k.length /\ n.status = k.status

LEMMA PlainTakes ==
    ASSUME NEW k, Plain(k)
    PROVE  /\ k \in Connection /\ k.buffer \in Seq(Symbol) /\ k.body \in Seq(Symbol)
           /\ k.length \in Nat /\ Want(k) \in Nat /\ Share(k) \in Nat
           /\ Share(k) <= Len(k.buffer) /\ Share(k) <= Want(k)
           /\ Left(k.buffer, Share(k)) \in Seq(Symbol)
           /\ Len(Left(k.buffer, Share(k))) = Share(k)
           /\ Without(k.buffer, Share(k)) \in Seq(Symbol)
<1>1. /\ k \in Connection /\ k.buffer \in Seq(Symbol) /\ k.body \in Seq(Symbol)
      /\ k.length \in Nat /\ Len(k.body) <= k.length /\ Len(k.body) \in Nat /\ Len(k.buffer) \in Nat
  BY DEF Plain, Sane, Connection
<1>2. Want(k) \in Nat
  BY <1>1 DEF Want
<1>3. Share(k) \in Nat /\ Share(k) <= Len(k.buffer) /\ Share(k) <= Want(k)
  BY <1>1, <1>2 DEF Share, Least
<1>4. QED
  BY <1>1, <1>2, <1>3, Cutting

LEMMA PlainFeeds ==
    ASSUME sent \in Stream, NEW k, Plain(k)
    PROVE  IF Len(k.body) + Share(k) <= Ceiling
           THEN /\ Advanced(PlainFed(k), k) /\ PlainFed(k).buffer = Without(k.buffer, Share(k))
                /\ PlainFed(k).complete = k.complete /\ PlainFed(k).asks = k.asks
                /\ Len(PlainFed(k).body) = Len(k.body) + Share(k)
           ELSE /\ PlainFed(k).state = "responded" /\ PlainFed(k).status = 413
                /\ PlainFed(k).asks = k.asks /\ PlainFed(k).body = k.body
<1> DEFINE t == Share(k)
           data == Left(k.buffer, t)
           rest == [k EXCEPT !.buffer = Without(@, t)]
           n == PlainFed(k)
<1>0. /\ k \in Connection /\ k.buffer \in Seq(Symbol) /\ k.body \in Seq(Symbol)
      /\ t \in Nat /\ t <= Len(k.buffer) /\ data \in Seq(Symbol) /\ Len(data) = t
      /\ Without(k.buffer, t) \in Seq(Symbol)
  BY PlainTakes
<1>1. k.state = "body" /\ Len(k.body) <= Ceiling /\ Ceiling \in Nat /\ Len(k.body) \in Nat
  BY <1>0, CeilingIsNat DEF Plain, Sane
<1>2. /\ rest \in Connection /\ rest.buffer = Without(k.buffer, t) /\ ButBuffer(rest, k)
  <2> HIDE DEF t
  <2> QED BY <1>0 DEF Connection, ButBuffer
<1>3. n = IF t = 0 THEN k ELSE deliver(rest, data)
  BY DEF PlainFed
<1>4. Len(k.body \o data) = Len(k.body) + t
  <2> HIDE DEF data, t
  <2> QED BY <1>0, ConcatProperties
<1> HIDE DEF t, data, rest, n
<1>5. CASE ~(Len(k.body) + t <= Ceiling)
  <2>1. t # 0
    BY <1>0, <1>1, <1>5
  <2>2. ~(Len(rest.body) + Len(data) <= Ceiling)
    BY <1>0, <1>2, <1>5 DEF ButBuffer
  <2>3. /\ deliver(rest, data).state = "responded" /\ deliver(rest, data).status = 413
        /\ deliver(rest, data).asks = rest.asks /\ deliver(rest, data).body = rest.body
    <3>1. rest \in Connection /\ data \in Seq(Symbol)
      BY <1>0, <1>2
    <3> QED BY ONLY <2>2, <3>1, Refused
  <2>4. n.state = "responded" /\ n.status = 413 /\ n.asks = k.asks /\ n.body = k.body
    BY <1>2, <1>3, <2>1, <2>3 DEF ButBuffer
  <2> QED BY <1>5, <2>4 DEF n, t
<1>6. CASE Len(k.body) + t <= Ceiling
  <2>1. /\ n \in Connection /\ n.body = k.body \o data /\ n.buffer = Without(k.buffer, t)
        /\ ButBuffer([n EXCEPT !.body = k.body], k)
        /\ n.state = k.state /\ n.complete = k.complete /\ n.chunk = k.chunk
        /\ n.remaining = k.remaining /\ n.trailer = k.trailer /\ n.length = k.length
        /\ n.status = k.status /\ n.asks = k.asks
    <3>1. CASE t = 0
      <4>1. n = k
        BY <1>3, <3>1
      <4>2. data = <<>>
        <5>1. Len(data) = 0
          BY <1>0, <3>1
        <5> QED BY <1>0, <5>1, EmptySeq
      <4>3. k.body \o data = k.body
        BY <1>0, <4>2, ConcatEmptySeq
      <4>4. Without(k.buffer, t) = k.buffer
        <5>1. Without(k.buffer, 0) = k.buffer
          BY <1>0, SubSeqFull DEF Without
        <5> QED BY <3>1, <5>1
      <4> QED BY <1>0, <4>1, <4>3, <4>4 DEF Connection, ButBuffer
    <3>2. CASE t # 0
      <4>1. Len(rest.body) + Len(data) <= Ceiling
        BY <1>0, <1>2, <1>6 DEF ButBuffer
      <4>2. Handed(n, rest, data)
        BY <1>0, <1>2, <1>3, <3>2, <4>1, Delivered
      <4>3. /\ n \in Connection /\ n.body = k.body \o data /\ n.buffer = Without(k.buffer, t)
            /\ n.state = k.state /\ n.complete = k.complete /\ n.chunk = k.chunk
            /\ n.remaining = k.remaining /\ n.trailer = k.trailer /\ n.length = k.length
            /\ n.status = k.status /\ n.asks = k.asks
        BY <1>2, <4>2 DEF Handed, ButBuffer
      <4> QED BY <4>3 DEF ButBuffer, Connection
    <3> QED BY <3>1, <3>2
  <2>2. Advanced(n, k)
    BY <1>1, <2>1 DEF Advanced, t, data
  <2>3. Len(n.body) = Len(k.body) + t
    BY <1>4, <2>1
  <2> QED BY <1>6, <2>1, <2>2, <2>3 DEF n, t
<1>7. QED
  BY <1>5, <1>6 DEF t

(* How a read of such a body ends: refused, complete, or waiting.          *)
LEMMA PlainEnds ==
    ASSUME sent \in Stream, NEW k, Plain(k)
    PROVE  LET n == consumeBody(k)
           IN  IF ~(Len(k.body) + Share(k) <= Ceiling)
               THEN n.state = "responded" /\ n.status = 413 /\ n.asks = k.asks /\ n.body = k.body
               ELSE /\ Advanced(n, k)
                    /\ IF Share(k) = Want(k)
                       THEN n.complete = TRUE /\ n.buffer = <<>> /\ n.asks = k.asks + 1
                       ELSE /\ n.complete = k.complete /\ n.asks = k.asks
                            /\ n.buffer = Without(k.buffer, Share(k))
<1> DEFINE n == consumeBody(k)
           fed == PlainFed(k)
           t == Share(k)
<1>0. /\ k \in Connection /\ k.length \in Nat /\ Want(k) \in Nat /\ t \in Nat /\ t <= Want(k)
      /\ Len(k.body) \in Nat /\ k.state = "body" /\ ~k.complete /\ k.asks \in Nat
  <2>1. k.body \in Seq(Symbol)
    BY PlainTakes
  <2> QED BY <2>1, PlainTakes DEF Plain, Connection
<1>1. n = IF fed.state = "body" /\ Len(fed.body) >= k.length THEN finishBody(fed) ELSE fed
  BY DEF Plain, consumeBody, consumePlainBody, PlainFed, Share, Want
<1>2. CASE ~(Len(k.body) + t <= Ceiling)
  <2>1. fed.state = "responded" /\ fed.status = 413 /\ fed.asks = k.asks /\ fed.body = k.body
    BY <1>2, PlainFeeds
  <2>2. n = fed
    BY <1>1, <2>1
  <2> QED BY <1>2, <2>1, <2>2
<1>3. CASE Len(k.body) + t <= Ceiling
  <2>1. /\ Advanced(fed, k) /\ fed.buffer = Without(k.buffer, t) /\ fed.complete = k.complete
        /\ fed.asks = k.asks /\ Len(fed.body) = Len(k.body) + t
    BY <1>3, PlainFeeds
  <2>2. Len(fed.body) >= k.length <=> t = Want(k)
    <3> HIDE DEF t, fed
    <3> QED BY <1>0, <2>1 DEF Want
  <2> HIDE DEF fed, n, t
  <2>3. CASE t = Want(k)
    <3> DEFINE z == [fed EXCEPT !.complete = TRUE, !.buffer = <<>>, !.asks = @ + 1]
    <3>1. n = z
      BY <1>0, <1>1, <2>1, <2>2, <2>3 DEF finishBody, Advanced
    <3>2. /\ z \in Connection /\ z.complete = TRUE /\ z.buffer = <<>> /\ z.asks = fed.asks + 1
          /\ z.body = fed.body /\ z.state = fed.state /\ z.chunk = fed.chunk
          /\ z.remaining = fed.remaining /\ z.trailer = fed.trailer /\ z.length = fed.length
          /\ z.status = fed.status
      <4>1. <<>> \in Seq(Symbol) /\ fed.asks + 1 \in Nat /\ fed \in Connection
        BY <1>0, <2>1 DEF Advanced
      <4> QED BY <4>1 DEF Connection
    <3>3. /\ Advanced(n, k) /\ n.complete = TRUE /\ n.buffer = <<>> /\ n.asks = k.asks + 1
      <4> HIDE DEF z
      <4> QED BY <2>1, <3>1, <3>2 DEF Advanced
    <3> QED BY <1>3, <2>3, <3>3 DEF n, t
  <2>4. CASE t # Want(k)
    <3>1. n = fed
      BY <1>1, <2>2, <2>4
    <3> QED BY <1>3, <2>1, <2>4, <3>1 DEF n, t
  <2> QED BY <2>3, <2>4
<1>4. QED
  BY <1>2, <1>3 DEF t

LEMMA FedPlain ==
    ASSUME NEW k, Plain(k), NEW b \in Seq(Symbol)
    PROVE  Plain(Fed(k, b))
<1>1. k \in Connection
  BY DEF Plain, Sane
<1>2. Fed(k, b) \in Connection /\ ButBuffer(Fed(k, b), k)
  BY <1>1, FedFields
<1>3. QED
  BY <1>2 DEF Plain, Sane, ButBuffer

LEMMA PlainSplits ==
    ASSUME sent \in Stream, NEW k, Plain(k), NEW b \in Seq(Symbol)
    PROVE  SplitsAlike(k, b)
<1> DEFINE f == Fed(k, b)
           r == consumeBody(k)
           m == consumeBody(f)
           s == k.buffer
           W == Want(k)
           p == Share(k)
           q == Share(f)
<1>0. /\ k \in Connection /\ s \in Seq(Symbol) /\ Len(s) \in Nat /\ Len(b) \in Nat
      /\ k.body \in Seq(Symbol) /\ Len(k.body) \in Nat /\ Ceiling \in Nat
      /\ W \in Nat /\ p \in Nat /\ p <= Len(s) /\ p <= W /\ k.asks \in Nat
  <2>1. k \in Connection /\ s \in Seq(Symbol) /\ k.body \in Seq(Symbol) /\ W \in Nat
        /\ p \in Nat /\ p <= Len(s) /\ p <= W
    BY PlainTakes
  <2> QED BY <2>1, CeilingIsNat DEF Connection
<1>1. /\ f \in Connection /\ ButBuffer(f, k) /\ f.buffer = s \o b /\ Len(f.buffer) = Len(s) + Len(b)
      /\ f.body = k.body /\ f.length = k.length /\ Plain(f)
  BY <1>0, FedFields, FedPlain DEF ButBuffer
<1>2. Want(f) = W /\ p = Least(W, Len(s)) /\ q = Least(W, Len(s) + Len(b))
  <2> HIDE DEF f
  <2> QED BY <1>1 DEF Want, Share
<1>3. q \in Nat /\ p <= q /\ q <= W /\ (p = W => q = W) /\ (p # W => p = Len(s) /\ Len(s) < W)
  <2>1. \A w, u, v \in Nat :
           /\ Least(w, u + v) \in Nat /\ Least(w, u) <= Least(w, u + v) /\ Least(w, u + v) <= w
           /\ Least(w, u) = w => Least(w, u + v) = w
           /\ Least(w, u) # w => Least(w, u) = u /\ u < w
    BY DEF Least
  <2>2. W \in Nat /\ Len(s) \in Nat /\ Len(b) \in Nat
    BY <1>0
  <2> DEFINE w == W
             u == Len(s)
             v == Len(b)
             x == p
             y == q
  <2>3. w \in Nat /\ u \in Nat /\ v \in Nat /\ x = Least(w, u) /\ y = Least(w, u + v)
    BY <1>2, <2>2
  <2> HIDE DEF w, u, v, x, y
  <2>4. y \in Nat /\ x <= y /\ y <= w /\ (x = w => y = w) /\ (x # w => x = u /\ u < w)
    BY ONLY <2>1, <2>3
  <2> QED BY <2>4 DEF w, u, v, x, y
<1> HIDE DEF f
<1>4. IF ~(Len(k.body) + p <= Ceiling)
      THEN r.state = "responded" /\ r.status = 413 /\ r.asks = k.asks /\ r.body = k.body
      ELSE /\ Advanced(r, k)
           /\ IF p = W
              THEN r.complete = TRUE /\ r.buffer = <<>> /\ r.asks = k.asks + 1
              ELSE /\ r.complete = k.complete /\ r.asks = k.asks
                   /\ r.buffer = Without(s, p)
  BY PlainEnds
<1>5. IF ~(Len(k.body) + q <= Ceiling)
      THEN m.state = "responded" /\ m.status = 413 /\ m.asks = k.asks
      ELSE /\ Advanced(m, f)
           /\ IF q = W
              THEN m.complete = TRUE /\ m.buffer = <<>> /\ m.asks = k.asks + 1
              ELSE /\ m.complete = k.complete /\ m.asks = k.asks
                   /\ m.buffer = Without(s \o b, q)
  <2>1. IF ~(Len(f.body) + q <= Ceiling)
        THEN m.state = "responded" /\ m.status = 413 /\ m.asks = f.asks
        ELSE /\ Advanced(m, f)
             /\ IF q = Want(f)
                THEN m.complete = TRUE /\ m.buffer = <<>> /\ m.asks = f.asks + 1
                ELSE /\ m.complete = f.complete /\ m.asks = f.asks
                     /\ m.buffer = Without(f.buffer, q)
    BY <1>1, PlainEnds, ZenonT(60)
  <2> HIDE DEF m, q, W
  <2>2. f.asks = k.asks /\ f.complete = k.complete
    BY <1>1 DEF ButBuffer
  <2> QED BY <1>1, <1>2, <2>1, <2>2
<1>6. k.state = "body" /\ ~k.complete
  BY DEF Plain
<1> HIDE DEF r, m, p, q, W
<1>7. SUFFICES ReadAlike(m, Resume(r, b), r.body)
  BY DEF SplitsAlike, r, m, f
<1>8. CASE ~(Len(k.body) + p <= Ceiling)
  <2>1. ~(Len(k.body) + q <= Ceiling)
    BY <1>0, <1>3, <1>8
  <2> QED BY <1>4, <1>5, <1>8, <2>1 DEF ReadAlike, Resume
<1>9. CASE Len(k.body) + p <= Ceiling /\ p = W
  <2>1. p = q
    BY <1>3, <1>9
  <2>2. Left(s \o b, q) = Left(s, p)
    BY <1>0, <2>1, JoinedCut
  <2>3. Advanced(r, k) /\ r.complete = TRUE /\ r.buffer = <<>> /\ r.asks = k.asks + 1
    BY <1>4, <1>9
  <2>4. Advanced(m, f) /\ m.complete = TRUE /\ m.buffer = <<>> /\ m.asks = k.asks + 1
    BY <1>5, <1>9, <2>1
  <2>5. m.body = r.body
    BY <1>1, <2>2, <2>3, <2>4 DEF Advanced, p, q
  <2>6. ButBuffer(m, r) /\ m.buffer = r.buffer /\ m \in Connection /\ r \in Connection
    BY <1>1, <2>3, <2>4, <2>5 DEF ButBuffer, Advanced
  <2>7. m = r
    BY <2>6, FieldsEqual
  <2> QED BY <2>3, <2>7 DEF ReadAlike, Resume
<1>10. CASE Len(k.body) + p <= Ceiling /\ p # W
  <2> DEFINE g == Fed(r, b)
             h == consumeBody(g)
             t == Least(W - Len(s), Len(b))
  <2>1. p = Len(s) /\ Len(s) < W
    BY <1>3, <1>10
  <2>2. Advanced(r, k) /\ r.complete = k.complete /\ r.asks = k.asks /\ r.buffer = Without(s, p)
    BY <1>4, <1>10
  <2>3. Left(s, p) = s /\ Without(s, p) = <<>>
    <3>1. Left(s, Len(s)) = s
      BY <1>0, SubSeqFull DEF Left
    <3>2. Without(s, Len(s)) \in Seq(Symbol) /\ Len(Without(s, Len(s))) = Len(s) - Len(s)
      <4>1. Len(s) <= Len(s)
        BY <1>0
      <4> QED BY <1>0, <4>1, Cutting
    <3>3. Len(Without(s, Len(s))) = 0
      BY <1>0, <3>2
    <3>4. Without(s, Len(s)) = <<>>
      BY <3>2, <3>3, EmptySeq
    <3> QED BY <2>1, <3>1, <3>4
  <2>4. /\ r \in Connection /\ r.body = k.body \o s /\ r.buffer = <<>> /\ r.state = "body"
        /\ ~r.complete /\ r.length = k.length
    BY <1>6, <2>2, <2>3 DEF Advanced, p
  <2>5. Plain(r)
    <3>1. Resting(r)
      BY PlainBodyRests DEF Plain, r, consumeBody
    <3> QED BY <2>4, <3>1 DEF Plain, Resting
  <2>6. Len(r.body) = Len(k.body) + Len(s)
    BY <1>0, <2>4, ConcatProperties
  <2>7. /\ g \in Connection /\ ButBuffer(g, r) /\ g.buffer = b /\ Plain(g)
    <3>1. g \in Connection /\ ButBuffer(g, r) /\ g.buffer = r.buffer \o b /\ Plain(g)
      BY <2>4, <2>5, FedFields, FedPlain
    <3>2. <<>> \o b = b
      BY ConcatEmptySeq
    <3> QED BY <2>4, <3>1, <3>2
  <2>8. Resume(r, b) = h
    BY <2>4 DEF Resume
  <2> HIDE DEF g, h
  <2>9. Want(g) = W - Len(s) /\ Share(g) = t
    <3>1. g.length = k.length /\ Len(g.body) = Len(k.body) + Len(s)
      BY <2>4, <2>6, <2>7 DEF ButBuffer
    <3>2. k.length \in Nat
      BY PlainTakes
    <3>3. Want(g) = W - Len(s)
      <4>1. \A l, u, v \in Nat : l - (u + v) = (l - u) - v
        OBVIOUS
      <4>2. k.length - (Len(k.body) + Len(s)) = (k.length - Len(k.body)) - Len(s)
        BY ONLY <1>0, <3>2, <4>1, ZenonT(60)
      <4> QED BY <3>1, <4>2 DEF Want, W
    <3> QED BY <2>7, <3>3 DEF Share
  <2>10. t \in Nat /\ t <= Len(b) /\ q = Len(s) + t /\ (q = W <=> t = W - Len(s))
    <3>1. \A w, u, v \in Nat : u < w =>
             /\ Least(w - u, v) \in Nat /\ Least(w - u, v) <= v
             /\ Least(w, u + v) = u + Least(w - u, v)
             /\ Least(w, u + v) = w <=> Least(w - u, v) = w - u
      BY DEF Least
    <3>2. W \in Nat /\ Len(s) \in Nat /\ Len(b) \in Nat /\ Len(s) < W /\ q = Least(W, Len(s) + Len(b))
      BY <1>0, <1>2, <2>1
    <3> DEFINE w == W
               u == Len(s)
               v == Len(b)
               y == q
    <3>3. w \in Nat /\ u \in Nat /\ v \in Nat /\ u < w /\ y = Least(w, u + v) /\ t = Least(w - u, v)
      BY <3>2
    <3> HIDE DEF w, u, v, y, t
    <3>4. t \in Nat /\ t <= v /\ y = u + t /\ (y = w <=> t = w - u)
      BY ONLY <3>1, <3>3, SMTT(30)
    <3> QED BY <3>4 DEF w, u, v, y
  <2> HIDE DEF t
  <2>11. IF ~(Len(g.body) + t <= Ceiling)
         THEN h.state = "responded" /\ h.status = 413 /\ h.asks = g.asks /\ h.body = g.body
         ELSE /\ Advanced(h, g)
              /\ IF t = W - Len(s)
                 THEN h.complete = TRUE /\ h.buffer = <<>> /\ h.asks = g.asks + 1
                 ELSE /\ h.complete = g.complete /\ h.asks = g.asks
                      /\ h.buffer = Without(b, t)
    <3>1. IF ~(Len(g.body) + Share(g) <= Ceiling)
          THEN h.state = "responded" /\ h.status = 413 /\ h.asks = g.asks /\ h.body = g.body
          ELSE /\ Advanced(h, g)
               /\ IF Share(g) = Want(g)
                  THEN h.complete = TRUE /\ h.buffer = <<>> /\ h.asks = g.asks + 1
                  ELSE /\ h.complete = g.complete /\ h.asks = g.asks
                       /\ h.buffer = Without(g.buffer, Share(g))
      BY <2>7, PlainEnds DEF h
    <3> QED BY <2>7, <2>9, <3>1
  <2>12. Len(g.body) + t = Len(k.body) + q
    <3>1. Len(g.body) = Len(k.body) + Len(s)
      BY <2>6, <2>7 DEF ButBuffer
    <3>2. \A u, v, w \in Nat : (u + v) + w = u + (v + w)
      OBVIOUS
    <3>3. (Len(k.body) + Len(s)) + t = Len(k.body) + (Len(s) + t)
      <4>1. Len(k.body) \in Nat /\ Len(s) \in Nat /\ t \in Nat
        BY <1>0, <2>10
      <4> QED BY ONLY <3>2, <4>1
    <3> QED BY <2>10, <3>1, <3>3
  <2>13. CASE ~(Len(k.body) + q <= Ceiling)
    <3>1. /\ h.state = "responded" /\ h.status = 413 /\ h.asks = g.asks /\ h.body = g.body
          /\ m.state = "responded" /\ m.status = 413 /\ m.asks = k.asks
      BY <1>5, <2>11, <2>12, <2>13
    <3>2. g.asks = k.asks /\ g.body = r.body
      BY <2>2, <2>7 DEF ButBuffer
    <3> QED BY <2>8, <3>1, <3>2 DEF ReadAlike
  <2>14. CASE Len(k.body) + q <= Ceiling
    <3>1. Advanced(h, g) /\ Advanced(m, f)
      BY <1>5, <2>11, <2>12, <2>14
    <3>2. Left(s \o b, q) = s \o Left(b, t) /\ Without(s \o b, q) = Without(b, t)
      BY <1>0, <2>10, JoinedPast
    <3>3. m.body = h.body
      <4> DEFINE e == Left(b, t)
      <4>1. e \in Seq(Symbol)
        BY <2>10, Cutting
      <4>2. k.body \in Seq(Symbol) /\ s \in Seq(Symbol)
        BY <1>0
      <4>3. (k.body \o s) \o e = k.body \o (s \o e)
        BY ONLY <4>1, <4>2, Associative, Zenon
      <4>4. m.body = k.body \o (s \o e)
        BY <1>1, <3>1, <3>2 DEF Advanced, q
      <4>5. h.body = g.body \o e
        BY <2>7, <2>9, <3>1 DEF Advanced
      <4>6. g.body = k.body \o s
        BY <2>4, <2>7 DEF ButBuffer
      <4> QED BY <4>3, <4>4, <4>5, <4>6
    <3>4. m.buffer = h.buffer /\ m.complete = h.complete /\ m.asks = h.asks
      <4>1. g.complete = k.complete /\ g.asks = k.asks
        BY <2>2, <2>7 DEF ButBuffer
      <4> QED BY <1>5, <2>10, <2>11, <2>12, <2>14, <3>2, <4>1
    <3>5. /\ m \in Connection /\ h \in Connection /\ m.state = h.state /\ m.chunk = h.chunk
          /\ m.remaining = h.remaining /\ m.trailer = h.trailer /\ m.length = h.length
          /\ m.status = h.status
      BY <1>1, <2>2, <2>7, <3>1 DEF Advanced, ButBuffer
    <3>6. m = h
      BY <3>3, <3>4, <3>5, FieldsEqual DEF ButBuffer
    <3> QED BY <2>8, <3>6 DEF ReadAlike
  <2> QED BY <2>13, <2>14
<1>11. QED
  BY <1>8, <1>9, <1>10

-----------------------------------------------------------------------------
LEMMA BodySplits ==
    ASSUME sent \in Stream, NEW k, Sane(k), k.state = "body", ~k.complete, NEW b \in Seq(Symbol)
    PROVE  SplitsAlike(k, b) /\ consumeBody(k).state # "headers"
<1>1. CASE sent.framing = "chunked"
  <2>1. Reading(k) /\ InBody(k)
    BY <1>1 DEF Reading, InBody
  <2>2. consumeBody(k) = consumeChunkedBody(k)
    BY <1>1 DEF consumeBody
  <2>3. consumeBody(k).state # "headers"
    BY <2>1, <2>2, ChunkedBodySettles DEF InBody
  <2> QED BY <2>1, <2>3, ChunkedSplits
<1>2. CASE sent.framing = "length"
  <2>1. Plain(k)
    BY <1>2 DEF Plain
  <2>2. consumeBody(k).state \in {"responded", "body"}
    BY <2>1, PlainEnds DEF Advanced
  <2> QED BY <2>1, <2>2, PlainSplits
<1>3. QED
  BY <1>1, <1>2 DEF Sane

LEMMA FedTwice ==
    ASSUME NEW k \in Connection, NEW b \in Seq(Symbol), NEW c \in Seq(Symbol)
    PROVE  Fed(k, b \o c) = Fed(Fed(k, b), c)
<1> DEFINE f == Fed(k, b)
           g == Fed(f, c)
           h == Fed(k, b \o c)
<1>0. k.buffer \in Seq(Symbol) /\ b \o c \in Seq(Symbol)
  <2>1. k.buffer \in Seq(Symbol)
    BY DEF Connection
  <2>2. b \o c \in Seq(Symbol)
    BY ConcatProperties
  <2> QED BY <2>1, <2>2
<1>1. f \in Connection /\ ButBuffer(f, k) /\ f.buffer = k.buffer \o b
  BY FedFields
<1> HIDE DEF f
<1>2. g \in Connection /\ ButBuffer(g, f) /\ g.buffer = f.buffer \o c
  BY <1>1, FedFields
<1>3. h \in Connection /\ ButBuffer(h, k) /\ h.buffer = k.buffer \o (b \o c)
  <2> DEFINE d == b \o c
  <2>1. d \in Seq(Symbol)
    BY <1>0
  <2> HIDE DEF d
  <2>2. Fed(k, d) \in Connection /\ ButBuffer(Fed(k, d), k) /\ Fed(k, d).buffer = k.buffer \o d
    BY <2>1, FedFields
  <2> QED BY <2>2 DEF d
<1>4. (k.buffer \o b) \o c = k.buffer \o (b \o c)
  <2>1. k.buffer \in Seq(Symbol) /\ b \in Seq(Symbol) /\ c \in Seq(Symbol)
    BY <1>0
  <2> QED BY ONLY <2>1, Associative, Zenon
<1> HIDE DEF g, h
<1>5. ButBuffer(g, h)
  BY <1>1, <1>2, <1>3 DEF ButBuffer
<1>6. g.buffer = h.buffer
  BY <1>1, <1>2, <1>3, <1>4
<1>7. g = h
  BY <1>2, <1>3, <1>5, <1>6, FieldsEqual
<1>8. QED
  BY <1>7 DEF f, g, h

(* parseHead() does not look at what comes after the head.                 *)
LEMMA HeadParses ==
    ASSUME sent \in Stream, NEW k, Sane(k), k.state = "headers", ~k.complete, NEW c \in Seq(Symbol)
    PROVE  \/ /\ parseHead(k).state = "responded" /\ parseHead(Fed(k, c)).state = "responded"
              /\ parseHead(k).status = parseHead(Fed(k, c)).status
              /\ parseHead(k).asks = parseHead(Fed(k, c)).asks
           \/ /\ parseHead(k).state = "body" /\ ~parseHead(k).complete
              /\ parseHead(Fed(k, c)) = Fed(parseHead(k), c)
<1> DEFINE f == Fed(k, c)
           length == IF sent.framing = "length" THEN sent.length ELSE -1
           P(x) == [x EXCEPT !.state = "body", !.length = length]
           r == parseHead(k)
           m == parseHead(f)
           Long == sent.sink /\ sent.framing = "length" /\ sent.length > sent.limit
<1>0. /\ k \in Connection /\ length \in Int
      /\ sent.framing \in {"length", "chunked", "invalid", "preflight"}
  BY HttpAssumption DEF Sane
<1>1. f \in Connection /\ ButBuffer(f, k) /\ f.buffer = k.buffer \o c
  BY <1>0, FedFields
<1>2. \A x : parseHead(x) = CASE sent.framing = "invalid" -> fail(x, 400)
                              [] sent.framing = "preflight" -> fail(P(x), 204)
                              [] Long -> fail(P(x), 413)
                              [] OTHER -> P(x)
  BY DEF parseHead
<1> HIDE DEF f, length
<1>3. /\ P(k) \in Connection /\ P(k).state = "body" /\ P(k).complete = k.complete
      /\ P(k).chunk = k.chunk /\ P(k).remaining = k.remaining /\ P(k).trailer = k.trailer
      /\ P(k).length = length /\ P(k).body = k.body /\ P(k).status = k.status
      /\ P(k).asks = k.asks /\ P(k).buffer = k.buffer
  BY <1>0 DEF Connection
<1>4. /\ P(f) \in Connection /\ P(f).state = "body" /\ P(f).complete = f.complete
      /\ P(f).chunk = f.chunk /\ P(f).remaining = f.remaining /\ P(f).trailer = f.trailer
      /\ P(f).length = length /\ P(f).body = f.body /\ P(f).status = f.status
      /\ P(f).asks = f.asks /\ P(f).buffer = f.buffer
  BY <1>0, <1>1 DEF Connection
<1>5. P(f) = Fed(P(k), c)
  <2> DEFINE x == P(k)
             y == P(f)
  <2>1. Fed(x, c) \in Connection /\ ButBuffer(Fed(x, c), x) /\ Fed(x, c).buffer = x.buffer \o c
    BY <1>3, FedFields
  <2>2. ButBuffer(y, Fed(x, c)) /\ y.buffer = Fed(x, c).buffer /\ y \in Connection
    <3> HIDE DEF x, y
    <3>1. /\ x.state = "body" /\ x.complete = k.complete
          /\ x.chunk = k.chunk /\ x.remaining = k.remaining /\ x.trailer = k.trailer
          /\ x.length = length /\ x.body = k.body /\ x.status = k.status
          /\ x.asks = k.asks /\ x.buffer = k.buffer
      BY <1>3 DEF x
    <3>2. /\ y \in Connection /\ y.state = "body" /\ y.complete = f.complete
          /\ y.chunk = f.chunk /\ y.remaining = f.remaining /\ y.trailer = f.trailer
          /\ y.length = length /\ y.body = f.body /\ y.status = f.status
          /\ y.asks = f.asks /\ y.buffer = f.buffer
      BY <1>4 DEF y
    <3> QED BY <1>1, <2>1, <3>1, <3>2 DEF ButBuffer
  <2> HIDE DEF x, y
  <2>3. y = Fed(x, c)
    BY <2>1, <2>2, FieldsEqual
  <2> QED BY <2>3 DEF x, y
<1>6. \A x \in Connection, status \in Nat :
         /\ fail(x, status).state = "responded" /\ fail(x, status).status = status
         /\ fail(x, status).asks = x.asks
  BY FailFields
<1>7. CASE sent.framing = "invalid"
  <2>1. r = fail(k, 400) /\ m = fail(f, 400) /\ 400 \in Nat
    BY <1>2, <1>7
  <2> HIDE DEF r, m
  <2>2. /\ r.state = "responded" /\ m.state = "responded" /\ r.status = 400 /\ m.status = 400
        /\ r.asks = k.asks /\ m.asks = f.asks
    BY <1>0, <1>1, <1>6, <2>1
  <2>3. r.asks = m.asks
    BY <1>1, <2>2 DEF ButBuffer
  <2> QED BY <2>2, <2>3 DEF r, m, f
<1>8. CASE sent.framing = "preflight"
  <2>1. r = fail(P(k), 204) /\ m = fail(P(f), 204) /\ 204 \in Nat
    BY <1>2, <1>8, ZenonT(60)
  <2> HIDE DEF r, m, P
  <2>2. /\ r.state = "responded" /\ m.state = "responded" /\ r.status = 204 /\ m.status = 204
        /\ r.asks = P(k).asks /\ m.asks = P(f).asks
    BY <1>3, <1>4, <1>6, <2>1
  <2>3. r.asks = m.asks
    BY <1>1, <1>3, <1>4, <2>2 DEF ButBuffer
  <2> QED BY <2>2, <2>3 DEF r, m, f
<1>9. CASE sent.framing \in {"length", "chunked"} /\ Long
  <2>1. r = fail(P(k), 413) /\ m = fail(P(f), 413) /\ 413 \in Nat
    <3>0. sent.framing # "invalid" /\ sent.framing # "preflight"
      BY <1>9
    <3> HIDE DEF P, Long
    <3> QED BY <1>2, <1>9, <3>0
  <2> HIDE DEF r, m, P
  <2>2. /\ r.state = "responded" /\ m.state = "responded" /\ r.status = 413 /\ m.status = 413
        /\ r.asks = P(k).asks /\ m.asks = P(f).asks
    BY <1>3, <1>4, <1>6, <2>1
  <2>3. r.asks = m.asks
    BY <1>1, <1>3, <1>4, <2>2 DEF ButBuffer
  <2> QED BY <2>2, <2>3 DEF r, m, f
<1>10. CASE sent.framing \in {"length", "chunked"} /\ ~Long
  <2>1. r = P(k) /\ m = P(f)
    <3>0. sent.framing # "invalid" /\ sent.framing # "preflight"
      BY <1>10
    <3> HIDE DEF P, Long
    <3> QED BY <1>2, <1>10, <3>0
  <2> HIDE DEF r, m, P
  <2>2. r.state = "body" /\ ~r.complete /\ m = Fed(r, c)
    BY <1>3, <1>5, <2>1
  <2> QED BY <2>2 DEF r, m, f
<1>11. QED
  BY <1>0, <1>7, <1>8, <1>9, <1>10

LEMMA HeadSplits ==
    ASSUME sent \in Stream, NEW k, Sane(k), k.state = "headers", ~k.complete, NEW c \in Seq(Symbol)
    PROVE  \/ CutOff(ReadHead(k))
           \/ ReadAlike(ReadHead(Fed(k, c)), onReadyRead(ReadHead(k), c), ReadHead(k).body)
<1> DEFINE f == Fed(k, c)
           s == k.buffer
           pattern == CRLF \o CRLF
           end == indexOf(s, pattern)
<1>0. /\ k \in Connection /\ s \in Seq(Symbol) /\ Len(s) \in Nat /\ MaxHeadSize \in Nat
      /\ k.chunk = "size"
  BY HttpAssumption DEF Sane, Connection
<1>1. f \in Connection /\ ButBuffer(f, k) /\ f.buffer = s \o c
  BY <1>0, FedFields
<1>2. Len(pattern) = 4
  BY CrlfLength
<1>3. \A x : ReadHead(x) = IF indexOf(x.buffer, pattern) < 0
                           THEN IF Len(x.buffer) > MaxHeadSize THEN fail(x, 431) ELSE x
                           ELSE consumeBody(parseHead(
                                    [x EXCEPT !.buffer = Without(@, indexOf(x.buffer, pattern) + 4)]))
  BY DEF ReadHead
<1> HIDE DEF f, pattern
<1>4. end = -1 \/ (end \in Nat /\ end + 4 <= Len(s))
  <2>1. Len(pattern) \in Nat
    BY <1>2
  <2> HIDE DEF s
  <2>2. end = -1 \/ (end \in Nat /\ end + Len(pattern) <= Len(s))
    BY <1>0, <2>1, IndexInside
  <2> QED BY <1>2, <2>2
<1>5. CASE end < 0 /\ Len(s) > MaxHeadSize
  <2> DEFINE r == ReadHead(k)
  <2>1. r = fail(k, 431)
    BY <1>3, <1>5
  <2> HIDE DEF r
  <2>2. r.state = "responded" /\ r.status = 431 /\ r.buffer = s /\ r.chunk = "size"
    <3>1. k \in Connection /\ 431 \in Nat
      BY <1>0
    <3>2. /\ fail(k, 431).state = "responded" /\ fail(k, 431).status = 431
          /\ fail(k, 431).buffer = k.buffer /\ fail(k, 431).chunk = k.chunk
      BY ONLY <3>1, FailFields
    <3> QED BY <1>0, <2>1, <3>2
  <2>3. CutOff(r)
    BY <1>5, <2>2 DEF CutOff, pattern
  <2> QED BY <2>3 DEF r
<1>6. CASE end < 0 /\ ~(Len(s) > MaxHeadSize)
  <2>1. ReadHead(k) = k
    BY <1>3, <1>6
  <2>2. onReadyRead(k, c) = ReadHead(f)
    BY DEF onReadyRead, DropsTail, f, Fed
  <2> QED BY <2>1, <2>2 DEF ReadAlike, f
<1>7. CASE ~(end < 0)
  <2> DEFINE rest == Without(s, end + 4)
             x == [k EXCEPT !.buffer = rest]
             y == [f EXCEPT !.buffer = rest \o c]
             p == parseHead(x)
             q == parseHead(y)
  <2>1. end \in Nat /\ end + 4 \in Nat /\ end + 4 <= Len(s)
    BY <1>0, <1>4, <1>7
  <2>2. rest \in Seq(Symbol) /\ Without(s \o c, end + 4) = rest \o c
    <3> HIDE DEF end
    <3> QED BY <1>0, <2>1, Cutting, JoinedCut
  <2>3. indexOf(s \o c, pattern) = end
    BY <1>0, <1>2, <1>7, IndexStays
  <2>4. ReadHead(k) = consumeBody(p)
    BY <1>3, <1>7
  <2>5. ReadHead(f) = consumeBody(q)
    <3>1. ReadHead(f) = consumeBody(parseHead(
                           [f EXCEPT !.buffer = Without(@, indexOf(f.buffer, pattern) + 4)]))
      BY <1>1, <1>3, <1>7, <2>3
    <3>2. [f EXCEPT !.buffer = Without(@, indexOf(f.buffer, pattern) + 4)] = y
      <4> HIDE DEF rest, end
      <4> QED BY <1>1, <2>2, <2>3
    <3> QED BY <3>1, <3>2
  <2>6. rest \o c \in Seq(Symbol)
    <3> HIDE DEF rest
    <3> QED BY ONLY <2>2, c \in Seq(Symbol), ConcatProperties
  <2> HIDE DEF rest
  <2>7. x \in Connection /\ x.buffer = rest /\ ButBuffer(x, k)
    BY <1>0, <2>2, CutFields
  <2>8. y \in Connection /\ y.buffer = rest \o c /\ ButBuffer(y, f)
    BY <1>1, <2>6, CutFields
  <2> HIDE DEF x, y
  <2>9. Sane(x) /\ x.state = "headers" /\ ~x.complete
    BY <2>7 DEF Sane, ButBuffer
  <2>10. y = Fed(x, c)
    <3>1. Fed(x, c) \in Connection /\ ButBuffer(Fed(x, c), x) /\ Fed(x, c).buffer = rest \o c
      BY <2>7, FedFields
    <3>2. ButBuffer(y, Fed(x, c))
      BY <1>1, <2>7, <2>8, <3>1 DEF ButBuffer
    <3> QED BY <2>8, <3>1, <3>2, FieldsEqual
  <2>11. Sane(p)
    BY <2>9, HeadIsSane
  <2>12. \/ /\ p.state = "responded" /\ q.state = "responded"
            /\ p.status = q.status /\ p.asks = q.asks
         \/ p.state = "body" /\ ~p.complete /\ q = Fed(p, c)
    BY <2>9, <2>10, HeadParses
  <2> HIDE DEF p, q
  <2>13. CASE /\ p.state = "responded" /\ q.state = "responded"
              /\ p.status = q.status /\ p.asks = q.asks
    <3>1. consumeBody(p) = p /\ consumeBody(q) = q
      BY <2>13 DEF consumeBody
    <3>2. onReadyRead(p, c) = p
      BY <2>13 DEF onReadyRead, DropsTail
    <3> QED BY <2>4, <2>5, <2>13, <3>1, <3>2 DEF ReadAlike, f
  <2>14. CASE p.state = "body" /\ ~p.complete /\ q = Fed(p, c)
    <3> DEFINE r == consumeBody(p)
    <3>1. SplitsAlike(p, c) /\ r.state # "headers"
      BY <2>11, <2>14, BodySplits
    <3>2. onReadyRead(r, c) = Resume(r, c)
      <4> HIDE DEF r
      <4> QED BY <3>1 DEF onReadyRead, DropsTail, Resume, Fed
    <3>3. CutOff(r) \/ ReadAlike(consumeBody(q), Resume(r, c), r.body)
      BY <2>14, <3>1 DEF SplitsAlike
    <3> QED BY <2>4, <2>5, <3>2, <3>3 DEF f
  <2> QED BY <2>12, <2>13, <2>14
<1>8. QED
  BY <1>5, <1>6, <1>7

(* Two reads do what one read of all their bytes does.                     *)
LEMMA ReadsCompose ==
    ASSUME sent \in Stream, NEW k, Sane(k), NEW b \in Seq(Symbol), NEW c \in Seq(Symbol)
    PROVE  \/ CutOff(onReadyRead(k, b))
           \/ ReadAlike(onReadyRead(k, b \o c), onReadyRead(onReadyRead(k, b), c),
                        onReadyRead(k, b).body)
<1> DEFINE h == Fed(k, b)
<1>0. k \in Connection /\ \A x, y : ReadAlike(x, x, y)
  BY DEF Sane, ReadAlike
<1>1. CASE k.state = "responded" \/ k.complete
  <2>1. \A x : onReadyRead(k, x) = k
    BY <1>1 DEF onReadyRead, DropsTail
  <2> QED BY <1>0, <2>1
<1>2. CASE k.state # "responded" /\ ~k.complete
  <2>1. h \in Connection /\ ButBuffer(h, k) /\ Fed(k, b \o c) = Fed(h, c)
    BY <1>0, FedFields, FedTwice
  <2>2. \A x : onReadyRead(k, x) = IF k.state = "headers" THEN ReadHead(Fed(k, x))
                                   ELSE consumeBody(Fed(k, x))
    BY <1>2 DEF onReadyRead, DropsTail, Fed
  <2> HIDE DEF h
  <2>3. Sane(h) /\ h.state = k.state /\ ~h.complete
    BY <1>2, <2>1 DEF Sane, ButBuffer
  <2>4. CASE k.state = "headers"
    <3>1. onReadyRead(k, b) = ReadHead(h) /\ onReadyRead(k, b \o c) = ReadHead(Fed(h, c))
      BY <2>1, <2>2, <2>4 DEF h
    <3> QED BY <2>3, <2>4, <3>1, HeadSplits
  <2>5. CASE k.state # "headers"
    <3> DEFINE r == consumeBody(h)
    <3>1. onReadyRead(k, b) = r /\ onReadyRead(k, b \o c) = consumeBody(Fed(h, c))
      BY <2>1, <2>2, <2>5 DEF h
    <3>2. k.state = "body"
      BY <1>0, <1>2, <2>5 DEF Connection
    <3>3. SplitsAlike(h, c) /\ r.state # "headers"
      BY <2>3, <3>2, BodySplits
    <3>4. CutOff(r) \/ ReadAlike(consumeBody(Fed(h, c)), Resume(r, c), r.body)
      BY <3>3 DEF SplitsAlike
    <3> HIDE DEF r
    <3>5. onReadyRead(r, c) = Resume(r, c)
      BY <3>3 DEF onReadyRead, DropsTail, Resume, Fed
    <3> QED BY <3>1, <3>4, <3>5
  <2> QED BY <2>4, <2>5
<1>3. QED
  BY <1>1, <1>2

-----------------------------------------------------------------------------
(* What the first n bytes come to when they are read at once, and how the  *)
(* connection stands to it.  A refusal must be the answer to all that is   *)
(* still to come, too.                                                     *)
Whole(n) == onReadyRead(NewConnection, SubSeq(sent.bytes, 1, n))
SplitInv ==
    \/ conn.state = "responded" /\ (conn.status = 408 \/ CutOff(conn))
    \/ conn.state # "responded" /\ conn = Whole(pos)
    \/ /\ conn.state = "responded"
       /\ \A n \in pos..Len(sent.bytes) :
             Whole(n).state = "responded" /\ Whole(n).status = conn.status

(* The stream of a connection does not change, nor what bytes come to.     *)
LEMMA SameStream ==
    ASSUME sent' = sent
    PROVE  /\ \A n : Whole(n)' = Whole(n)
           /\ \A k : CutOff(k)' <=> CutOff(k)
<1>1. Ceiling' = Ceiling
  BY DEF Ceiling
<1>2. \A k, d : deliver(k, d)' = deliver(k, d)
  BY <1>1 DEF deliver, WithinCeiling
<1>3. \A k : ChunkData(k)' = ChunkData(k)
  BY <1>2 DEF ChunkData
<1>4. \A k : ChunkStep(k)' = ChunkStep(k)
  BY <1>3 DEF ChunkStep
<1>5. \A k : consumeChunkedBody(k)' = consumeChunkedBody(k)
  BY <1>4 DEF consumeChunkedBody
<1>6. \A k : consumePlainBody(k)' = consumePlainBody(k)
  BY <1>2 DEF consumePlainBody
<1>7. \A k : consumeBody(k)' = consumeBody(k)
  BY <1>5, <1>6 DEF consumeBody
<1>8. \A k : parseHead(k)' = parseHead(k)
  BY DEF parseHead
<1>9. \A k : ReadHead(k)' = ReadHead(k)
  BY <1>7, <1>8 DEF ReadHead
<1>10. \A k, b : onReadyRead(k, b)' = onReadyRead(k, b)
  BY <1>7, <1>9 DEF onReadyRead
<1>11. \A n : Whole(n)' = Whole(n)
  BY <1>10 DEF Whole
<1>12. \A k : CutOff(k)' <=> CutOff(k)
  BY DEF CutOff
<1>13. QED
  BY <1>11, <1>12

LEMMA NewIsSane == ASSUME sent \in Stream PROVE Sane(NewConnection)
<1>1. NewConnection \in Connection
  BY DEF NewConnection, Connection
<1>2. Ceiling \in Nat /\ Len(<<>>) = 0
  BY CeilingIsNat
<1>3. QED
  BY <1>1, <1>2 DEF NewConnection, Sane

LEMMA Pieces ==
    ASSUME NEW s \in Seq(Symbol), NEW l \in Nat, NEW m \in Nat, NEW n \in Nat,
           l <= m, m <= n, n <= Len(s)
    PROVE  /\ SubSeq(s, l + 1, m) \in Seq(Symbol) /\ SubSeq(s, m + 1, n) \in Seq(Symbol)
           /\ SubSeq(s, l + 1, m) \o SubSeq(s, m + 1, n) = SubSeq(s, l + 1, n)
<1>1. m <= Len(s) /\ Len(s) \in Nat
  OBVIOUS
<1>2. SubSeq(s, l + 1, m) \in Seq(Symbol) /\ SubSeq(s, m + 1, n) \in Seq(Symbol)
  BY <1>1, SubSeqAt
<1>3. l + 1 \in 1..(Len(s) + 1) /\ m \in ((l + 1) - 1)..Len(s) /\ n \in m..Len(s)
  BY <1>1
<1>4. SubSeq(s, l + 1, m) \o SubSeq(s, m + 1, n) = SubSeq(s, l + 1, n)
  BY <1>3, ConcatAdjacentSubSeq
<1>5. QED
  BY <1>2, <1>4

(* Where a connection has understood what one read would have, any further *)
(* bytes bring it where one read of them too would have.                   *)
LEMMA ReadsOn ==
    ASSUME HttpInv, conn.state # "responded", conn = Whole(pos), NEW i \in pos..Len(sent.bytes)
    PROVE  ReadAlike(Whole(i), onReadyRead(conn, SubSeq(sent.bytes, pos + 1, i)), conn.body)
<1> DEFINE a == SubSeq(sent.bytes, 0 + 1, pos)
           c == SubSeq(sent.bytes, pos + 1, i)
<1>1. /\ sent \in Stream /\ sent.bytes \in Seq(Symbol) /\ pos \in Nat /\ i \in Nat /\ pos <= i
      /\ i <= Len(sent.bytes) /\ 0 \in Nat /\ 0 <= pos
  BY HttpAssumption DEF HttpInv
<1>2. ~CutOff(conn)
  BY DEF CutOff
<1>3. a \in Seq(Symbol) /\ c \in Seq(Symbol) /\ a \o c = SubSeq(sent.bytes, 0 + 1, i)
  BY <1>1, Pieces
<1>4. 0 + 1 = 1
  OBVIOUS
<1>5. Whole(pos) = onReadyRead(NewConnection, a) /\ Whole(i) = onReadyRead(NewConnection, a \o c)
  BY <1>3, <1>4 DEF Whole
<1> HIDE DEF a, c
<1>6. \/ CutOff(onReadyRead(NewConnection, a))
      \/ ReadAlike(onReadyRead(NewConnection, a \o c),
                   onReadyRead(onReadyRead(NewConnection, a), c),
                   onReadyRead(NewConnection, a).body)
  BY <1>1, <1>3, NewIsSane, ReadsCompose
<1>7. QED
  BY <1>2, <1>5, <1>6 DEF c

LEMMA SplitStep ==
    ASSUME HttpInv, SplitInv, NEW n \in 1..(Len(sent.bytes) - pos),
           NEW new, new = onReadyRead(conn, SubSeq(sent.bytes, pos + 1, pos + n))
    PROVE  \/ new.state = "responded" /\ (new.status = 408 \/ CutOff(new))
           \/ new.state # "responded" /\ new = Whole(pos + n)
           \/ /\ new.state = "responded"
              /\ \A i \in (pos + n)..Len(sent.bytes) :
                    Whole(i).state = "responded" /\ Whole(i).status = new.status
<1> DEFINE L == Len(sent.bytes)
           b == SubSeq(sent.bytes, pos + 1, pos + n)
<1>0. /\ sent \in Stream /\ sent.bytes \in Seq(Symbol) /\ L \in Nat /\ pos \in Nat /\ pos <= L
      /\ Sane(conn) /\ pos + n \in Nat /\ pos <= pos + n /\ pos + n <= L
  BY HttpAssumption DEF HttpInv
<1>1. CASE conn.state = "responded"
  <2>1. new = conn
    BY <1>1 DEF onReadyRead, DropsTail
  <2>2. \A i \in (pos + n)..L : i \in pos..L
    <3> HIDE DEF L
    <3> QED BY <1>0
  <2> QED BY <1>1, <2>1, <2>2 DEF SplitInv
<1>2. CASE conn.state # "responded"
  <2>1. conn = Whole(pos)
    BY <1>2 DEF SplitInv
  <2>3. ASSUME NEW i \in pos..L
        PROVE  ReadAlike(Whole(i), onReadyRead(conn, SubSeq(sent.bytes, pos + 1, i)), conn.body)
    BY <1>2, <2>1, ReadsOn
  <2>4. pos + n \in pos..L
    <3> HIDE DEF L
    <3> QED BY <1>0
  <2>5. ReadAlike(Whole(pos + n), new, conn.body)
    BY <2>3, <2>4
  <2>6. CASE new.state # "responded"
    BY <2>5, <2>6 DEF ReadAlike
  <2>7. CASE new.state = "responded" /\ ~CutOff(new)
    <3> SUFFICES ASSUME NEW i \in (pos + n)..L
                 PROVE  Whole(i).state = "responded" /\ Whole(i).status = new.status
      BY <2>7
    <3> DEFINE c == SubSeq(sent.bytes, (pos + n) + 1, i)
    <3>1. i \in Nat /\ pos + n <= i /\ i <= L /\ i \in pos..L
      <4> HIDE DEF L
      <4> QED BY <1>0
    <3>2. b \in Seq(Symbol) /\ c \in Seq(Symbol) /\ b \o c = SubSeq(sent.bytes, pos + 1, i)
      BY <1>0, <3>1, Pieces
    <3>3. new = onReadyRead(conn, b) /\ ReadAlike(Whole(i), onReadyRead(conn, b \o c), conn.body)
      BY <2>3, <3>1, <3>2
    <3> HIDE DEF b, c
    <3>4. ReadAlike(onReadyRead(conn, b \o c), onReadyRead(new, c), new.body)
      BY <1>0, <2>7, <3>2, <3>3, ReadsCompose
    <3>5. onReadyRead(new, c) = new
      BY <2>7 DEF onReadyRead, DropsTail
    <3> QED BY <2>7, <3>3, <3>4, <3>5 DEF ReadAlike
  <2> QED BY <2>6, <2>7
<1>3. QED
  BY <1>1, <1>2

LEMMA NothingRead == ASSUME sent \in Stream PROVE Whole(0) = NewConnection
<1> DEFINE k == [NewConnection EXCEPT !.buffer = @ \o SubSeq(sent.bytes, 1, 0)]
<1>1. SubSeq(sent.bytes, 1, 0) = <<>>
  BY SubSeqEmpty
<1>2. <<>> \o <<>> = <<>>
  OBVIOUS
<1>3. k = NewConnection
  BY <1>1, <1>2 DEF NewConnection
<1>4. Whole(0) = ReadHead(k)
  BY DEF Whole, onReadyRead, DropsTail, NewConnection
<1>5. NewConnection.buffer = <<>> /\ Len(<<>>) = 0 /\ <<>> \in Seq(Symbol)
  BY DEF NewConnection
<1>6. indexOf(<<>>, CRLF \o CRLF) = -1
  <2> DEFINE pattern == CRLF \o CRLF
  <2>1. Len(pattern) = 4
    BY CrlfLength
  <2> DEFINE none == SubSeq(sent.bytes, 1, 0)
  <2>2. none \in Seq(Symbol) /\ Len(none) = 0
    BY <1>1, <1>5
  <2> HIDE DEF pattern, none
  <2>3. Len(pattern) \in Nat
    BY <2>1
  <2>4. indexOf(none, pattern) = -1 \/ (indexOf(none, pattern) \in Nat
           /\ indexOf(none, pattern) + Len(pattern) <= Len(none))
    BY <2>2, <2>3, IndexInside
  <2>5. indexOf(none, pattern) = -1
    BY <2>1, <2>2, <2>4
  <2> QED BY <1>1, <2>5 DEF pattern, none
<1>7. ~(0 > MaxHeadSize)
  BY HttpAssumption
<1>8. ReadHead(NewConnection) = NewConnection
  BY <1>5, <1>6, <1>7 DEF ReadHead
<1>9. QED
  BY <1>3, <1>4, <1>8

LEMMA SplitStarts == Init => SplitInv
<1> SUFFICES ASSUME Init PROVE SplitInv
  OBVIOUS
<1>1. conn = NewConnection /\ pos = 0 /\ conn.state = "headers" /\ sent \in Stream
  BY DEF Init, NewConnection
<1>2. QED
  BY <1>1, NothingRead DEF SplitInv

LEMMA SplitNext == HttpInv /\ SplitInv /\ [Next]_vars => SplitInv'
<1> SUFFICES ASSUME HttpInv, SplitInv, [Next]_vars PROVE SplitInv'
  OBVIOUS
<1>1. CASE Read
  <2>1. PICK n \in 1..(Len(sent.bytes) - pos) :
           /\ pos' = pos + n
           /\ conn' = onReadyRead(conn, SubSeq(sent.bytes, pos + 1, pos + n))
    BY <1>1 DEF Read
  <2>2. sent' = sent
    BY <1>1 DEF Read
  <2> DEFINE new == conn'
  <2>3. new = onReadyRead(conn, SubSeq(sent.bytes, pos + 1, pos + n))
    BY <2>1
  <2> HIDE DEF new
  <2>4. \/ new.state = "responded" /\ (new.status = 408 \/ CutOff(new))
        \/ new.state # "responded" /\ new = Whole(pos + n)
        \/ /\ new.state = "responded"
           /\ \A i \in (pos + n)..Len(sent.bytes) :
                 Whole(i).state = "responded" /\ Whole(i).status = new.status
    BY <2>3, SplitStep
  <2>5. (\A i : Whole(i)' = Whole(i)) /\ (\A k : CutOff(k)' <=> CutOff(k))
    BY <2>2, SameStream
  <2> QED BY <2>1, <2>2, <2>4, <2>5 DEF SplitInv, new
<1>2. CASE TimedOut
  <2>1. conn'.state = "responded" /\ conn'.status = 408
    <3>1. conn \in Connection /\ 408 \in Nat
      BY DEF HttpInv, Sane
    <3>2. fail(conn, 408).state = "responded" /\ fail(conn, 408).status = 408
      BY ONLY <3>1, FailFields
    <3> QED BY <1>2, <3>2 DEF TimedOut
  <2> QED BY <2>1 DEF SplitInv
<1>3. CASE UNCHANGED vars
  <2>1. sent' = sent /\ pos' = pos /\ conn' = conn
    BY <1>3 DEF vars
  <2>2. (\A i : Whole(i)' = Whole(i)) /\ (\A k : CutOff(k)' <=> CutOff(k))
    BY <2>1, SameStream
  <2> DEFINE new == conn'
  <2>3. \/ new.state = "responded" /\ (new.status = 408 \/ CutOff(new))
        \/ new.state # "responded" /\ new = Whole(pos)
        \/ /\ new.state = "responded"
           /\ \A n \in pos..Len(sent.bytes) :
                 Whole(n).state = "responded" /\ Whole(n).status = new.status
    BY <2>1 DEF SplitInv
  <2> QED BY <2>1, <2>2, <2>3 DEF SplitInv, new
<1>4. QED
  BY <1>1, <1>2, <1>3 DEF Next

(* onReadyRead() and all it calls: for any bytes and however they are cut  *)
(* into reads, a connection is where one read of all of them would have    *)
(* brought it, unless it timed out or was cut off within a line.           *)
THEOREM SplitsDoNotMatter == Spec => []SplitDoesNotMatter
<1>1. HttpInv /\ SplitInv => SplitDoesNotMatter
  <2> SUFFICES ASSUME HttpInv, SplitInv PROVE SplitDoesNotMatter
    OBVIOUS
  <2>1. pos \in pos..Len(sent.bytes)
    BY HttpAssumption DEF HttpInv
  <2>2. conn.status = 408 \/ CutOff(conn) \/ Alike(conn, Whole(pos))
    BY <2>1 DEF SplitInv, Alike
  <2> QED BY <2>2 DEF SplitDoesNotMatter, Whole
<1>2. QED
  BY <1>1, HttpStarts, HttpNext, SplitStarts, SplitNext, PTL DEF Spec

-----------------------------------------------------------------------------
(* Every beginning of the stream, read at once, is decoded right.          *)
DecodesAtOnce == \A n \in 0..Len(sent.bytes) : Decoded(Whole(n), n)

LEMMA WholeIsSane ==
    ASSUME sent \in Stream, NEW n \in 0..Len(sent.bytes)
    PROVE  Sane(Whole(n))
<1>1. Sane(NewConnection)
  BY NewIsSane
<1>2. NewConnection.buffer = <<>> /\ Len(<<>>) = 0 /\ 0 <= MaxHeadSize
  BY HttpAssumption DEF NewConnection
<1>3. Resting(NewConnection)
  BY <1>1, <1>2 DEF Resting
<1>4. sent.bytes \in Seq(Symbol) /\ n \in Nat /\ n <= Len(sent.bytes) /\ 0 \in Nat
  BY HttpAssumption
<1>5. SubSeq(sent.bytes, 0 + 1, n) \in Seq(Symbol)
  BY <1>4, SubSeqAt
<1>6. 0 + 1 = 1
  OBVIOUS
<1>7. Resting(onReadyRead(NewConnection, SubSeq(sent.bytes, 1, n)))
  BY <1>3, <1>5, <1>6, ReadRests
<1>8. QED
  BY <1>7 DEF Resting, Whole

LEMMA DecodeStep ==
    HttpInv /\ SplitInv /\ DecodesAtOnce /\ DecodesTheBody /\ [Next]_vars
        => DecodesAtOnce' /\ DecodesTheBody'
<1> SUFFICES ASSUME HttpInv, SplitInv, DecodesAtOnce, DecodesTheBody, [Next]_vars
             PROVE  DecodesAtOnce' /\ DecodesTheBody'
  OBVIOUS
<1>1. sent' = sent
  BY DEF Next, Read, TimedOut, vars
<1>2. \A k, n : Decoded(k, n)' <=> Decoded(k, n)
  BY <1>1 DEF Decoded
<1>3. DecodesAtOnce'
  BY <1>1, <1>2, SameStream DEF DecodesAtOnce
<1>4. conn.state = "responded" => ~conn.complete /\ conn.status # 0
  BY DEF HttpInv, Sane
<1>5. SUFFICES Decoded(conn', pos')
  BY <1>1, <1>3 DEF DecodesTheBody, Decoded
<1>6. ASSUME NEW n, conn.state = "responded" PROVE Decoded(conn, n)
  BY <1>4, <1>6 DEF DecodesTheBody, Decoded
<1>7. CASE Read
  <2>1. PICK n \in 1..(Len(sent.bytes) - pos) :
           /\ pos' = pos + n
           /\ conn' = onReadyRead(conn, SubSeq(sent.bytes, pos + 1, pos + n))
    BY <1>7 DEF Read
  <2> DEFINE i == pos + n
             w == Whole(i)
             new == conn'
  <2>2. sent \in Stream /\ i \in pos..Len(sent.bytes) /\ i \in 0..Len(sent.bytes)
    BY HttpAssumption DEF HttpInv
  <2>3. CASE conn.state = "responded"
    <3>1. conn' = conn
      BY <2>1, <2>3 DEF onReadyRead, DropsTail
    <3> QED BY <1>6, <2>1, <2>3, <3>1
  <2>4. CASE conn.state # "responded"
    <3>1. conn = Whole(pos)
      BY <2>4 DEF SplitInv
    <3>2. ReadAlike(w, new, conn.body)
      BY <2>1, <2>2, <2>4, <3>1, ReadsOn
    <3>3. Decoded(w, i) /\ Sane(w)
      BY <2>2, WholeIsSane DEF DecodesAtOnce
    <3>4. new.state = "responded" => ~new.complete /\ new.status # 0
      BY HttpNext DEF HttpInv, Sane
    <3>5. IsPrefix(conn.body, sent.body)
      BY DEF DecodesTheBody, Decoded
    <3> HIDE DEF w, new, i
    <3>6. CASE new = w
      BY <2>1, <3>3, <3>6 DEF new, i
    <3>7. CASE new # w
      <4>1. /\ w.state = "responded" /\ new.state = "responded"
            /\ w.status = new.status /\ w.asks = new.asks /\ new.body \in {w.body, conn.body}
        BY <3>2, <3>7 DEF ReadAlike
      <4>2. ~w.complete /\ ~new.complete /\ new.status # 0
        BY <3>3, <3>4, <4>1 DEF Sane
      <4>3. IsPrefix(new.body, sent.body)
        BY <3>3, <3>5, <4>1 DEF Decoded
      <4>4. Decoded(new, i)
        BY <3>3, <4>1, <4>2, <4>3 DEF Decoded
      <4> QED BY <2>1, <4>4 DEF new, i
    <3> QED BY <3>6, <3>7
  <2> QED BY <2>3, <2>4
<1>8. CASE TimedOut
  <2> DEFINE new == fail(conn, 408)
  <2>1. conn \in Connection /\ 408 \in Nat
    BY DEF HttpInv, Sane
  <2>2. new.status = 408 /\ new.body = conn.body /\ new.asks = conn.asks
    BY ONLY <2>1, FailFields
  <2>3. new.complete = conn.complete
    BY ONLY <2>1 DEF fail, Connection
  <2>4. conn' = new /\ pos' = pos /\ ~conn.complete
    BY <1>8 DEF TimedOut
  <2> HIDE DEF new
  <2>5. Decoded(new, pos)
    BY <2>2, <2>3, <2>4 DEF DecodesTheBody, Decoded
  <2> QED BY <2>4, <2>5
<1>9. CASE UNCHANGED vars
  BY <1>9 DEF vars, DecodesTheBody
<1>10. QED
  BY <1>7, <1>8, <1>9 DEF Next

(* onReadyRead() and all it calls: a request that is decoded right when it *)
(* comes in one read, cut short anywhere, is decoded right however it is   *)
(* cut into reads, and whenever it times out.                              *)
THEOREM DecodesHoweverCut == Spec /\ DecodesAtOnce => []DecodesTheBody
<1>1. Init /\ DecodesAtOnce => DecodesTheBody
  <2> SUFFICES ASSUME Init, DecodesAtOnce PROVE DecodesTheBody
    OBVIOUS
  <2>1. sent \in Stream /\ conn = NewConnection /\ pos = 0
    BY DEF Init
  <2>2. 0 \in 0..Len(sent.bytes)
    BY <2>1, HttpAssumption
  <2>3. Decoded(Whole(0), 0)
    BY <2>2 DEF DecodesAtOnce
  <2> QED BY <2>1, <2>3, NothingRead DEF DecodesTheBody
<1>2. QED
  BY <1>1, HttpStarts, HttpNext, SplitStarts, SplitNext, DecodeStep, PTL DEF Spec

=============================================================================
