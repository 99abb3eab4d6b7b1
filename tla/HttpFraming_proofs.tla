------------------------- MODULE HttpFraming_proofs -------------------------
(***************************************************************************)
(* Of a client that waits for its responses exactly the requests are        *)
(* executed, for bodies of every length, any number of requests and every   *)
(* way TCP may cut the stream, in both MPMs.                                *)
(*                                                                          *)
(* All that is under way is one request: the socket has a piece of it from  *)
(* its first byte, the wire the rest, and lengthToRead counts the rest once *)
(* the blank line has come.                                                 *)
(*                                                                          *)
(* Of a client that pipelines, what is executed, buffered and on the wire   *)
(* follows each other in the order of the stream, however generate() cuts   *)
(* it; what generate() returns is found by induction over the bytes left.   *)
(***************************************************************************)
EXTENDS HttpFraming, SequenceTheorems, WellFoundedInduction, NaturalsInduction, TLAPS

\* The bytes from a to b of request r.
Piece(r, a, b) == [i \in 1 .. b - a + 1 |-> [req |-> r, place |-> a + i - 1]]

\* The bytes a client sends of a body.
Body(h) == IF h.len <= MaxBody THEN h.len ELSE MaxBody

\* k bytes of request r, which announces a body of n bytes and has one of m, are with
\* the server.
Underway(r, n, m, k) ==
    /\ wire = Piece(r, k + 1, m + 2)
    /\ lengthToRead = IF k < 2 THEN -1 ELSE n + 2 - k
    /\ \/ file = NoFile /\ buffer = Piece(r, 1, k)
       \/ /\ kind = "thread" /\ k >= 2 /\ file = Piece(r, 2, k)
          /\ \E p \in 2 .. k : buffer = Piece(r, 1, p)

Waits == wire = <<>> /\ buffer = <<>> /\ file = NoFile /\ lengthToRead = -1

OneAtATime ==
    /\ kind \in {"hybrid", "thread"}
    /\ sent \in Seq(Headers) /\ Len(sent) <= MaxRequests
    /\ served \in Seq(Seq(Bytes))
    /\ state \in {"open", "leaving", "over"}
    /\ Exact
    /\ \/ state = "over"
       \/ Len(served) = Len(sent) /\ Waits
       \/ Len(sent) = Len(served) + 1 /\ Waits
       \/ /\ Len(sent) = Len(served) + 1
          /\ \E k \in 0 .. Body(sent[Len(sent)]) + 2 :
                Underway(Len(sent), sent[Len(sent)].len, Body(sent[Len(sent)]), k)

-----------------------------------------------------------------------------
(* Pieces.                                                                  *)

\* A piece is a sequence of bytes.
LEMMA PieceSeq ==
    ASSUME NEW r \in 1 .. MaxRequests, NEW a \in Nat, a >= 1, NEW b \in Nat, b >= a - 1
    PROVE  /\ Piece(r, a, b) \in Seq(Bytes)
           /\ Len(Piece(r, a, b)) = b - a + 1
           /\ \A i \in 1 .. b - a + 1 : Piece(r, a, b)[i] = [req |-> r, place |-> a + i - 1]
<1>1. \A i \in 1 .. b - a + 1 : [req |-> r, place |-> a + i - 1] \in Bytes
  BY DEF Bytes
<1>2. Piece(r, a, b) \in [1 .. b - a + 1 -> Bytes]
  BY <1>1 DEF Piece
<1>3. b - a + 1 \in Nat
  OBVIOUS
<1>4. Piece(r, a, b) \in Seq(Bytes)
  BY <1>2, <1>3, SeqDef
<1>5. Len(Piece(r, a, b)) = b - a + 1
  BY <1>2, <1>3, <1>4, LenProperties
<1> QED BY <1>4, <1>5 DEF Piece

\* What has come first is a piece from the first byte.
LEMMA PrefixSeq ==
    ASSUME NEW r \in 1 .. MaxRequests, NEW k \in Nat
    PROVE  /\ Piece(r, 1, k) \in Seq(Bytes)
           /\ Len(Piece(r, 1, k)) = k
           /\ \A i \in 1 .. k : Piece(r, 1, k)[i] = [req |-> r, place |-> i]
<1>1. PICK a \in Nat : a = 1 /\ a >= 1 /\ k >= a - 1 /\ k - a + 1 = k
  OBVIOUS
<1>2. /\ Piece(r, a, k) \in Seq(Bytes)
      /\ Len(Piece(r, a, k)) = k - a + 1
      /\ \A i \in 1 .. k - a + 1 : Piece(r, a, k)[i] = [req |-> r, place |-> a + i - 1]
  BY <1>1, PieceSeq
<1>3. \A i \in 1 .. k : 1 + i - 1 = i
  OBVIOUS
<1> QED BY <1>1, <1>2, <1>3

\* A piece of nothing is empty.
LEMMA PieceEmpty ==
    ASSUME NEW r \in 1 .. MaxRequests, NEW a \in Nat, a >= 1
    PROVE  Piece(r, a, a - 1) = <<>>
<1>1. PICK b \in Nat : b = a - 1 /\ b >= a - 1 /\ b - a + 1 = 0
  OBVIOUS
<1>2. Piece(r, a, b) \in Seq(Bytes) /\ Len(Piece(r, a, b)) = 0
  BY <1>1, PieceSeq
<1> QED BY <1>1, <1>2, EmptySeq

\* A piece that begins with the blank line is not.
LEMMA PieceNotEmpty ==
    ASSUME NEW r \in 1 .. MaxRequests, NEW k \in Nat, k >= 2
    PROVE  Piece(r, 2, k) # <<>>
<1>1. PICK a \in Nat : a = 2 /\ a >= 1 /\ k >= a - 1 /\ k - a + 1 > 0
  OBVIOUS
<1>2. Len(Piece(r, a, k)) = k - a + 1
  BY <1>1, PieceSeq
<1> QED BY <1>1, <1>2, EmptySeq

\* A request is a piece of itself.
LEMMA RequestPiece ==
    ASSUME NEW r, NEW n \in Nat PROVE Request(r, n) = Piece(r, 1, n + 2)
<1>1. n + 2 - 1 + 1 = n + 2 /\ \A i \in 1 .. n + 2 : 1 + i - 1 = i
  OBVIOUS
<1> QED BY <1>1 DEF Request, Piece

\* SubSeq, under a name the provers leave as it is.
Part(s, i, j) == SubSeq(s, i, j)

\* A part of a piece is a piece.
LEMMA SubPiece ==
    ASSUME NEW r \in 1 .. MaxRequests, NEW a \in Nat, a >= 1, NEW b \in Nat, b >= a - 1,
           NEW i \in Nat, i >= 1, NEW j \in Nat, j >= i - 1, j <= b - a + 1,
           NEW e \in Nat, e = a + i - 1, NEW f \in Nat, f = a + j - 1
    PROVE  Part(Piece(r, a, b), i, j) = Piece(r, e, f)
<1> DEFINE p == Piece(r, a, b)
           s == SubSeq(p, i, j)
           t == Piece(r, e, f)
<1>1. /\ p \in Seq(Bytes) /\ Len(p) = b - a + 1
      /\ \A x \in 1 .. b - a + 1 : p[x] = [req |-> r, place |-> a + x - 1]
  BY PieceSeq, ZenonT(30)
<1>2. /\ t \in Seq(Bytes) /\ Len(t) = j - i + 1
      /\ \A x \in 1 .. j - i + 1 : t[x] = [req |-> r, place |-> a + i - 1 + x - 1]
  <2>1. e >= 1 /\ f >= e - 1 /\ f - e + 1 = j - i + 1
    OBVIOUS
  <2>2. /\ t \in Seq(Bytes) /\ Len(t) = f - e + 1
        /\ \A x \in 1 .. f - e + 1 : t[x] = [req |-> r, place |-> e + x - 1]
    BY <2>1, PieceSeq, ZenonT(30)
  <2> HIDE DEF t
  <2> QED BY <2>1, <2>2
<1> HIDE DEF p, t
<1>3. \A x \in i .. j : p[x] \in Bytes
  BY <1>1, ElementOfSeq
<1>4. /\ s \in Seq(Bytes) /\ Len(s) = (IF i <= j THEN j - i + 1 ELSE 0)
      /\ \A x \in 1 .. j - i + 1 : s[x] = p[i + x - 1]
  BY <1>3, SubSeqProperties
<1> HIDE DEF s
<1>5. Len(s) = Len(t)
  BY <1>2, <1>4
<1>6. ASSUME NEW x \in 1 .. Len(s) PROVE s[x] = t[x]
  <2>1. x \in 1 .. j - i + 1 /\ i + x - 1 \in 1 .. b - a + 1
    BY <1>4
  <2>2. s[x] = [req |-> r, place |-> a + (i + x - 1) - 1]
    BY <1>1, <1>4, <2>1
  <2> QED BY <1>2, <2>1, <2>2
<1>7. s = t
  BY <1>2, <1>4, <1>5, <1>6, SeqEqual
<1> QED BY <1>7 DEF s, t, p, Part

\* Two pieces that meet are one.
LEMMA JoinPieces ==
    ASSUME NEW r \in 1 .. MaxRequests, NEW a \in Nat, a >= 1, NEW b \in Nat, b >= a - 1,
           NEW d \in Nat, d >= b
    PROVE  Piece(r, a, b) \o Piece(r, b + 1, d) = Piece(r, a, d)
<1> DEFINE p == Piece(r, a, b)
           q == Piece(r, b + 1, d)
           t == Piece(r, a, d)
<1>1. /\ p \in Seq(Bytes) /\ Len(p) = b - a + 1
      /\ \A x \in 1 .. b - a + 1 : p[x] = [req |-> r, place |-> a + x - 1]
  BY PieceSeq
<1>2. /\ q \in Seq(Bytes) /\ Len(q) = d - b
      /\ \A x \in 1 .. d - b : q[x] = [req |-> r, place |-> b + x]
  <2>1. PICK e \in Nat : e = b + 1 /\ e >= 1 /\ d >= e - 1 /\ d - e + 1 = d - b
    OBVIOUS
  <2>2. /\ Piece(r, e, d) \in Seq(Bytes) /\ Len(Piece(r, e, d)) = d - e + 1
        /\ \A x \in 1 .. d - e + 1 : Piece(r, e, d)[x] = [req |-> r, place |-> e + x - 1]
    BY <2>1, PieceSeq
  <2>3. \A x \in 1 .. d - b : e + x - 1 = b + x
    BY <2>1
  <2> QED BY <2>1, <2>2, <2>3
<1>3. /\ t \in Seq(Bytes) /\ Len(t) = d - a + 1
      /\ \A x \in 1 .. d - a + 1 : t[x] = [req |-> r, place |-> a + x - 1]
  BY PieceSeq, d >= a - 1
<1> HIDE DEF p, q, t
<1>4. /\ p \o q \in Seq(Bytes) /\ Len(p \o q) = Len(p) + Len(q)
      /\ \A x \in 1 .. Len(p) + Len(q) : (p \o q)[x] =
             IF x <= Len(p) THEN p[x] ELSE q[x - Len(p)]
  BY <1>1, <1>2, ConcatProperties
<1>5. Len(p \o q) = Len(t)
  BY <1>1, <1>2, <1>3, <1>4
<1>6. ASSUME NEW x \in 1 .. Len(p \o q) PROVE (p \o q)[x] = t[x]
  <2>1. x \in 1 .. d - a + 1 /\ t[x] = [req |-> r, place |-> a + x - 1]
    BY <1>3, <1>5
  <2>2. CASE x <= b - a + 1
    BY <1>1, <1>2, <1>4, <2>1, <2>2
  <2>3. CASE x > b - a + 1
    <3>1. PICK y \in Int : y = x - (b - a + 1) /\ b + y = a + x - 1 /\ y \in 1 .. d - b
      <4>1. x \in Int /\ x <= d - a + 1
        BY <2>1
      <4> QED BY <2>3, <4>1
    <3>2. (p \o q)[x] = q[y]
      <4>1. x \in 1 .. Len(p) + Len(q) /\ ~(x <= Len(p)) /\ x - Len(p) = y
        BY <1>1, <1>2, <2>1, <2>3, <3>1
      <4> QED BY <1>4, <4>1
    <3> QED BY <1>2, <2>1, <3>1, <3>2
  <2> QED BY <2>1, <2>2, <2>3
<1>7. p \o q = t
  BY <1>3, <1>4, <1>5, <1>6, SeqEqual
<1> QED BY <1>7 DEF p, q, t

-----------------------------------------------------------------------------
(* What the server makes of them.                                           *)

\* The blank line is found as soon as, and where, it has come.
LEMMA HeaderEndOfPiece ==
    ASSUME NEW r \in 1 .. MaxRequests, NEW k \in Nat, NEW from \in {0, 1}
    PROVE  HeaderEnd(Piece(r, 1, k), from) = IF k < 2 THEN -1 ELSE 2
<1> DEFINE b == Piece(r, 1, k)
           ends == {i \in from + 1 .. Len(b) : b[i].place = 2}
<1>1. Len(b) = k /\ \A i \in 1 .. k : b[i] = [req |-> r, place |-> i]
  BY PrefixSeq
<1>2. HeaderEnd(b, from) = IF ends = {} \/ 1 \in ends THEN -1
                           ELSE CHOOSE i \in ends : \A j \in ends : i <= j
  BY DEF HeaderEnd, Least
<1> HIDE DEF b
<1>3. ends = IF k < 2 THEN {} ELSE {2}
  BY <1>1
<1> HIDE DEF ends
<1>4. CASE k < 2
  BY <1>2, <1>3, <1>4 DEF b
<1>5. CASE k >= 2
  <2>1. \A i \in {2} : (\A j \in {2} : i <= j) /\ i = 2
    OBVIOUS
  <2> QED BY <1>2, <1>3, <1>5, <2>1 DEF b
<1> QED BY <1>4, <1>5

\* There is no second header in a request.
LEMMA NoSecondHeader ==
    ASSUME NEW r \in 1 .. MaxRequests, NEW k \in Nat, NEW from \in Nat, from >= 2
    PROVE  HeaderEnd(Piece(r, 1, k), from) = -1
<1> DEFINE b == Piece(r, 1, k)
           ends == {i \in from + 1 .. Len(b) : b[i].place = 2}
<1>1. Len(b) = k /\ \A i \in 1 .. k : b[i] = [req |-> r, place |-> i]
  BY PrefixSeq
<1>2. HeaderEnd(b, from) = IF ends = {} \/ 1 \in ends THEN -1
                           ELSE CHOOSE i \in ends : \A j \in ends : i <= j
  BY DEF HeaderEnd, Least
<1> HIDE DEF b
<1>3. ends = {}
  BY <1>1
<1> QED BY <1>2, <1>3 DEF b

\* generate() finds one request in the bytes of one, and comes to its end.
LEMMA GenerateOne ==
    ASSUME NEW r \in 1 .. MaxRequests, NEW n \in Nat, sent[r].len = n, n + 2 <= IntMax
    PROVE  generate(Piece(r, 1, n + 2)) = [reqs |-> <<Piece(r, 1, n + 2)>>, back |-> FALSE]
<1> DEFINE b == Piece(r, 1, n + 2)
           E(from) == HeaderEnd(b, from)
           N(from) == Header(b, from, E(from)).len
           One(from) == <<SubSeq(b, from + 1, BodyEnd(b, E(from), N(from)))>>
           None == [reqs |-> <<>>, back |-> FALSE]
           Step(g, from) == IF E(from) = -1 THEN None
                            ELSE IF N(from) > IntMax - E(from)
                            THEN [reqs |-> One(from), back |-> TRUE]
                            ELSE [reqs |-> One(from) \o g[E(from) + N(from)].reqs,
                                  back |-> g[E(from) + N(from)].back]
           cut == CHOOSE g : g = [from \in Nat |-> Step(g, from)]
<1>1. generate(b) = cut[0]
  BY DEF generate
<1>2. /\ E(0) = 2 /\ N(0) = n /\ E(1) = 2 /\ N(1) = 0
      /\ One(0) = <<SubSeq(b, 0 + 1, n + 2)>>
      /\ \A from \in Nat : from >= 2 => E(from) = -1
  <2>1. Len(b) = n + 2 /\ b[2] = [req |-> r, place |-> 2]
    BY PrefixSeq, n + 2 \in Nat, 2 \in 1 .. n + 2
  <2>2. \A from \in {0, 1} : E(from) = 2
    BY HeaderEndOfPiece, n + 2 \in Nat, ~(n + 2 < 2)
  <2>3. \A from \in Nat : from >= 2 => E(from) = -1
    BY NoSecondHeader, n + 2 \in Nat
  <2>4. N(0) = n /\ N(1) = 0
    BY <2>1, <2>2 DEF Header
  <2>5. BodyEnd(b, 2, n) = n + 2
    BY <2>1, FramingAssumptions DEF BodyEnd
  <2> QED BY <2>2, <2>3, <2>4, <2>5
<1>3. SubSeq(b, 0 + 1, n + 2) = b
  <2>1. b \in Seq(Bytes) /\ Len(b) = n + 2
    BY PrefixSeq, n + 2 \in Nat
  <2> QED BY <2>1, SubSeqFull
<1> HIDE DEF b, E, N, One
<1>4. \E g : g = [from \in Nat |-> Step(g, from)]
  <2> DEFINE z == [x \in Nat |-> None]
             h == [from \in Nat |-> Step(z, from)]
  <2>1. \A from \in Nat : from = 0 \/ from = 1 \/ from >= 2
    OBVIOUS
  <2>2. \A from \in Nat : from >= 2 => h[from] = None
    BY <1>2
  <2>3. \A from \in Nat : E(from) = -1 \/ (E(from) + N(from) \in Nat /\ E(from) + N(from) >= 2)
    BY <1>2, <2>1
  <2>4. \A from \in Nat : E(from) = -1 \/ h[E(from) + N(from)] = z[E(from) + N(from)]
    BY <2>2, <2>3
  <2> HIDE DEF z
  <2>5. \A from \in Nat : Step(z, from) = Step(h, from)
    BY <2>4
  <2>6. h = [from \in Nat |-> Step(h, from)]
    BY <2>5
  <2> QED BY <2>6
<1>5. cut = [from \in Nat |-> Step(cut, from)]
  BY <1>4
<1> HIDE DEF cut
<1>6. cut[n + 2] = None
  BY <1>2, <1>5, n + 2 \in Nat
<1>7. cut[0] = [reqs |-> One(0) \o cut[n + 2].reqs, back |-> cut[n + 2].back]
  <2>1. cut[0] = Step(cut, 0)
    BY <1>5
  <2>2. E(0) = 2 /\ N(0) = n /\ 2 # -1 /\ 2 + n = n + 2 /\ ~(n > IntMax - 2)
    BY <1>2, FramingAssumptions
  <2> QED BY <2>1, <2>2
<1>8. <<b>> \o <<>> = <<b>>
  BY <<b>> \in Seq({b}), ConcatEmptySeq
<1>9. cut[n + 2].reqs = <<>> /\ cut[n + 2].back = FALSE /\ One(0) = <<b>>
  BY <1>2, <1>3, <1>6
<1>10. cut[0] = [reqs |-> <<b>>, back |-> FALSE]
  BY <1>7, <1>8, <1>9
<1> QED BY <1>1, <1>10 DEF b

-----------------------------------------------------------------------------
(* The steps.                                                               *)

\* The header of a request under way.
LEMMA BodyFacts ==
    ASSUME NEW h \in Headers
    PROVE  /\ h.len \in Nat /\ Body(h) \in Nat /\ Body(h) <= h.len
           /\ Body(h) = h.len => h.len + 2 <= IntMax
BY FramingAssumptions DEF Body

\* A client that waits sends into an idle connection.
LEMMA SendKeeps ==
    ASSUME OneAtATime, ~pipelining, NEW h \in Headers, ClientSends(h)
    PROVE  OneAtATime'
<1>0. PICK r : r = Len(sent) + 1
  OBVIOUS
<1> PICK n \in Nat, m \in Nat : n = h.len /\ m = Body(h)
  BY BodyFacts
<1>1. /\ sent \in Seq(Headers) /\ Len(sent) \in Nat /\ Len(served) \in Nat
      /\ r \in 1 .. MaxRequests /\ Len(served) = Len(sent) /\ state # "over"
  BY <1>0, LenProperties, FramingAssumptions DEF OneAtATime, ClientSends, Alive
<1>2. Waits
  BY <1>1 DEF OneAtATime
<1>3. /\ sent' \in Seq(Headers) /\ Len(sent') = r /\ sent'[r] = h
      /\ \A i \in 1 .. Len(sent) : sent'[i] = sent[i]
  BY <1>0, <1>1, AppendProperties DEF ClientSends
<1>4. UNCHANGED <<kind, buffer, file, lengthToRead, state, served>>
  BY DEF ClientSends, conn
<1>5. wire' = Piece(r, 1, m + 2)
  <2>1. wire' = wire \o Request(r, m)
    BY <1>0 DEF ClientSends, Body
  <2>2. Request(r, m) = Piece(r, 1, m + 2)
    BY RequestPiece
  <2>3. Piece(r, 1, m + 2) \in Seq(Bytes)
    BY <1>1, PrefixSeq, m + 2 \in Nat
  <2> QED BY <1>2, <2>1, <2>2, <2>3, ConcatEmptySeq DEF Waits
<1>6. Piece(r, 1, 0) = <<>>
  BY <1>1, PrefixSeq, EmptySeq, 0 \in Nat
<1>7. Underway(r, n, m, 0)'
  BY <1>2, <1>4, <1>5, <1>6 DEF Underway, Waits
<1>8. \E k \in 0 .. Body(sent'[Len(sent')]) + 2 :
         Underway(Len(sent), sent[Len(sent)].len, Body(sent[Len(sent)]), k)'
  <2>1. sent'[Len(sent')].len = n /\ Body(sent'[Len(sent')]) = m
    BY <1>3
  <2>2. Underway(Len(sent), sent[Len(sent)].len, Body(sent[Len(sent)]), 0)'
    BY <1>3, <1>7, <2>1 DEF Underway
  <2> QED BY <2>1, <2>2, 0 \in 0 .. m + 2
<1>9. Exact'
  BY <1>0, <1>1, <1>3, <1>4 DEF Exact, OneAtATime
<1> QED BY <1>0, <1>1, <1>3, <1>4, <1>8, <1>9 DEF OneAtATime

\* What is under way is the last request.
LEMMA TheRequest ==
    ASSUME OneAtATime, Alive, ~Waits
    PROVE  \E r \in 1 .. MaxRequests, n \in Nat, m \in Nat, k \in Nat :
               /\ r = Len(sent) /\ Len(sent) = Len(served) + 1
               /\ sent[r] \in Headers /\ sent[r].len = n /\ m <= n
               /\ m = n => n + 2 <= IntMax
               /\ m = Body(sent[r]) /\ k <= m + 2
               /\ Underway(r, n, m, k)
<1>1. /\ Len(sent) = Len(served) + 1 /\ Len(sent) \in Nat /\ Len(served) \in Nat
      /\ \E k \in 0 .. Body(sent[Len(sent)]) + 2 :
            Underway(Len(sent), sent[Len(sent)].len, Body(sent[Len(sent)]), k)
  BY LenProperties DEF OneAtATime, Alive
<1>2. PICK r \in 1 .. MaxRequests : r = Len(sent) /\ sent[r] \in Headers
  <2>1. Len(sent) \in 1 .. Len(sent) /\ Len(sent) \in 1 .. MaxRequests
    BY <1>1, FramingAssumptions DEF OneAtATime
  <2>2. sent[Len(sent)] \in Headers
    BY <2>1, ElementOfSeq DEF OneAtATime
  <2> QED BY <2>1, <2>2
<1>3. PICK n \in Nat, m \in Nat : /\ sent[r].len = n /\ m = Body(sent[r]) /\ m <= n
                                  /\ m = n => n + 2 <= IntMax
  BY <1>2, BodyFacts
<1>4. PICK k \in 0 .. m + 2 : Underway(r, n, m, k)
  BY <1>1, <1>2, <1>3
<1> QED BY <1>1, <1>2, <1>3, <1>4

\* What the server receives is the next piece of the request under way.
LEMMA NextPiece ==
    ASSUME OneAtATime, Alive, NEW j \in 1 .. Len(wire)
    PROVE  \E r \in 1 .. MaxRequests, n \in Nat, m \in Nat, k \in Nat, d \in Nat :
               /\ r = Len(sent) /\ Len(sent) = Len(served) + 1
               /\ sent[r] \in Headers /\ sent[r].len = n /\ m = Body(sent[r]) /\ m <= n
               /\ d = k + j /\ d > k /\ d <= m + 2
               /\ Underway(r, n, m, k)
               /\ SubSeq(wire, 1, j) = Piece(r, k + 1, d)
               /\ SubSeq(wire, j + 1, Len(wire)) = Piece(r, d + 1, m + 2)
<1>1. wire # <<>> /\ ~Waits
  BY EmptySeq DEF Waits
<1>2. PICK r \in 1 .. MaxRequests, n \in Nat, m \in Nat, k \in Nat :
          /\ r = Len(sent) /\ Len(sent) = Len(served) + 1
          /\ sent[r] \in Headers /\ sent[r].len = n /\ m <= n
          /\ m = Body(sent[r]) /\ k <= m + 2
          /\ Underway(r, n, m, k)
  BY <1>1, TheRequest
<1>5. PICK a \in Nat, b \in Nat :
          a = k + 1 /\ b = m + 2 /\ a >= 1 /\ b >= a - 1 /\ b - a + 1 = m + 2 - k
  <2>1. k + 1 \in Nat /\ m + 2 \in Nat /\ k + 1 >= 1 /\ m + 2 >= k + 1 - 1
    BY <1>2
  <2> QED BY <2>1
<1>6. wire = Piece(r, a, b) /\ Len(wire) = m + 2 - k
  <2>1. wire = Piece(r, a, b)
    BY <1>2, <1>5 DEF Underway
  <2>2. Len(Piece(r, a, b)) = b - a + 1
    BY <1>5, PieceSeq
  <2> QED BY <1>5, <2>1, <2>2
<1>7. j \in Nat /\ j >= 1 /\ j <= m + 2 - k /\ k + j <= m + 2
  BY <1>2, <1>6
<1>8. SubSeq(wire, 1, j) = Piece(r, k + 1, k + j)
  <2>1. PICK i \in Nat, f \in Nat : i = 1 /\ f = k + j
    BY <1>7
  <2>2. i >= 1 /\ j >= i - 1 /\ j <= b - a + 1 /\ a = a + i - 1 /\ f = a + j - 1
    BY <1>5, <1>7, <2>1
  <2>3. Part(Piece(r, a, b), i, j) = Piece(r, a, f)
    BY <1>5, <1>7, <2>2, SubPiece
  <2> QED BY <1>5, <1>6, <2>1, <2>3 DEF Part
<1>9. SubSeq(wire, j + 1, Len(wire)) = Piece(r, k + j + 1, m + 2)
  <2>1. PICK i \in Nat, l \in Nat, e \in Nat : i = j + 1 /\ l = m + 2 - k /\ e = k + j + 1
    BY <1>7
  <2>2. i >= 1 /\ l >= i - 1 /\ l <= b - a + 1 /\ e = a + i - 1 /\ b = a + l - 1
    BY <1>5, <1>7, <2>1
  <2>3. Part(Piece(r, a, b), i, l) = Piece(r, e, b)
    BY <1>5, <2>2, SubPiece
  <2> QED BY <1>5, <1>6, <2>1, <2>3 DEF Part
<1>10. PICK d \in Nat : d = k + j /\ d > k /\ d <= m + 2
  BY <1>7
<1> QED BY <1>2, <1>7, <1>8, <1>9, <1>10

\* What the server then has is a piece again.
LEMMA LongerPiece ==
    ASSUME NEW r \in 1 .. MaxRequests, NEW k \in Nat, NEW d \in Nat, d > k
    PROVE  /\ Piece(r, 1, k) \o Piece(r, k + 1, d) = Piece(r, 1, d)
           /\ k >= 2 => Piece(r, 2, k) \o Piece(r, k + 1, d) = Piece(r, 2, d)
<1>1. ASSUME NEW a \in Nat, a >= 1, k >= a - 1
      PROVE  Piece(r, a, k) \o Piece(r, k + 1, d) = Piece(r, a, d)
  BY <1>1, d >= k, JoinPieces
<1>2. 1 \in Nat /\ 2 \in Nat /\ 1 >= 1 /\ 2 >= 1 /\ k >= 1 - 1 /\ (k >= 2 => k >= 2 - 1)
  OBVIOUS
<1> QED BY <1>1, <1>2

\* With its blank line it says what is missing.
LEMMA HeaderOfPiece ==
    ASSUME NEW r \in 1 .. MaxRequests, NEW d \in Nat, d >= 2, NEW n \in Nat, sent[r].len = n,
           d <= n + 2, NEW b, b = Piece(r, 1, d)
    PROVE  /\ Header(b, 0, 2) = sent[r] /\ Missing(b, 2) = n + 2 - d
           /\ Part(b, 2, d) = Piece(r, 2, d) /\ Len(b) = d
<1>1. Len(b) = d /\ b[2] = [req |-> r, place |-> 2]
  BY PrefixSeq, 2 \in 1 .. d
<1>2. Header(b, 0, 2) = sent[r]
  BY <1>1 DEF Header
<1>3. Missing(b, 2) = n + 2 - d
  BY <1>1, <1>2 DEF Missing
<1>4. PICK a \in Nat, i \in Nat : a = 1 /\ i = 2
  OBVIOUS
<1>5. /\ a >= 1 /\ d >= a - 1 /\ i >= 1 /\ d >= i - 1
      /\ d <= d - a + 1 /\ i = a + i - 1 /\ d = a + d - 1
  BY <1>4
<1>6. Part(Piece(r, a, d), i, d) = Piece(r, i, d)
  BY <1>5, SubPiece
<1> QED BY <1>1, <1>2, <1>3, <1>4, <1>6

\* Another piece of the same request leaves the connection in order.
LEMMA StillUnderway ==
    ASSUME OneAtATime, UNCHANGED <<kind, sent, served, state>>, Len(sent) = Len(served) + 1,
           NEW n, sent[Len(sent)].len = n, NEW m \in Nat, Body(sent[Len(sent)]) = m,
           NEW d \in Nat, d <= m + 2, Underway(Len(sent), n, m, d)'
    PROVE  OneAtATime'
<1>1. d \in 0 .. m + 2 /\ sent' = sent
  OBVIOUS
<1>2. Underway(Len(sent), sent[Len(sent)].len, Body(sent[Len(sent)]), d)'
  BY <1>1 DEF Underway, Body
<1>3. \E k \in 0 .. Body(sent'[Len(sent')]) + 2 :
         Underway(Len(sent), sent[Len(sent)].len, Body(sent[Len(sent)]), k)'
  BY <1>1, <1>2 DEF Body
<1>4. Exact'
  BY DEF OneAtATime, Exact
<1> QED BY <1>3, <1>4 DEF OneAtATime

\* So does the end of the connection, ...
LEMMA OverKeeps ==
    ASSUME OneAtATime, UNCHANGED <<kind, sent, served>>, state' = "over"
    PROVE  OneAtATime'
BY DEF OneAtATime, Exact

\* ... and a request that is dropped.
LEMMA DroppedKeeps ==
    ASSUME OneAtATime, UNCHANGED <<kind, sent, served>>, state' \in {"leaving", state},
           Len(sent) = Len(served) + 1, Waits'
    PROVE  OneAtATime'
BY DEF OneAtATime, Exact

\* The hybrid MPM receives.
LEMMA SeekKeeps ==
    ASSUME OneAtATime, NEW j \in 1 .. Len(wire), seekRecvBuffer(j)
    PROVE  OneAtATime'
<1>0. Alive
  BY DEF seekRecvBuffer
<1>1. PICK r \in 1 .. MaxRequests, n \in Nat, m \in Nat, k \in Nat, d \in Nat :
               /\ r = Len(sent) /\ Len(sent) = Len(served) + 1
               /\ sent[r] \in Headers /\ sent[r].len = n /\ m = Body(sent[r]) /\ m <= n
               /\ d = k + j /\ d > k /\ d <= m + 2
               /\ Underway(r, n, m, k)
               /\ SubSeq(wire, 1, j) = Piece(r, k + 1, d)
               /\ SubSeq(wire, j + 1, Len(wire)) = Piece(r, d + 1, m + 2)
  BY <1>0, NextPiece
<1>a. d = k + j /\ d > k /\ d <= m + 2 /\ m <= n /\ d <= n + 2 /\ j \in Nat
  BY <1>1
<1>2. PICK b : b = Piece(r, 1, d)
  OBVIOUS
<1>3. /\ Piece(r, 1, k) \o Piece(r, k + 1, d) = b
      /\ HeaderEnd(b, 0) = IF d < 2 THEN -1 ELSE 2
      /\ d >= 2 => Missing(b, 2) = n + 2 - d
  <2>1. Piece(r, 1, k) \o Piece(r, k + 1, d) = b
    BY <1>a, <1>2, LongerPiece
  <2>2. HeaderEnd(b, 0) = IF d < 2 THEN -1 ELSE 2
    BY <1>2, HeaderEndOfPiece, 0 \in {0, 1}
  <2>3. sent[r].len = n
    BY <1>1
  <2>4. d >= 2 => /\ Missing(b, 2) = n + 2 - d
                  /\ Part(b, 2, d) = Piece(r, 2, d) /\ Len(b) = d
    BY <1>a, <1>2, <2>3, HeaderOfPiece
  <2> QED BY <2>1, <2>2, <2>4
<1>4. file = NoFile /\ buffer = Piece(r, 1, k) /\ UNCHANGED <<kind, sent, file, served>>
  BY <1>1 DEF Underway, seekRecvBuffer, conn
<1>5. buffer \o SubSeq(wire, 1, j) = b
  BY <1>1, <1>3, <1>4
<1> DEFINE left == IF lengthToRead >= 0 THEN Less(lengthToRead, j)
                   ELSE IF HeaderEnd(b, 0) # -1 THEN Missing(b, HeaderEnd(b, 0)) ELSE -1
<1>6. /\ wire' = Piece(r, d + 1, m + 2)
      /\ \/ state' = "over"
         \/ left = 0 /\ state' \in {"leaving", state} /\ buffer' = <<>> /\ lengthToRead' = -1
         \/ buffer' = b /\ lengthToRead' = left /\ state' = state
  BY <1>1, <1>5 DEF seekRecvBuffer
<1>7. left = IF d < 2 THEN -1 ELSE n + 2 - d
  <2>1. CASE k >= 2
    <3>1. lengthToRead = n + 2 - k /\ lengthToRead >= 0
      BY <1>1, <2>1 DEF Underway
    <3>2. left = Less(lengthToRead, j)
      BY <3>1
    <3>3. d = k + j /\ d > k /\ d <= n + 2
      BY <1>1
    <3> HIDE DEF left
    <3> QED BY <2>1, <3>1, <3>2, <3>3 DEF Less
  <2>2. CASE k < 2
    <3>1. lengthToRead = -1
      BY <1>1, <2>2 DEF Underway
    <3>2. left = IF HeaderEnd(b, 0) # -1 THEN Missing(b, HeaderEnd(b, 0)) ELSE -1
      BY <3>1
    <3> HIDE DEF left
    <3> QED BY <1>3, <3>2
  <2> QED BY <2>1, <2>2
<1> HIDE DEF left
<1>8. CASE state' = "over"
  BY <1>4, <1>8, OverKeeps
<1>9. CASE left = 0 /\ state' \in {"leaving", state} /\ buffer' = <<>> /\ lengthToRead' = -1
  <2>1. d = n + 2 /\ d = m + 2
    BY <1>a, <1>7, <1>9
  <2>2. PICK a \in Nat : a = d + 1 /\ a >= 1 /\ a - 1 = m + 2
    BY <2>1
  <2>3. wire' = <<>>
    BY <1>6, <2>2, PieceEmpty
  <2>4. Waits'
    BY <1>4, <1>9, <2>3 DEF Waits
  <2> QED BY <1>1, <1>4, <1>9, <2>4, DroppedKeeps
<1>10. CASE buffer' = b /\ lengthToRead' = left /\ state' = state
  <2>1. Underway(r, n, m, d)'
    BY <1>2, <1>4, <1>6, <1>7, <1>10 DEF Underway
  <2> QED BY <1>1, <1>4, <1>10, <2>1, StillUnderway
<1> QED BY <1>6, <1>8, <1>9, <1>10

\* The thread MPM receives: into the buffer, or into the file once it is open.
LEMMA ReadRequestKeeps ==
    ASSUME OneAtATime, NEW j \in 1 .. Len(wire), readRequest(j)
    PROVE  OneAtATime'
<1>0. Alive
  BY DEF readRequest
<1>1. PICK r \in 1 .. MaxRequests, n \in Nat, m \in Nat, k \in Nat, d \in Nat :
               /\ r = Len(sent) /\ Len(sent) = Len(served) + 1
               /\ sent[r] \in Headers /\ sent[r].len = n /\ m = Body(sent[r]) /\ m <= n
               /\ d = k + j /\ d > k /\ d <= m + 2
               /\ Underway(r, n, m, k)
               /\ SubSeq(wire, 1, j) = Piece(r, k + 1, d)
               /\ SubSeq(wire, j + 1, Len(wire)) = Piece(r, d + 1, m + 2)
  BY <1>0, NextPiece
<1>a. d = k + j /\ d > k /\ d <= m + 2 /\ m <= n /\ d <= n + 2 /\ j \in Nat
  BY <1>1
<1>2. PICK b : b = Piece(r, 1, d)
  OBVIOUS
<1>3. /\ Piece(r, 1, k) \o Piece(r, k + 1, d) = b
      /\ k >= 2 => Piece(r, 2, k) \o Piece(r, k + 1, d) = Piece(r, 2, d)
      /\ HeaderEnd(b, 0) = IF d < 2 THEN -1 ELSE 2
      /\ d >= 2 => /\ Missing(b, 2) = n + 2 - d
                   /\ Part(b, 2, d) = Piece(r, 2, d) /\ Len(b) = d
  <2>1. /\ Piece(r, 1, k) \o Piece(r, k + 1, d) = b
        /\ k >= 2 => Piece(r, 2, k) \o Piece(r, k + 1, d) = Piece(r, 2, d)
    BY <1>a, <1>2, LongerPiece
  <2>2. HeaderEnd(b, 0) = IF d < 2 THEN -1 ELSE 2
    BY <1>2, HeaderEndOfPiece, 0 \in {0, 1}
  <2>3. sent[r].len = n
    BY <1>1
  <2>4. d >= 2 => /\ Missing(b, 2) = n + 2 - d
                  /\ Part(b, 2, d) = Piece(r, 2, d) /\ Len(b) = d
    BY <1>a, <1>2, <2>3, HeaderOfPiece
  <2> QED BY <2>1, <2>2, <2>4
<1>4. UNCHANGED <<kind, sent, served>> /\ kind = "thread" /\ wire' = Piece(r, d + 1, m + 2)
  BY <1>1 DEF readRequest, conn
<1>5. CASE k >= 2 /\ lengthToRead # 0
  <2>0. lengthToRead = n + 2 - k
    BY <1>1, <1>5 DEF Underway
  <2>1. lengthToRead = n + 2 - k /\ lengthToRead > 0
    BY <1>a, <2>0
  <2>2. /\ IF file # NoFile
           THEN file' = file \o SubSeq(wire, 1, j) /\ UNCHANGED buffer
           ELSE buffer' = buffer \o SubSeq(wire, 1, j) /\ UNCHANGED file
        /\ lengthToRead' = Less(lengthToRead, j)
        /\ state' = state
    BY <2>1 DEF readRequest
  <2>3. lengthToRead' = n + 2 - d
    BY <1>1, <2>1, <2>2 DEF Less
  <2>4. CASE file = NoFile
    <3>1. buffer = Piece(r, 1, k)
      <4>1. Piece(r, 2, k) # <<>>
        BY <1>5, PieceNotEmpty
      <4> QED BY <1>1, <2>4, <4>1 DEF Underway, NoFile
    <3>2. buffer' = b /\ file' = NoFile
      BY <1>1, <1>3, <2>2, <2>4, <3>1
    <3>3. Underway(r, n, m, d)'
      BY <1>1, <1>2, <1>4, <1>5, <2>3, <3>2 DEF Underway
    <3> QED BY <1>1, <1>4, <2>2, <3>3, StillUnderway
  <2>5. CASE file # NoFile
    <3>1. PICK p \in 2 .. k : file = Piece(r, 2, k) /\ buffer = Piece(r, 1, p)
      BY <1>1, <2>5 DEF Underway
    <3>2. file' = Piece(r, 2, d) /\ buffer' = Piece(r, 1, p) /\ p \in 2 .. d
      <4>1. file' = Piece(r, 2, k) \o Piece(r, k + 1, d) /\ buffer' = Piece(r, 1, p)
        BY <1>1, <2>2, <2>5, <3>1
      <4>2. p \in 2 .. d
        BY <1>1, <3>1
      <4> QED BY <1>3, <1>5, <4>1, <4>2
    <3>3. Underway(r, n, m, d)'
      BY <1>a, <1>4, <1>5, <2>3, <3>2 DEF Underway
    <3> QED BY <1>1, <1>4, <2>2, <3>3, StillUnderway
  <2> QED BY <2>4, <2>5
<1>6. CASE k < 2 /\ state' = "over"
  BY <1>4, <1>6, OverKeeps
<1>7. CASE k < 2 /\ state' # "over"
  <2>1. lengthToRead = -1 /\ file = NoFile /\ buffer = Piece(r, 1, k)
    BY <1>1, <1>7 DEF Underway
  <2>2. buffer \o SubSeq(wire, 1, j) = b
    BY <1>1, <1>3, <2>1
  <2>3. /\ buffer' = b
        /\ lengthToRead' = IF HeaderEnd(b, 0) = -1 THEN -1 ELSE Missing(b, HeaderEnd(b, 0))
        /\ \/ file' = file
           \/ HeaderEnd(b, 0) # -1 /\ file' = Part(b, HeaderEnd(b, 0), Len(b))
        /\ state' = state
    <3> DEFINE Took(s) ==
            /\ buffer' = s
            /\ lengthToRead' = IF HeaderEnd(s, 0) = -1 THEN -1 ELSE Missing(s, HeaderEnd(s, 0))
            /\ file' = IF HeaderEnd(s, 0) # -1 /\ Header(s, 0, HeaderEnd(s, 0)).len > Threshold
                       THEN SubSeq(s, HeaderEnd(s, 0), Len(s)) ELSE file
            /\ state' = state
    <3>1. ~(lengthToRead > 0) /\ lengthToRead # 0
      BY <2>1
    <3>2. Took(buffer \o SubSeq(wire, 1, j))
      BY <1>7, <3>1, Zenon DEF readRequest
    <3> HIDE DEF Took
    <3>3. Took(b)
      BY <2>2, <3>2
    <3> QED BY <3>3 DEF Took, Part
  <2>4. /\ lengthToRead' = IF d < 2 THEN -1 ELSE n + 2 - d
        /\ file' = NoFile \/ (d >= 2 /\ file' = Piece(r, 2, d))
    BY <1>3, <2>1, <2>3
  <2>5. Underway(r, n, m, d)'
    BY <1>2, <1>4, <2>3, <2>4, d >= 2 => d \in 2 .. d DEF Underway
  <2> QED BY <1>1, <1>4, <2>3, <2>5, StillUnderway
<1>8. k >= 2 => lengthToRead # 0
  <2>1. k >= 2 => lengthToRead = n + 2 - k
    BY <1>1 DEF Underway
  <2> QED BY <1>a, <2>1
<1> QED BY <1>5, <1>6, <1>7, <1>8

\* A request that is executed with the connection kept, or an Upgrade with which it ends.
LEMMA ExecutedOne ==
    ASSUME NEW q
    PROVE  Executed(<<q>>) = <<q>> \/ Executed(<<q>>) = <<>>
<1> DEFINE reqs == <<q>>
           ups == {i \in 1 .. Len(reqs) : Use(reqs[i]) # "plain"}
<1>1. Executed(reqs) = IF kind = "hybrid" \/ ups = {} THEN reqs
                       ELSE SubSeq(reqs, 1, Least(ups) - 1)
  BY DEF Executed
<1>2. ups = {} \/ ups = {1}
  <2>1. 1 .. Len(reqs) = {1}
    OBVIOUS
  <2> QED BY <2>1
<1> HIDE DEF ups
<1>3. CASE ups = {}
  BY <1>1, <1>3
<1>4. CASE ups = {1}
  <2>1. Least(ups) = 1
    <3>1. \A i \in {1} : (\A j \in {1} : i <= j) /\ i = 1
      OBVIOUS
    <3> QED BY <1>4, <3>1 DEF Least
  <2>2. SubSeq(reqs, 1, 1 - 1) = <<>>
    OBVIOUS
  <2> QED BY <1>1, <2>1, <2>2
<1> QED BY <1>2, <1>3, <1>4

\* A complete request is one.
LEMMA CompleteOne ==
    ASSUME OneAtATime, Alive, lengthToRead = 0
    PROVE  \E r \in 1 .. MaxRequests, n \in Nat :
               /\ r = Len(sent) /\ Len(sent) = Len(served) + 1 /\ sent[r].len = n
               /\ wire = <<>>
               /\ Complete = [reqs |-> <<Piece(r, 1, n + 2)>>, back |-> FALSE]
<1>1. PICK r \in 1 .. MaxRequests, n \in Nat, m \in Nat, k \in Nat :
               /\ r = Len(sent) /\ Len(sent) = Len(served) + 1
               /\ sent[r] \in Headers /\ sent[r].len = n /\ m <= n
               /\ m = n => n + 2 <= IntMax
               /\ m = Body(sent[r]) /\ k <= m + 2
               /\ Underway(r, n, m, k)
  BY TheRequest DEF Waits
<1>2. k = n + 2 /\ m = n
  BY <1>1 DEF Underway
<1>3. PICK d \in Nat : d = n + 2 /\ d = k /\ d >= 2 /\ Underway(r, n, m, d)
  BY <1>1, <1>2
<1>4. wire = <<>>
  <2>1. PICK a \in Nat : a = d + 1 /\ a >= 1 /\ a - 1 = m + 2
    BY <1>2, <1>3
  <2>2. Piece(r, a, a - 1) = <<>>
    BY <2>1, PieceEmpty
  <2> QED BY <1>3, <2>1, <2>2 DEF Underway
<1>5. CASE file = NoFile
  <2>1. Piece(r, 2, d) # <<>>
    BY <1>3, PieceNotEmpty
  <2>2. buffer = Piece(r, 1, n + 2)
    BY <1>3, <1>5, <2>1 DEF Underway, NoFile
  <2>3. generate(Piece(r, 1, n + 2)) = [reqs |-> <<Piece(r, 1, n + 2)>>, back |-> FALSE]
    BY <1>1, <1>2, GenerateOne
  <2> QED BY <1>1, <1>4, <1>5, <2>2, <2>3 DEF Complete
<1>6. CASE file # NoFile
  <2>1. PICK p \in 2 .. d : file = Piece(r, 2, d) /\ buffer = Piece(r, 1, p)
    BY <1>3, <1>6 DEF Underway
  <2>2. HeaderEnd(buffer, 0) = 2
    BY <2>1, HeaderEndOfPiece, 0 \in {0, 1}, p \in Nat, ~(p < 2)
  <2>3. SubSeq(buffer, 1, 2 - 1) = Piece(r, 1, 1)
    <3>1. PICK a \in Nat : a = 1
      OBVIOUS
    <3>2. /\ p \in Nat /\ a >= 1 /\ p >= a - 1 /\ a >= a - 1 /\ a <= p - a + 1
          /\ a = a + a - 1 /\ 2 - 1 = a
      BY <2>1, <3>1
    <3>3. Part(Piece(r, a, p), a, a) = Piece(r, a, a)
      BY <3>2, SubPiece
    <3> QED BY <2>1, <3>1, <3>2, <3>3 DEF Part
  <2>4. Piece(r, 1, 1) \o Piece(r, 2, d) = Piece(r, 1, d)
    <3>1. PICK a \in Nat : a = 1 /\ a >= 1 /\ a >= a - 1 /\ d >= a /\ a + 1 = 2
      BY <1>3
    <3>2. Piece(r, a, a) \o Piece(r, a + 1, d) = Piece(r, a, d)
      BY <3>1, JoinPieces
    <3> QED BY <3>1, <3>2
  <2>5. Complete = [reqs |-> <<Piece(r, 1, d)>>, back |-> FALSE]
    BY <1>6, <2>1, <2>2, <2>3, <2>4 DEF Complete
  <2> QED BY <1>1, <1>3, <1>4, <2>5
<1> QED BY <1>5, <1>6

\* generate() does not go back.
LEMMA NoGoingBack ==
    ASSUME OneAtATime, ReadGoesBack
    PROVE  FALSE
<1>1. Complete.back = FALSE
  BY CompleteOne DEF ReadGoesBack
<1> QED BY <1>1 DEF ReadGoesBack

\* A complete request is taken whole, and leaves the connection idle.
LEMMA ReadKeeps ==
    ASSUME OneAtATime, Read
    PROVE  OneAtATime'
<1>1. Alive /\ lengthToRead = 0
  BY DEF Read
<1>2. PICK r \in 1 .. MaxRequests, n \in Nat :
               /\ r = Len(sent) /\ Len(sent) = Len(served) + 1 /\ sent[r].len = n
               /\ wire = <<>>
               /\ Complete = [reqs |-> <<Piece(r, 1, n + 2)>>, back |-> FALSE]
  BY <1>1, CompleteOne
<1> PICK d \in Nat : d = n + 2
  OBVIOUS
<1>3. Complete.reqs = <<Piece(r, 1, d)>> /\ Len(sent) \in Nat /\ Len(served) \in Nat
  BY <1>2, LenProperties DEF OneAtATime
<1>4. /\ UNCHANGED <<kind, sent, wire>> /\ buffer' = <<>> /\ file' = NoFile
      /\ lengthToRead' = -1 /\ served' = served \o Executed(Complete.reqs)
      /\ state' \in {"over", state}
  BY DEF Read, conn
<1>5. Waits' /\ state' \in {"open", "leaving", "over"}
  BY <1>2, <1>4 DEF Waits, OneAtATime
<1>6. CASE Executed(Complete.reqs) = <<>>
  <2>1. served' = served
    BY <1>4, <1>6, ConcatEmptySeq DEF OneAtATime
  <2>2. Exact'
    BY <1>4, <2>1 DEF OneAtATime, Exact
  <2> QED BY <1>2, <1>4, <1>5, <2>1, <2>2 DEF OneAtATime
<1>7. CASE Executed(Complete.reqs) = <<Piece(r, 1, d)>>
  <2>1. /\ served' \in Seq(Seq(Bytes)) /\ Len(served') = Len(sent)
        /\ served'[r] = Request(r, n) /\ \A i \in 1 .. Len(served) : served'[i] = served[i]
    <3>1. Piece(r, 1, d) \in Seq(Bytes) /\ Piece(r, 1, d) = Request(r, n)
      BY PrefixSeq, RequestPiece
    <3>2. served' = Append(served, Piece(r, 1, d))
      BY <1>4, <1>7, <3>1, AppendIsConcat DEF OneAtATime
    <3> QED BY <1>2, <1>3, <3>1, <3>2, AppendProperties DEF OneAtATime
  <2>2. Exact'
    <3>1. ASSUME NEW i \in 1 .. Len(served') PROVE served'[i] = Request(i, sent'[i].len)
      <4>1. i \in 1 .. Len(served) \/ i = r
        BY <1>2, <1>3, <2>1
      <4>2. CASE i = r
        BY <1>2, <1>4, <2>1, <4>2
      <4>3. CASE i \in 1 .. Len(served)
        <5>1. served[i] = Request(i, sent[i].len)
          BY <4>3 DEF OneAtATime, Exact
        <5> QED BY <1>4, <2>1, <4>3, <5>1
      <4> QED BY <4>1, <4>2, <4>3
    <3>2. Len(served') <= Len(sent')
      <4>1. sent' = sent
        BY <1>4
      <4>2. Len(served') = Len(sent)
        BY <2>1
      <4>3. Len(sent) \in Nat
        BY <1>3
      <4> QED BY <4>1, <4>2, <4>3
    <3> QED BY <3>1, <3>2 DEF Exact
  <2> QED BY <1>3, <1>4, <1>5, <2>1, <2>2 DEF OneAtATime
<1> QED BY <1>3, <1>6, <1>7, ExecutedOne

-----------------------------------------------------------------------------
(* The theorem.                                                             *)

OrderlyFraming == ~pipelining => OneAtATime

\* A connection begins idle.
LEMMA InitFraming == Init => OrderlyFraming
<1> SUFFICES ASSUME Init PROVE OneAtATime
  BY DEF OrderlyFraming
<1>1. <<>> \in Seq(Headers) /\ <<>> \in Seq(Seq(Bytes)) /\ Len(<<>>) = 0
  BY EmptySeq
<1> QED BY <1>1, FramingAssumptions DEF Init, OneAtATime, Exact, Waits

\* Every step keeps one request under way at most.
LEMMA NextFraming == OrderlyFraming /\ [Next]_vars => OrderlyFraming'
<1> SUFFICES ASSUME OrderlyFraming, [Next]_vars, ~pipelining' PROVE OneAtATime'
  BY DEF OrderlyFraming
<1>1. ~pipelining /\ OneAtATime
  BY DEF OrderlyFraming, Next, vars, conn, ClientSends, seekRecvBuffer, readRequest, Leave,
     Read, ReadGoesBack
<1>2. CASE \E h \in Headers : ClientSends(h)
  BY <1>1, <1>2, SendKeeps
<1>3. CASE \E j \in 1 .. Len(wire) : seekRecvBuffer(j) \/ readRequest(j)
  BY <1>1, <1>3, SeekKeeps, ReadRequestKeeps
<1>4. CASE Read
  BY <1>1, <1>4, ReadKeeps
<1>5. CASE ReadGoesBack
  BY <1>1, <1>5, NoGoingBack
<1>6. CASE Leave
  BY <1>1, <1>6, OverKeeps DEF Leave, conn
<1>7. CASE UNCHANGED vars
  BY <1>1, <1>7 DEF vars, OneAtATime, Exact, Waits, Underway, Body
<1> QED BY <1>2, <1>3, <1>4, <1>5, <1>6, <1>7 DEF Next

\* However TCP cuts the stream, and whatever the lengths of the bodies, exactly
\* the requests of a client that waits for its responses are executed, in order,
\* by TEpollHttpSocket and by THttpSocket.
THEOREM RequestsAreExact == Spec => []FramingExact
<1>1. OrderlyFraming => FramingExact
  BY DEF OrderlyFraming, OneAtATime, FramingExact
<1> QED BY <1>1, InitFraming, NextFraming, PTL DEF Spec

-----------------------------------------------------------------------------
(* Clients that pipeline: the order of the bytes.                           *)

\* Induction over the numbers, for a set of them: a set that has each number all of
\* whose predecessors it has, has them all.  (A set without a number has a least one
\* that it is without.)
LEMMA StrongSetInduction ==
    ASSUME NEW T,
           \A n \in Nat : (\A m \in Nat : m < n => m \in T) => n \in T
    PROVE  \A n \in Nat : n \in T
<1>1. SUFFICES ASSUME Nat \ T # {} PROVE FALSE
  OBVIOUS
<1>2. PICK n \in Nat \ T : \A y \in Nat \ T : ~(<<y, n>> \in OpToRel(<, Nat))
  <2>1. IsWellFoundedOn(OpToRel(<, Nat), Nat)
    BY NatLessThanWellFounded
  <2> HIDE DEF OpToRel
  <2>2. Nat \ T \subseteq Nat
    OBVIOUS
  <2> QED  BY <1>1, <2>1, <2>2, WFMin, Zenon
<1>3. \A y \in Nat \ T : ~(y < n)
  BY <1>2 DEF OpToRel
<1> QED  BY <1>3

\* The same from each number to the next.
LEMMA SetInduction ==
    ASSUME NEW T, 0 \in T, \A n \in Nat : n \in T => n + 1 \in T
    PROVE  \A n \in Nat : n \in T
<1>1. ASSUME NEW n \in Nat, \A m \in Nat : m < n => m \in T
      PROVE  n \in T
  <2>1. CASE n = 0
    BY <2>1
  <2>2. CASE n # 0
    <3>1. n - 1 \in Nat /\ n - 1 < n /\ (n - 1) + 1 = n
      BY <2>2
    <3> QED  BY <3>1, <1>1
  <2> QED  BY <2>1, <2>2
<1> QED  BY <1>1, StrongSetInduction

\* The order of the bytes in the client's stream.
Before(x, y) == x.req < y.req \/ (x.req = y.req /\ x.place < y.place)

Sorted(s) == \A i, j \in 1 .. Len(s) : i < j => Before(s[i], s[j])

Elems(s) == {s[i] : i \in 1 .. Len(s)}

AllBefore(S, T) == \A x \in S, y \in T : Before(x, y)

\* Bytes in order put behind earlier bytes in order.
LEMMA ConcatSorted ==
    ASSUME NEW s \in Seq(Bytes), NEW t \in Seq(Bytes)
    PROVE  /\ s \o t \in Seq(Bytes)
           /\ Elems(s \o t) = Elems(s) \cup Elems(t)
           /\ Sorted(s) /\ Sorted(t) /\ AllBefore(Elems(s), Elems(t)) => Sorted(s \o t)
<1> PICK u : u = s \o t
  OBVIOUS
<1> PICK m \in Nat, n \in Nat : m = Len(s) /\ n = Len(t)
  BY LenProperties
<1>1. /\ u \in Seq(Bytes) /\ Len(u) = m + n
      /\ \A i \in 1 .. m + n : u[i] = IF i <= m THEN s[i] ELSE t[i - m]
  BY ConcatProperties
<1>2. /\ \A i \in 1 .. m : i \in 1 .. m + n /\ u[i] = s[i]
      /\ \A i \in 1 .. n : i + m \in 1 .. m + n /\ u[i + m] = t[i]
  BY <1>1
<1>3. \A i \in 1 .. m + n : i \in 1 .. m \/ (i - m \in 1 .. n /\ (i - m) + m = i)
  OBVIOUS
<1>4. Elems(u) = Elems(s) \cup Elems(t)
  <2>1. Elems(u) \subseteq Elems(s) \cup Elems(t)
    BY <1>1, <1>2, <1>3 DEF Elems
  <2>2. Elems(s) \subseteq Elems(u)
    BY <1>1, <1>2 DEF Elems
  <2>3. Elems(t) \subseteq Elems(u)
    BY <1>1, <1>2 DEF Elems
  <2> QED BY <2>1, <2>2, <2>3
<1>5. ASSUME Sorted(s), Sorted(t), AllBefore(Elems(s), Elems(t)) PROVE Sorted(u)
  <2> SUFFICES ASSUME NEW i \in 1 .. m + n, NEW j \in 1 .. m + n, i < j PROVE Before(u[i], u[j])
    BY <1>1 DEF Sorted
  <2>1. CASE j <= m
    BY <1>2, <1>5, <2>1 DEF Sorted
  <2>2. CASE i <= m /\ j > m
    <3>1. j - m \in 1 .. n /\ u[j] = t[j - m] /\ u[i] = s[i] /\ i \in 1 .. m
      BY <1>1, <2>2
    <3> QED BY <1>5, <3>1 DEF AllBefore, Elems
  <2>3. CASE i > m
    <3>1. /\ j - m \in 1 .. n /\ u[j] = t[j - m] /\ i - m \in 1 .. n /\ u[i] = t[i - m]
          /\ i - m < j - m
      BY <1>1, <2>3
    <3> QED BY <1>5, <3>1 DEF Sorted
  <2> QED BY <2>1, <2>2, <2>3
<1> QED BY <1>1, <1>4, <1>5

\* A part of bytes in order.
LEMMA PartSorted ==
    ASSUME NEW s \in Seq(Bytes), Sorted(s), NEW i \in Nat, i >= 1, NEW j \in Int, j <= Len(s)
    PROVE  /\ Part(s, i, j) \in Seq(Bytes) /\ Sorted(Part(s, i, j))
           /\ Elems(Part(s, i, j)) = {s[x] : x \in i .. j}
           /\ Elems(Part(s, i, j)) \subseteq Elems(s)
<1> PICK u : u = Part(s, i, j)
  OBVIOUS
<1>0. (IF i <= j THEN j - i + 1 ELSE 0) \in Nat
  OBVIOUS
<1> PICK n \in Nat : n = IF i <= j THEN j - i + 1 ELSE 0
  BY <1>0
<1> PICK l \in Nat : l = Len(s)
  BY LenProperties
<1>1. \A x \in i .. j : s[x] \in Bytes /\ x \in 1 .. l
  BY ElementOfSeq
<1>2. u \in Seq(Bytes) /\ Len(u) = n /\ \A x \in 1 .. n : u[x] = s[i + x - 1]
  BY <1>1, SubSeqProperties DEF Part
<1>3. /\ \A x \in 1 .. n : i + x - 1 \in i .. j
      /\ \A x \in i .. j : x - i + 1 \in 1 .. n /\ i + (x - i + 1) - 1 = x
  OBVIOUS
<1>4. Elems(u) = {s[x] : x \in i .. j}
  <2>1. \A x \in i .. j : u[x - i + 1] = s[x]
    BY <1>2, <1>3
  <2>2. {s[x] : x \in i .. j} \subseteq {u[x] : x \in 1 .. n}
    BY <1>3, <2>1
  <2>3. {u[x] : x \in 1 .. n} \subseteq {s[x] : x \in i .. j}
    BY <1>2, <1>3
  <2> QED BY <1>2, <2>2, <2>3 DEF Elems
<1>5. Elems(u) \subseteq Elems(s)
  BY <1>1, <1>4 DEF Elems
<1>6. Sorted(u)
  <2> SUFFICES ASSUME NEW x \in 1 .. n, NEW y \in 1 .. n, x < y PROVE Before(u[x], u[y])
    BY <1>2 DEF Sorted
  <2>1. i + x - 1 \in 1 .. l /\ i + y - 1 \in 1 .. l /\ i + x - 1 < i + y - 1
    BY <1>1, <1>3
  <2> QED BY <1>2, <2>1 DEF Sorted
<1> QED BY <1>2, <1>4, <1>5, <1>6

\* What is left is after what is taken.
LEMMA CutSorted ==
    ASSUME NEW s \in Seq(Bytes), Sorted(s), NEW k \in 0 .. Len(s), NEW e \in Nat, e = k + 1
    PROVE  /\ Part(s, 1, k) \in Seq(Bytes) /\ Part(s, e, Len(s)) \in Seq(Bytes)
           /\ Sorted(Part(s, 1, k)) /\ Sorted(Part(s, e, Len(s)))
           /\ Elems(Part(s, 1, k)) \subseteq Elems(s)
           /\ Elems(Part(s, e, Len(s))) \subseteq Elems(s)
           /\ AllBefore(Elems(Part(s, 1, k)), Elems(Part(s, e, Len(s))))
<1> PICK l \in Nat : l = Len(s)
  BY LenProperties
<1> PICK a \in Nat : a = 1
  OBVIOUS
<1>1. /\ Part(s, a, k) \in Seq(Bytes) /\ Sorted(Part(s, a, k))
      /\ Elems(Part(s, a, k)) = {s[x] : x \in a .. k}
      /\ Elems(Part(s, a, k)) \subseteq Elems(s)
  BY PartSorted, k \in Int, k <= Len(s), a >= 1
<1>2. /\ Part(s, e, l) \in Seq(Bytes) /\ Sorted(Part(s, e, l))
      /\ Elems(Part(s, e, l)) = {s[x] : x \in e .. l}
      /\ Elems(Part(s, e, l)) \subseteq Elems(s)
  BY PartSorted, l \in Int, l <= Len(s), e >= 1
<1>3. AllBefore({s[x] : x \in a .. k}, {s[x] : x \in e .. l})
  <2> SUFFICES ASSUME NEW x \in a .. k, NEW y \in e .. l PROVE Before(s[x], s[y])
    BY DEF AllBefore
  <2>1. x \in 1 .. l /\ y \in 1 .. l /\ x < y
    OBVIOUS
  <2> QED BY <2>1 DEF Sorted
<1> QED BY <1>1, <1>2, <1>3
-----------------------------------------------------------------------------
(* Requests, and generate().                                                *)

\* Requests, each of bytes in order, and each after the one before it.
InOrder(ss) ==
    /\ \A q \in 1 .. Len(ss) : Sorted(ss[q])
    /\ \A q, r \in 1 .. Len(ss) : q < r => AllBefore(Elems(ss[q]), Elems(ss[r]))

AllBytes(ss) == UNION {Elems(ss[q]) : q \in 1 .. Len(ss)}

\* Requests in order, put one after the other, are in order.
LEMMA ConcatInOrder ==
    ASSUME NEW ss \in Seq(Seq(Bytes)), NEW tt \in Seq(Seq(Bytes))
    PROVE  /\ ss \o tt \in Seq(Seq(Bytes))
           /\ AllBytes(ss \o tt) = AllBytes(ss) \cup AllBytes(tt)
           /\ InOrder(ss) /\ InOrder(tt) /\ AllBefore(AllBytes(ss), AllBytes(tt))
                 => InOrder(ss \o tt)
<1> PICK u : u = ss \o tt
  OBVIOUS
<1> PICK m \in Nat, n \in Nat : m = Len(ss) /\ n = Len(tt)
  BY LenProperties
<1>1. /\ u \in Seq(Seq(Bytes)) /\ Len(u) = m + n
      /\ \A i \in 1 .. m + n : u[i] = IF i <= m THEN ss[i] ELSE tt[i - m]
  BY ConcatProperties
<1>2. /\ \A i \in 1 .. m : i \in 1 .. m + n /\ u[i] = ss[i]
      /\ \A i \in 1 .. n : i + m \in 1 .. m + n /\ u[i + m] = tt[i]
  BY <1>1
<1>3. \A i \in 1 .. m + n : \/ i \in 1 .. m /\ u[i] = ss[i]
                            \/ i - m \in 1 .. n /\ u[i] = tt[i - m]
  BY <1>1
<1>4. AllBytes(u) = AllBytes(ss) \cup AllBytes(tt)
  <2>1. AllBytes(u) \subseteq AllBytes(ss) \cup AllBytes(tt)
    BY <1>1, <1>3 DEF AllBytes
  <2>2. AllBytes(ss) \subseteq AllBytes(u)
    BY <1>1, <1>2 DEF AllBytes
  <2>3. AllBytes(tt) \subseteq AllBytes(u)
    <3>1. \A i \in 1 .. n : Elems(tt[i]) \in {Elems(u[q]) : q \in 1 .. Len(u)}
      BY <1>1, <1>2
    <3> QED BY <3>1 DEF AllBytes
  <2> QED BY <2>1, <2>2, <2>3
<1>5. ASSUME InOrder(ss), InOrder(tt), AllBefore(AllBytes(ss), AllBytes(tt)) PROVE InOrder(u)
  <2>1. \A q \in 1 .. m + n : Sorted(u[q])
    BY <1>3, <1>5 DEF InOrder
  <2>2. ASSUME NEW i \in 1 .. m + n, NEW j \in 1 .. m + n, i < j
        PROVE  AllBefore(Elems(u[i]), Elems(u[j]))
    <3>1. CASE j <= m
      BY <1>2, <1>5, <2>2, <3>1 DEF InOrder
    <3>2. CASE i <= m /\ j > m
      <4>1. j - m \in 1 .. n /\ u[j] = tt[j - m] /\ u[i] = ss[i] /\ i \in 1 .. m
        BY <1>1, <3>2
      <4>2. Elems(u[i]) \subseteq AllBytes(ss) /\ Elems(u[j]) \subseteq AllBytes(tt)
        BY <4>1 DEF AllBytes
      <4> QED BY <1>5, <4>2 DEF AllBefore
    <3>3. CASE i > m
      <4>1. /\ j - m \in 1 .. n /\ u[j] = tt[j - m] /\ i - m \in 1 .. n /\ u[i] = tt[i - m]
            /\ i - m < j - m
        BY <1>1, <2>2, <3>3
      <4> QED BY <1>5, <4>1 DEF InOrder
    <3> QED BY <3>1, <3>2, <3>3
  <2> QED BY <1>1, <2>1, <2>2 DEF InOrder
<1> QED BY <1>1, <1>4, <1>5

\* One request is in order if its bytes are.
LEMMA OneInOrder ==
    ASSUME NEW s \in Seq(Bytes)
    PROVE  <<s>> \in Seq(Seq(Bytes)) /\ AllBytes(<<s>>) = Elems(s) /\ (Sorted(s) => InOrder(<<s>>))
<1>1. <<s>> \in Seq(Seq(Bytes)) /\ Len(<<s>>) = 1 /\ <<s>>[1] = s
  OBVIOUS
<1>2. 1 .. Len(<<s>>) = {1}
  BY <1>1
<1>3. AllBytes(<<s>>) = Elems(s)
  BY <1>1, <1>2 DEF AllBytes
<1>4. Sorted(s) => InOrder(<<s>>)
  BY <1>1, <1>2 DEF InOrder
<1> QED BY <1>1, <1>3, <1>4

\* No request is.
LEMMA NoneInOrder == <<>> \in Seq(Seq(Bytes)) /\ AllBytes(<<>>) = {} /\ InOrder(<<>>)
BY EmptySeq DEF AllBytes, InOrder

\* The first requests of some.
LEMMA PrefixInOrder ==
    ASSUME NEW ss \in Seq(Seq(Bytes)), InOrder(ss), NEW k \in 0 .. Len(ss)
    PROVE  /\ Part(ss, 1, k) \in Seq(Seq(Bytes)) /\ InOrder(Part(ss, 1, k))
           /\ AllBytes(Part(ss, 1, k)) \subseteq AllBytes(ss)
<1> PICK u : u = Part(ss, 1, k)
  OBVIOUS
<1> PICK l \in Nat : l = Len(ss)
  BY LenProperties
<1>1. k \in Nat /\ \A i \in 1 .. k : i \in 1 .. l /\ ss[i] \in Seq(Bytes)
  BY ElementOfSeq
<1>2. u \in Seq(Seq(Bytes)) /\ Len(u) = k /\ \A i \in 1 .. k : u[i] = ss[i]
  <2>1. PICK a \in Nat : a = 1
    OBVIOUS
  <2>2. /\ SubSeq(ss, a, k) \in Seq(Seq(Bytes))
        /\ Len(SubSeq(ss, a, k)) = IF a <= k THEN k - a + 1 ELSE 0
        /\ \A i \in 1 .. k - a + 1 : SubSeq(ss, a, k)[i] = ss[a + i - 1]
    BY <1>1, <2>1, SubSeqProperties
  <2>3. \A i \in 1 .. k : a + i - 1 = i /\ i \in 1 .. k - a + 1
    BY <2>1
  <2>4. (IF a <= k THEN k - a + 1 ELSE 0) = k
    BY <1>1, <2>1
  <2>5. u = SubSeq(ss, a, k)
    BY <2>1 DEF Part
  <2> HIDE <2>1
  <2> QED BY <2>2, <2>3, <2>4, <2>5
<1>3. InOrder(u)
  BY <1>1, <1>2 DEF InOrder
<1>4. AllBytes(u) \subseteq AllBytes(ss)
  BY <1>1, <1>2 DEF AllBytes
<1> QED BY <1>2, <1>3, <1>4

\* A set of numbers has a least one.
LEMMA LeastOfSet ==
    ASSUME NEW S, S \subseteq Nat, S # {}
    PROVE  Least(S) \in S
<1>1. \E i \in S : \A j \in S : i <= j
  <2>1. SUFFICES ASSUME \A i \in S : \E j \in S : j < i PROVE FALSE
    OBVIOUS
  <2> DEFINE T == {n \in Nat : n \notin S}
  <2>2. ASSUME NEW n \in Nat, \A m \in Nat : m < n => m \in T PROVE n \in T
    BY <2>1, <2>2
  <2> HIDE DEF T
  <2>3. \A n \in Nat : n \in T
    BY <2>2, StrongSetInduction
  <2> QED BY <2>3 DEF T
<1> QED BY <1>1 DEF Least

\* The blank line that is found is after from.
LEMMA HeaderEndAfter ==
    ASSUME NEW b \in Seq(Bytes), NEW from \in Nat, HeaderEnd(b, from) # -1
    PROVE  HeaderEnd(b, from) \in from + 1 .. Len(b)
<1> DEFINE ends == {i \in from + 1 .. Len(b) : b[i].place = 2}
<1>1. HeaderEnd(b, from) = IF ends = {} \/ 1 \in ends THEN -1 ELSE Least(ends)
  BY DEF HeaderEnd
<1>2. ends # {} /\ HeaderEnd(b, from) = Least(ends)
  BY <1>1
<1>3. ends \subseteq Nat
  BY LenProperties
<1>4. Least(ends) \in ends
  <2> HIDE DEF ends
  <2> QED BY <1>2, <1>3, LeastOfSet
<1> QED BY <1>2, <1>4

\* What is executed is the first of what generate() returns.
LEMMA ExecutedPrefix ==
    ASSUME NEW reqs \in Seq(Seq(Bytes)), InOrder(reqs)
    PROVE  /\ Executed(reqs) \in Seq(Seq(Bytes)) /\ InOrder(Executed(reqs))
           /\ AllBytes(Executed(reqs)) \subseteq AllBytes(reqs)
<1> DEFINE ups == {i \in 1 .. Len(reqs) : Use(reqs[i]) # "plain"}
<1>1. Executed(reqs) = IF kind = "hybrid" \/ ups = {} THEN reqs
                       ELSE Part(reqs, 1, Least(ups) - 1)
  BY DEF Executed, Part
<1>2. CASE ups = {}
  BY <1>1, <1>2
<1>3. CASE ups # {}
  <2>1. ups \subseteq Nat /\ ups \subseteq 1 .. Len(reqs)
    BY LenProperties
  <2>2. Least(ups) \in 1 .. Len(reqs)
    <3> HIDE DEF ups
    <3> QED BY <1>3, <2>1, LeastOfSet
  <2> HIDE DEF ups
  <2>3. PICK k \in 0 .. Len(reqs) : k = Least(ups) - 1
    BY <2>2, LenProperties
  <2>4. /\ Part(reqs, 1, k) \in Seq(Seq(Bytes)) /\ InOrder(Part(reqs, 1, k))
        /\ AllBytes(Part(reqs, 1, k)) \subseteq AllBytes(reqs)
    BY PrefixInOrder
  <2> QED BY <1>1, <2>3, <2>4
<1> QED BY <1>2, <1>3

\* generate() cuts bytes that are in order into requests that are.
LEMMA GenerateInOrder ==
    ASSUME NEW b \in Seq(Bytes), Sorted(b),
           \A i \in 1 .. Len(b) : sent[b[i].req].len \in Nat
    PROVE  /\ generate(b).reqs \in Seq(Seq(Bytes)) /\ InOrder(generate(b).reqs)
           /\ AllBytes(generate(b).reqs) \subseteq Elems(b)
<1> DEFINE E(from) == HeaderEnd(b, from)
           N(from) == Header(b, from, E(from)).len
           U(from) == BodyEnd(b, E(from), N(from))
           One(from) == <<SubSeq(b, from + 1, U(from))>>
           Step(g, from) == IF E(from) = -1 THEN [reqs |-> <<>>, back |-> FALSE]
                            ELSE IF N(from) > IntMax - E(from)
                            THEN [reqs |-> One(from), back |-> TRUE]
                            ELSE [reqs |-> One(from) \o g[E(from) + N(from)].reqs,
                                  back |-> g[E(from) + N(from)].back]
           cut == CHOOSE g : g = [from \in Nat |-> Step(g, from)]
<1>1. generate(b) = cut[0]
  BY DEF generate
<1> PICK l \in Nat : l = Len(b)
  BY LenProperties
<1>2. ASSUME NEW from \in Nat, E(from) # -1
      PROVE  /\ E(from) \in from + 1 .. l /\ N(from) \in Nat /\ E(from) + N(from) \in Nat
             /\ E(from) + N(from) > from /\ U(from) \in from + 1 .. l
             /\ U(from) <= E(from) + N(from)
  <2>1. E(from) \in from + 1 .. l
    BY <1>2, HeaderEndAfter
  <2>2. N(from) \in Nat
    <3>1. E(from) \in 1 .. Len(b)
      BY <2>1
    <3> HIDE DEF E
    <3> QED BY <3>1 DEF Header
  <2> HIDE DEF E, N
  <2> QED BY <2>1, <2>2 DEF BodyEnd
<1> HIDE DEF E, N, U
<1>3. \E g : g = [from \in Nat |-> Step(g, from)]
  <2> DEFINE Upto(g, d) == /\ g = [x \in Nat |-> g[x]]
                           /\ \A from \in Nat : from + d >= l => g[from] = Step(g, from)
             T == {d \in Nat : \E g : Upto(g, d)}
  <2>1. 0 \in T
    <3> DEFINE g == [from \in Nat |-> [reqs |-> <<>>, back |-> FALSE]]
    <3>1. \A from \in Nat : from + 0 >= l => E(from) = -1
      BY <1>2
    <3>2. Upto(g, 0)
      BY <3>1
    <3> QED BY <3>2
  <2>2. ASSUME NEW d \in Nat, d \in T PROVE d + 1 \in T
    <3>1. PICK g : Upto(g, d)
      BY <2>2
    <3> DEFINE h == [from \in Nat |-> Step(g, from)]
    <3>2. \A from \in Nat : from + d >= l => h[from] = g[from]
      BY <3>1
    <3>3. \A from \in Nat : from + (d + 1) >= l => h[from] = Step(h, from)
      <4> SUFFICES ASSUME NEW from \in Nat, from + (d + 1) >= l PROVE h[from] = Step(h, from)
        OBVIOUS
      <4>1. CASE E(from) = -1
        BY <4>1
      <4>2. CASE E(from) # -1
        <5>1. E(from) + N(from) \in Nat /\ (E(from) + N(from)) + d >= l
          BY <1>2, <4>2
        <5>2. h[E(from) + N(from)] = g[E(from) + N(from)]
          BY <3>2, <5>1
        <5>3. h[from] = Step(g, from)
          OBVIOUS
        <5> HIDE DEF h
        <5>4. Step(g, from) = Step(h, from)
          BY <5>2
        <5> QED BY <5>3, <5>4
      <4> QED BY <4>1, <4>2
    <3>4. h = [x \in Nat |-> h[x]]
      OBVIOUS
    <3> HIDE DEF h
    <3>5. Upto(h, d + 1)
      BY <3>3, <3>4
    <3> QED BY <3>5, d + 1 \in Nat
  <2> HIDE DEF T
  <2>3. l \in T
    BY <2>1, <2>2, SetInduction
  <2>4. PICK g : Upto(g, l)
    BY <2>3 DEF T
  <2>5. \A from \in Nat : g[from] = Step(g, from)
    <3>1. \A from \in Nat : from + l >= l
      OBVIOUS
    <3> QED BY <2>4, <3>1
  <2>6. g = [from \in Nat |-> Step(g, from)]
    BY <2>4, <2>5
  <2> QED BY <2>6
<1>4. cut = [from \in Nat |-> Step(cut, from)]
  BY <1>3
<1> HIDE DEF cut
<1> DEFINE Good(from) == /\ cut[from].reqs \in Seq(Seq(Bytes)) /\ InOrder(cut[from].reqs)
                         /\ AllBytes(cut[from].reqs) \subseteq {b[i] : i \in from + 1 .. l}
           T == {d \in Nat : \A from \in Nat : from + d >= l => Good(from)}
<1>5. ASSUME NEW d \in Nat,
             \A from \in Nat : from + d >= l /\ E(from) # -1 => Good(E(from) + N(from))
      PROVE  d \in T
  <2> SUFFICES ASSUME NEW from \in Nat, from + d >= l PROVE Good(from)
    OBVIOUS
  <2>1. cut[from] = Step(cut, from)
    BY <1>4
  <2>2. CASE E(from) = -1
    <3>1. cut[from].reqs = <<>>
      BY <2>1, <2>2
    <3> QED BY <3>1, NoneInOrder
  <2>3. CASE E(from) # -1
    <3>0. E(from) + N(from) \in Nat /\ from + 1 \in Nat /\ U(from) \in Nat
      BY <1>2, <2>3
    <3> PICK f \in Nat, e \in Nat, u \in Nat : f = E(from) + N(from) /\ e = from + 1 /\ u = U(from)
      BY <3>0
    <3>1. u \in e .. l /\ u <= f /\ u <= Len(b) /\ e >= 1
      BY <1>2, <2>3
    <3> DEFINE p == Part(b, e, u)
    <3>2. p \in Seq(Bytes) /\ Sorted(p) /\ Elems(p) = {b[x] : x \in e .. u}
      BY <3>1, PartSorted, u \in Int
    <3>3. cut[from].reqs = <<p>> \/ cut[from].reqs = <<p>> \o cut[f].reqs
      <4>1. One(from) = <<p>>
        BY DEF Part
      <4> HIDE DEF p, One
      <4>2. CASE N(from) > IntMax - E(from)
        <5>1. cut[from] = [reqs |-> One(from), back |-> TRUE]
          BY <2>1, <2>3, <4>2
        <5> QED BY <4>1, <5>1
      <4>3. CASE ~(N(from) > IntMax - E(from))
        <5>1. cut[from] = [reqs |-> One(from) \o cut[f].reqs, back |-> cut[f].back]
          BY <2>1, <2>3, <4>3
        <5> QED BY <4>1, <5>1
      <4> QED BY <4>2, <4>3
    <3>4. Good(f)
      BY <1>5, <2>3
    <3> HIDE DEF p
    <3>5. <<p>> \in Seq(Seq(Bytes)) /\ AllBytes(<<p>>) = Elems(p) /\ InOrder(<<p>>)
      BY <3>2, OneInOrder
    <3>6. AllBefore(Elems(p), {b[x] : x \in f + 1 .. l})
      <4> SUFFICES ASSUME NEW x \in e .. u, NEW y \in f + 1 .. l PROVE Before(b[x], b[y])
        BY <3>2 DEF AllBefore
      <4>1. x \in 1 .. l /\ y \in 1 .. l /\ x < y
        BY <3>1
      <4> QED BY <4>1 DEF Sorted
    <3>7. AllBefore(AllBytes(<<p>>), AllBytes(cut[f].reqs))
      BY <3>4, <3>5, <3>6 DEF AllBefore
    <3>8. /\ cut[from].reqs \in Seq(Seq(Bytes)) /\ InOrder(cut[from].reqs)
          /\ AllBytes(cut[from].reqs) \subseteq Elems(p) \cup AllBytes(cut[f].reqs)
      <4>1. CASE cut[from].reqs = <<p>>
        BY <3>5, <4>1
      <4>2. CASE cut[from].reqs = <<p>> \o cut[f].reqs
        BY <3>4, <3>5, <3>7, <4>2, ConcatInOrder
      <4> QED BY <3>3, <4>1, <4>2
    <3>9. {b[x] : x \in e .. u} \subseteq {b[i] : i \in from + 1 .. l}
      BY <3>1
    <3>10. {b[x] : x \in f + 1 .. l} \subseteq {b[i] : i \in from + 1 .. l}
      BY <3>1
    <3> QED BY <3>2, <3>4, <3>8, <3>9, <3>10
  <2> QED BY <2>2, <2>3
<1> HIDE DEF Good
<1>6. 0 \in T
  <2>1. \A from \in Nat : from + 0 >= l => E(from) = -1
    BY <1>2
  <2> HIDE DEF T
  <2> QED BY <1>5, <2>1
<1>7. ASSUME NEW d \in Nat, d \in T PROVE d + 1 \in T
  <2>1. ASSUME NEW from \in Nat, from + (d + 1) >= l, E(from) # -1
        PROVE  Good(E(from) + N(from))
    <3>1. E(from) + N(from) \in Nat /\ (E(from) + N(from)) + d >= l
      BY <1>2, <2>1
    <3> QED BY <1>7, <3>1
  <2>2. d + 1 \in Nat
    OBVIOUS
  <2> HIDE DEF T
  <2> QED BY <1>5, <2>1, <2>2
<1> HIDE DEF T
<1>8. l \in T
  BY <1>6, <1>7, SetInduction
<1>9. Good(0)
  BY <1>8 DEF T
<1>10. {b[i] : i \in 0 + 1 .. l} = Elems(b)
  BY DEF Elems
<1> QED BY <1>1, <1>9, <1>10 DEF Good

-----------------------------------------------------------------------------
(* The invariant, and the steps.                                            *)

\* The bytes on their way to a request.
Pending == Elems(wire) \cup Elems(buffer) \cup Elems(file)

\* The requests executed, then buffer (or the header in it, then the file), then wire,
\* are in the order of the client's stream.
StreamOrder ==
    /\ \A x \in Pending \cup AllBytes(served) : x.req \in 1 .. Len(sent)
    /\ Sorted(wire) /\ Sorted(buffer) /\ Sorted(file) /\ InOrder(served)
    /\ AllBefore(Elems(buffer), Elems(wire)) /\ AllBefore(Elems(file), Elems(wire))
    /\ AllBefore(AllBytes(served), Pending)
    /\ file # NoFile =>
          /\ kind = "thread" /\ lengthToRead >= 0
          /\ HeaderEnd(buffer, 0) # -1
          /\ AllBefore(Elems(Part(buffer, 1, HeaderEnd(buffer, 0) - 1)), Elems(file))

InOrderInv == TypeOK /\ (state # "back" => StreamOrder)

\* A new connection has no bytes.
LEMMA InitInOrder == Init => InOrderInv
<1> SUFFICES ASSUME Init PROVE InOrderInv
  OBVIOUS
<1>1. /\ <<>> \in Seq(Headers) /\ <<>> \in Seq(Seq(Bytes)) /\ <<>> \in Seq(Bytes) /\ Len(<<>>) = 0
      /\ Elems(<<>>) = {} /\ Sorted(<<>>)
  BY EmptySeq DEF Elems, Sorted
<1>2. TypeOK
  BY <1>1, FramingAssumptions DEF Init, TypeOK, NoFile
<1>3. StreamOrder
  BY <1>1, NoneInOrder DEF Init, StreamOrder, Pending, AllBefore, NoFile
<1> QED BY <1>2, <1>3 DEF InOrderInv

\* A request is in order.
LEMMA RequestSorted ==
    ASSUME NEW r \in 1 .. MaxRequests, NEW n \in Nat
    PROVE  /\ Request(r, n) \in Seq(Bytes) /\ Sorted(Request(r, n))
           /\ \A x \in Elems(Request(r, n)) : x.req = r
<1>1. PICK m \in Nat : m = n + 2
  OBVIOUS
<1>2. PICK q : q = Request(r, n)
  OBVIOUS
<1>3. /\ q \in Seq(Bytes) /\ Len(q) = m
      /\ \A i \in 1 .. m : q[i] = [req |-> r, place |-> i]
  <2>1. q = Piece(r, 1, m)
    BY <1>1, <1>2, RequestPiece
  <2>2. /\ Piece(r, 1, m) \in Seq(Bytes) /\ Len(Piece(r, 1, m)) = m
        /\ \A i \in 1 .. m : Piece(r, 1, m)[i] = [req |-> r, place |-> i]
    BY PrefixSeq, Zenon
  <2> QED BY <2>1, <2>2, Zenon
<1>4. \A i \in 1 .. m : q[i].req = r /\ q[i].place = i
  BY <1>3
<1>5. Sorted(q)
  BY <1>3, <1>4 DEF Sorted, Before
<1>6. \A x \in Elems(q) : x.req = r
  BY <1>3, <1>4 DEF Elems
<1> QED BY <1>2, <1>3, <1>5, <1>6

\* A client's next request comes after everything it has sent.
LEMMA SendInOrder ==
    ASSUME TypeOK, StreamOrder, NEW h \in Headers, ClientSends(h)
    PROVE  TypeOK' /\ StreamOrder'
<1> PICK r : r = Len(sent) + 1
  OBVIOUS
<1> PICK n \in Nat : n = Body(h)
  BY BodyFacts
<1> PICK q : q = Request(r, n)
  OBVIOUS
<1>1. /\ sent \in Seq(Headers) /\ Len(sent) \in Nat /\ r \in 1 .. MaxRequests
      /\ wire \in Seq(Bytes)
  BY LenProperties, FramingAssumptions DEF TypeOK, ClientSends
<1>2. sent' \in Seq(Headers) /\ Len(sent') = r
  BY <1>1, AppendProperties DEF ClientSends
<1>3. /\ UNCHANGED <<kind, pipelining, limit, buffer, file, lengthToRead, state, served>>
      /\ wire' = wire \o q
  BY DEF ClientSends, conn, Body
<1>4. q \in Seq(Bytes) /\ Sorted(q) /\ \A x \in Elems(q) : x.req = r
  BY <1>1, RequestSorted
<1>7. AllBefore(Pending \cup AllBytes(served), Elems(q))
  <2>1. \A x \in Pending \cup AllBytes(served) : x.req < r
    BY <1>1 DEF StreamOrder
  <2> QED BY <1>4, <2>1 DEF AllBefore, Before
<1>8. wire' \in Seq(Bytes) /\ Elems(wire') = Elems(wire) \cup Elems(q) /\ Sorted(wire')
  <2>1. AllBefore(Elems(wire), Elems(q))
    BY <1>7 DEF AllBefore, Pending
  <2> QED BY <1>1, <1>3, <1>4, <2>1, ConcatSorted DEF StreamOrder
<1>9. TypeOK'
  BY <1>1, <1>2, <1>3, <1>8 DEF TypeOK
<1>10. StreamOrder'
  <2>1. Pending' = Pending \cup Elems(q)
    BY <1>3, <1>8 DEF Pending
  <2>2. \A x \in (Pending \cup AllBytes(served))' : x.req \in 1 .. Len(sent')
    BY <1>1, <1>2, <1>3, <1>4, <2>1 DEF StreamOrder
  <2>3. AllBefore(Elems(buffer), Elems(wire))' /\ AllBefore(Elems(file), Elems(wire))'
    BY <1>3, <1>7, <1>8 DEF StreamOrder, Pending, AllBefore
  <2>4. AllBefore(AllBytes(served), Pending)'
    BY <1>3, <1>7, <2>1 DEF StreamOrder, AllBefore
  <2> QED BY <1>3, <1>8, <2>2, <2>3, <2>4 DEF StreamOrder
<1> QED BY <1>9, <1>10

\* What comes next from the wire goes behind the buffer, and behind the file.
LEMMA ReceivedInOrder ==
    ASSUME TypeOK, StreamOrder, NEW k \in 1 .. Len(wire), NEW e \in Nat, e = k + 1,
           NEW new, new = Part(wire, 1, k), NEW rest, rest = Part(wire, e, Len(wire))
    PROVE  /\ rest \in Seq(Bytes) /\ Sorted(rest) /\ Elems(rest) \subseteq Elems(wire)
           /\ AllBefore(Elems(buffer), Elems(rest)) /\ AllBefore(Elems(file), Elems(rest))
           /\ Elems(new) \subseteq Elems(wire)
           /\ \A s \in {buffer, file} :
                 /\ s \o new \in Seq(Bytes) /\ Sorted(s \o new)
                 /\ Elems(s \o new) = Elems(s) \cup Elems(new)
                 /\ AllBefore(Elems(s \o new), Elems(rest))
<1>1. /\ wire \in Seq(Bytes) /\ Sorted(wire) /\ k \in 0 .. Len(wire)
  BY LenProperties DEF TypeOK, StreamOrder
<1>2. /\ new \in Seq(Bytes) /\ rest \in Seq(Bytes) /\ Sorted(new) /\ Sorted(rest)
      /\ Elems(new) \subseteq Elems(wire) /\ Elems(rest) \subseteq Elems(wire)
      /\ AllBefore(Elems(new), Elems(rest))
  BY <1>1, CutSorted
<1>3. ASSUME NEW s \in {buffer, file}
      PROVE  /\ s \o new \in Seq(Bytes) /\ Sorted(s \o new)
             /\ Elems(s \o new) = Elems(s) \cup Elems(new)
             /\ AllBefore(Elems(s \o new), Elems(rest))
             /\ AllBefore(Elems(s), Elems(rest))
  <2>1. s \in Seq(Bytes) /\ Sorted(s) /\ AllBefore(Elems(s), Elems(wire))
    BY DEF TypeOK, StreamOrder
  <2>2. AllBefore(Elems(s), Elems(new)) /\ AllBefore(Elems(s), Elems(rest))
    BY <1>2, <2>1 DEF AllBefore
  <2>3. /\ s \o new \in Seq(Bytes) /\ Sorted(s \o new)
        /\ Elems(s \o new) = Elems(s) \cup Elems(new)
    BY <1>2, <2>1, <2>2, ConcatSorted
  <2> QED BY <1>2, <2>2, <2>3 DEF AllBefore
<1> QED BY <1>2, <1>3

\* The header gives a body of some length.
LEMMA LengthsAreNat ==
    ASSUME TypeOK, StreamOrder, NEW b \in Seq(Bytes), Elems(b) \subseteq Pending
    PROVE  /\ \A i \in 1 .. Len(b) : sent[b[i].req].len \in Nat
           /\ HeaderEnd(b, 0) # -1 => Missing(b, HeaderEnd(b, 0)) \in Nat
<1>1. ASSUME NEW i \in 1 .. Len(b) PROVE sent[b[i].req].len \in Nat
  <2>1. b[i].req \in 1 .. Len(sent)
    BY DEF StreamOrder, Elems
  <2>2. sent[b[i].req] \in Headers
    BY <2>1, ElementOfSeq DEF TypeOK
  <2> QED BY <2>2, BodyFacts
<1>2. ASSUME NEW i \in 1 .. Len(b) PROVE Missing(b, i) \in Nat
  <2>1. Len(b) \in Nat /\ Header(b, 0, i).len \in Nat
    BY <1>1, LenProperties DEF Header
  <2> QED BY <2>1 DEF Missing
<1>3. HeaderEnd(b, 0) # -1 => HeaderEnd(b, 0) \in 1 .. Len(b)
  BY HeaderEndAfter
<1> QED BY <1>1, <1>2, <1>3

\* Bytes that leave the wire for nothing.
LEMMA LostInOrder ==
    ASSUME TypeOK, StreamOrder, NEW k \in 1 .. Len(wire), NEW e \in Nat, e = k + 1,
           wire' = Part(wire, e, Len(wire)),
           UNCHANGED <<kind, pipelining, limit, sent, buffer, file, lengthToRead, served>>,
           state' \in {state, "over"}
    PROVE  TypeOK' /\ StreamOrder'
<1> PICK new : new = Part(wire, 1, k)
  OBVIOUS
<1>1. /\ wire' \in Seq(Bytes) /\ Sorted(wire') /\ Elems(wire') \subseteq Elems(wire)
      /\ AllBefore(Elems(buffer), Elems(wire')) /\ AllBefore(Elems(file), Elems(wire'))
  BY ReceivedInOrder
<1>2. TypeOK'
  BY <1>1 DEF TypeOK
<1>3. Pending' \subseteq Pending
  BY <1>1 DEF Pending
<1>4. StreamOrder'
  BY <1>1, <1>3 DEF StreamOrder, AllBefore
<1> QED BY <1>2, <1>4

\* The hybrid MPM receives.
LEMMA SeekInOrder ==
    ASSUME TypeOK, StreamOrder, NEW k \in 1 .. Len(wire), seekRecvBuffer(k)
    PROVE  TypeOK' /\ StreamOrder'
<1> PICK e \in Nat : e = k + 1
  OBVIOUS
<1> PICK new, rest, b : /\ new = Part(wire, 1, k) /\ rest = Part(wire, e, Len(wire))
                        /\ b = buffer \o new
  OBVIOUS
<1>1. /\ rest \in Seq(Bytes) /\ Sorted(rest) /\ Elems(rest) \subseteq Elems(wire)
      /\ AllBefore(Elems(file), Elems(rest))
      /\ Elems(new) \subseteq Elems(wire)
      /\ b \in Seq(Bytes) /\ Sorted(b) /\ Elems(b) = Elems(buffer) \cup Elems(new)
      /\ AllBefore(Elems(b), Elems(rest))
  BY ReceivedInOrder
<1> DEFINE left == IF lengthToRead >= 0 THEN Less(lengthToRead, k)
                   ELSE IF HeaderEnd(b, 0) # -1 THEN Missing(b, HeaderEnd(b, 0)) ELSE -1
<1>2. /\ UNCHANGED <<kind, pipelining, limit, sent, file, served>> /\ wire' = rest
      /\ \/ state' = "over" /\ UNCHANGED <<buffer, lengthToRead>>
         \/ state' \in {"leaving", state} /\ buffer' = <<>> /\ lengthToRead' = -1
         \/ buffer' = b /\ lengthToRead' = left /\ state' = state
  BY DEF seekRecvBuffer, conn, Part
<1>3. Elems(b) \subseteq Pending
  BY <1>1 DEF Pending
<1>4. HeaderEnd(b, 0) # -1 => Missing(b, HeaderEnd(b, 0)) \in Nat
  BY <1>1, <1>3, LengthsAreNat
<1>5. left \in Int /\ left >= -1
  <2>1. lengthToRead \in Int /\ lengthToRead >= -1 /\ k \in Nat
    BY DEF TypeOK
  <2> QED BY <1>4, <2>1 DEF Less
<1> HIDE DEF left
<1>6. file = NoFile
  BY DEF StreamOrder, seekRecvBuffer
<1>7. CASE state' = "over" /\ UNCHANGED <<buffer, lengthToRead>>
  BY <1>2, <1>7, LostInOrder
<1>8. CASE state' \in {"leaving", state} /\ buffer' = <<>> /\ lengthToRead' = -1
  <2>1. <<>> \in Seq(Bytes) /\ Elems(<<>>) = {} /\ Sorted(<<>>)
    BY EmptySeq DEF Elems, Sorted
  <2>2. TypeOK'
    BY <1>1, <1>2, <1>8, <2>1 DEF TypeOK
  <2>3. Pending' \subseteq Pending
    BY <1>1, <1>2, <1>8, <2>1 DEF Pending
  <2>4. AllBefore(Elems(buffer'), Elems(wire')) /\ AllBefore(Elems(file'), Elems(wire'))
    BY <1>1, <1>2, <1>8, <2>1 DEF AllBefore
  <2>5. AllBefore(AllBytes(served'), Pending')
    BY <1>2, <2>3 DEF StreamOrder, AllBefore
  <2>6. StreamOrder'
    BY <1>1, <1>2, <1>6, <1>8, <2>1, <2>3, <2>4, <2>5 DEF StreamOrder
  <2> QED BY <2>2, <2>6
<1>9. CASE buffer' = b /\ lengthToRead' = left /\ state' = state
  <2>1. TypeOK'
    BY <1>1, <1>2, <1>5, <1>9 DEF TypeOK
  <2>2. Pending' \subseteq Pending
    BY <1>1, <1>2, <1>3, <1>9 DEF Pending
  <2>3. StreamOrder'
    BY <1>1, <1>2, <1>6, <1>9, <2>2 DEF StreamOrder, AllBefore
  <2> QED BY <2>1, <2>3
<1> QED BY <1>2, <1>7, <1>8, <1>9

\* The thread MPM receives: into the buffer, into the file, or for nothing.
LEMMA ReadRequestInOrder ==
    ASSUME TypeOK, StreamOrder, NEW k \in 1 .. Len(wire), readRequest(k)
    PROVE  TypeOK' /\ StreamOrder'
<1> PICK e \in Nat : e = k + 1
  OBVIOUS
<1> PICK new, rest, b : /\ new = Part(wire, 1, k) /\ rest = Part(wire, e, Len(wire))
                        /\ b = buffer \o new
  OBVIOUS
<1>1. /\ rest \in Seq(Bytes) /\ Sorted(rest) /\ Elems(rest) \subseteq Elems(wire)
      /\ AllBefore(Elems(buffer), Elems(rest)) /\ AllBefore(Elems(file), Elems(rest))
      /\ Elems(new) \subseteq Elems(wire)
      /\ b \in Seq(Bytes) /\ Sorted(b) /\ Elems(b) = Elems(buffer) \cup Elems(new)
      /\ AllBefore(Elems(b), Elems(rest))
      /\ file \o new \in Seq(Bytes) /\ Sorted(file \o new)
      /\ Elems(file \o new) = Elems(file) \cup Elems(new)
      /\ AllBefore(Elems(file \o new), Elems(rest))
  BY ReceivedInOrder
<1> DEFINE end == HeaderEnd(b, 0)
<1>2. /\ UNCHANGED <<kind, pipelining, limit, sent, served>> /\ wire' = rest /\ kind = "thread"
      /\ state' \in {state, "over"}
      /\ \/ /\ lengthToRead > 0
            /\ IF file # NoFile THEN file' = file \o new /\ UNCHANGED buffer
                                ELSE buffer' = b /\ UNCHANGED file
            /\ lengthToRead' = Less(lengthToRead, k)
         \/ /\ lengthToRead < 0
            /\ buffer' = b
            /\ lengthToRead' = IF end = -1 THEN -1 ELSE Missing(b, end)
            /\ file' = IF end # -1 /\ Header(b, 0, end).len > Threshold
                       THEN Part(b, end, Len(b)) ELSE file
         \/ UNCHANGED <<buffer, file, lengthToRead>>
  BY DEF readRequest, conn, Part
<1>3. Elems(b) \subseteq Pending /\ Elems(file \o new) \subseteq Pending
  BY <1>1 DEF Pending
<1>4. end # -1 => Missing(b, end) \in Nat
  BY <1>1, <1>3, LengthsAreNat
<1>5. lengthToRead \in Int /\ lengthToRead >= -1 /\ k \in Nat /\ Less(lengthToRead, k) \in Nat
  BY DEF TypeOK, Less
<1>6. end # -1 => end \in 1 .. Len(b)
  BY <1>1, HeaderEndAfter, 0 \in Nat, 0 + 1 = 1
<1> HIDE DEF end
<1>7. CASE lengthToRead > 0 /\ file # NoFile /\ ~UNCHANGED <<buffer, file, lengthToRead>>
  <2>1. /\ file' = file \o new /\ buffer' = buffer /\ lengthToRead' = Less(lengthToRead, k)
    BY <1>2, <1>5, <1>7
  <2>2. TypeOK'
    BY <1>1, <1>2, <1>5, <2>1 DEF TypeOK
  <2>3. Pending' \subseteq Pending
    BY <1>1, <1>2, <1>3, <2>1 DEF Pending
  <2>4. AllBefore(Elems(Part(buffer, 1, HeaderEnd(buffer, 0) - 1)), Elems(file \o new))
    <3>1. buffer \in Seq(Bytes) /\ Sorted(buffer) /\ HeaderEnd(buffer, 0) # -1
      BY <1>7 DEF StreamOrder, TypeOK
    <3>2. HeaderEnd(buffer, 0) \in 1 .. Len(buffer)
      BY <3>1, HeaderEndAfter
    <3>3. PICK j \in Int : j = HeaderEnd(buffer, 0) - 1 /\ j <= Len(buffer)
      BY <3>1, <3>2, LenProperties
    <3>4. Elems(Part(buffer, 1, j)) \subseteq Elems(buffer)
      <4>1. PICK a \in Nat : a = 1 /\ a >= 1
        OBVIOUS
      <4>2. Elems(Part(buffer, a, j)) \subseteq Elems(buffer)
        BY <3>1, <3>3, <4>1, PartSorted
      <4> QED BY <4>1, <4>2
    <3>5. AllBefore(Elems(Part(buffer, 1, j)), Elems(new))
      BY <1>1, <3>4 DEF StreamOrder, AllBefore
    <3> QED BY <1>1, <1>7, <3>3, <3>5 DEF StreamOrder, AllBefore
  <2>5. AllBefore(AllBytes(served), Pending)'
    BY <1>2, <2>3 DEF StreamOrder, AllBefore
  <2>6. Less(lengthToRead, k) >= 0 /\ HeaderEnd(buffer, 0) # -1
    BY <1>5, <1>7 DEF StreamOrder
  <2>7. StreamOrder'
    BY <1>1, <1>2, <2>1, <2>3, <2>4, <2>5, <2>6 DEF StreamOrder
  <2> QED BY <2>2, <2>7
<1>8. CASE lengthToRead > 0 /\ file = NoFile /\ ~UNCHANGED <<buffer, file, lengthToRead>>
  <2>1. /\ buffer' = b /\ file' = file /\ lengthToRead' = Less(lengthToRead, k)
    BY <1>2, <1>5, <1>8
  <2>2. TypeOK'
    BY <1>1, <1>2, <1>5, <2>1 DEF TypeOK
  <2>3. Pending' \subseteq Pending
    BY <1>1, <1>2, <1>3, <2>1 DEF Pending
  <2>4. StreamOrder'
    BY <1>1, <1>2, <1>8, <2>1, <2>3 DEF StreamOrder, AllBefore
  <2> QED BY <2>2, <2>4
<1>9. CASE lengthToRead < 0 /\ ~UNCHANGED <<buffer, file, lengthToRead>>
  <2>1. /\ buffer' = b /\ lengthToRead' = IF end = -1 THEN -1 ELSE Missing(b, end)
        /\ file' = IF end # -1 /\ Header(b, 0, end).len > Threshold
                       THEN Part(b, end, Len(b)) ELSE file
    BY <1>2, <1>5, <1>9
  <2>2. file = NoFile
    BY <1>5, <1>9 DEF StreamOrder
  <2>3. CASE file' = NoFile
    <3>1. TypeOK'
      BY <1>1, <1>2, <1>4, <2>1, <2>2, <2>3 DEF TypeOK
    <3>2. Pending' \subseteq Pending
      BY <1>1, <1>2, <1>3, <2>1, <2>2, <2>3 DEF Pending
    <3>3. StreamOrder'
      BY <1>1, <1>2, <2>1, <2>2, <2>3, <3>2 DEF StreamOrder, AllBefore
    <3> QED BY <3>1, <3>3
  <2>4. CASE file' # NoFile
    <3>1. end # -1 /\ file' = Part(b, end, Len(b)) /\ lengthToRead' \in Nat
      BY <1>4, <2>1, <2>2, <2>4
    <3>2. PICK j \in 0 .. Len(b) : end = j + 1 /\ j = end - 1 /\ end \in Nat
      <4>1. Len(b) \in Nat /\ end \in 1 .. Len(b)
        BY <1>1, <1>6, <3>1, LenProperties
      <4> QED BY <4>1
    <3>3. /\ Part(b, end, Len(b)) \in Seq(Bytes) /\ Sorted(Part(b, end, Len(b)))
          /\ Elems(Part(b, end, Len(b))) \subseteq Elems(b)
          /\ AllBefore(Elems(Part(b, 1, j)), Elems(Part(b, end, Len(b))))
      <4>1. b \in Seq(Bytes) /\ Sorted(b)
        BY <1>1
      <4> QED BY <3>2, <4>1, CutSorted, Zenon
    <3>4. TypeOK'
      BY <1>1, <1>2, <2>1, <3>1, <3>3 DEF TypeOK
    <3>5. Pending' \subseteq Pending
      BY <1>1, <1>2, <1>3, <2>1, <3>1, <3>3 DEF Pending
    <3>6. AllBefore(Elems(file'), Elems(rest))
      BY <1>1, <3>1, <3>3 DEF AllBefore
    <3>7. HeaderEnd(buffer', 0) # -1 /\ HeaderEnd(buffer', 0) - 1 = j
      BY <2>1, <3>1, <3>2 DEF end
    <3>8. AllBefore(Elems(Part(buffer', 1, HeaderEnd(buffer', 0) - 1)), Elems(file'))
      BY <2>1, <3>1, <3>3, <3>7
    <3>9. AllBefore(AllBytes(served), Pending')
      BY <3>5 DEF StreamOrder, AllBefore
    <3>10. Sorted(file') /\ lengthToRead' >= 0
      BY <3>1, <3>3
    <3> QED BY <1>1, <1>2, <2>1, <3>4, <3>5, <3>6, <3>7, <3>8, <3>9, <3>10
            DEF StreamOrder
  <2> QED BY <2>3, <2>4
<1>10. CASE UNCHANGED <<buffer, file, lengthToRead>>
  BY <1>2, <1>10, LostInOrder
<1> QED BY <1>2, <1>5, <1>7, <1>8, <1>9, <1>10

\* A complete request, or several, are in order.
LEMMA CompleteInOrder ==
    ASSUME TypeOK, StreamOrder
    PROVE  /\ Complete.reqs \in Seq(Seq(Bytes)) /\ InOrder(Complete.reqs)
           /\ AllBytes(Complete.reqs) \subseteq Elems(buffer) \cup Elems(file)
<1>1. /\ buffer \in Seq(Bytes) /\ file \in Seq(Bytes) /\ Sorted(buffer) /\ Sorted(file)
  BY DEF StreamOrder, TypeOK
<1>2. CASE file = NoFile
  <2>1. Elems(buffer) \subseteq Pending
    BY DEF Pending
  <2>2. \A i \in 1 .. Len(buffer) : sent[buffer[i].req].len \in Nat
    BY <1>1, <2>1, LengthsAreNat
  <2>3. Complete = generate(buffer)
    BY <1>2 DEF Complete
  <2> QED BY <1>1, <2>2, <2>3, GenerateInOrder
<1>3. CASE file # NoFile
  <2> PICK h : h = Part(buffer, 1, HeaderEnd(buffer, 0) - 1)
    OBVIOUS
  <2>1. HeaderEnd(buffer, 0) # -1 /\ AllBefore(Elems(h), Elems(file))
    BY <1>3 DEF StreamOrder
  <2>2. HeaderEnd(buffer, 0) \in 1 .. Len(buffer)
    BY <1>1, <2>1, HeaderEndAfter
  <2>3. PICK j \in Int : j = HeaderEnd(buffer, 0) - 1 /\ j <= Len(buffer)
    BY <1>1, <2>2, LenProperties
  <2>4. h \in Seq(Bytes) /\ Sorted(h) /\ Elems(h) \subseteq Elems(buffer)
    BY <1>1, <2>3, PartSorted, 1 \in Nat
  <2>5. /\ h \o file \in Seq(Bytes) /\ Sorted(h \o file)
        /\ Elems(h \o file) = Elems(h) \cup Elems(file)
    BY <1>1, <2>1, <2>4, ConcatSorted
  <2>6. /\ <<h \o file>> \in Seq(Seq(Bytes)) /\ AllBytes(<<h \o file>>) = Elems(h \o file)
        /\ InOrder(<<h \o file>>)
    BY <2>5, OneInOrder
  <2>7. Complete.reqs = <<h \o file>>
    BY <1>3 DEF Complete, Part
  <2> QED BY <2>4, <2>5, <2>6, <2>7
<1> QED BY <1>2, <1>3

\* What is executed comes after what was executed before, and before what is yet to come.
LEMMA TakenInOrder ==
    ASSUME TypeOK, StreamOrder, NEW new \in Seq(Seq(Bytes)), InOrder(new),
           AllBytes(new) \subseteq Elems(buffer) \cup Elems(file),
           UNCHANGED <<kind, pipelining, limit, sent, wire>>, buffer' = <<>>, file' = <<>>,
           lengthToRead' = -1, served' = served \o new,
           state' \in {"open", "leaving", "over", "back"}
    PROVE  TypeOK' /\ StreamOrder'
<1>1. /\ UNCHANGED <<kind, pipelining, sent, wire>> /\ buffer' = <<>> /\ file' = <<>>
      /\ lengthToRead' = -1 /\ served' = served \o new
  OBVIOUS
<1>2. /\ served \in Seq(Seq(Bytes)) /\ InOrder(served) /\ AllBefore(AllBytes(served), Pending)
  BY DEF StreamOrder, TypeOK
<1>3. /\ new \in Seq(Seq(Bytes)) /\ InOrder(new)
      /\ AllBytes(new) \subseteq Elems(buffer) \cup Elems(file)
  OBVIOUS
<1>4. AllBytes(new) \subseteq Pending
  BY <1>3 DEF Pending
<1>5. /\ served' \in Seq(Seq(Bytes)) /\ AllBytes(served') = AllBytes(served) \cup AllBytes(new)
      /\ InOrder(served')
  <2>1. AllBefore(AllBytes(served), AllBytes(new))
    BY <1>2, <1>4 DEF AllBefore
  <2> QED BY <1>1, <1>2, <1>3, <2>1, ConcatInOrder
<1>6. <<>> \in Seq(Bytes) /\ Elems(<<>>) = {} /\ Sorted(<<>>)
  BY EmptySeq DEF Elems, Sorted
<1>7. TypeOK'
  BY <1>1, <1>5, <1>6 DEF TypeOK
<1>8. Pending' = Elems(wire)
  BY <1>1, <1>6 DEF Pending
<1>9. AllBefore(AllBytes(served'), Pending')
  <2>1. AllBefore(AllBytes(new), Elems(wire))
    BY <1>3 DEF StreamOrder, AllBefore
  <2>2. AllBefore(AllBytes(served), Elems(wire))
    BY <1>2 DEF AllBefore, Pending
  <2> QED BY <1>5, <1>8, <2>1, <2>2 DEF AllBefore
<1>10. \A x \in Pending' \cup AllBytes(served') : x.req \in 1 .. Len(sent)
  BY <1>4, <1>5, <1>8 DEF StreamOrder, Pending
<1>11. StreamOrder'
  BY <1>1, <1>5, <1>6, <1>9, <1>10 DEF StreamOrder, AllBefore, NoFile
<1> QED BY <1>7, <1>11

\* A request, or several, are executed.
LEMMA ReadInOrder ==
    ASSUME TypeOK, StreamOrder, Read
    PROVE  TypeOK' /\ StreamOrder'
<1> PICK new : new = Executed(Complete.reqs)
  OBVIOUS
<1>1. /\ new \in Seq(Seq(Bytes)) /\ InOrder(new)
      /\ AllBytes(new) \subseteq Elems(buffer) \cup Elems(file)
  BY CompleteInOrder, ExecutedPrefix
<1>2. /\ UNCHANGED <<kind, pipelining, limit, sent, wire>> /\ buffer' = <<>> /\ file' = <<>>
      /\ lengthToRead' = -1 /\ served' = served \o new
      /\ state' \in {"open", "leaving", "over", "back"}
  BY DEF Read, conn, NoFile, TypeOK
<1> QED BY <1>1, <1>2, TakenInOrder

\* Where generate() goes back, it does not return, or the claim ends.
LEMMA GoingBackInOrder ==
    ASSUME TypeOK, StreamOrder, ReadGoesBack
    PROVE  TypeOK' /\ (state' # "back" => StreamOrder')
<1>1. /\ UNCHANGED <<kind, pipelining, limit, sent, wire>> /\ buffer' = <<>> /\ file' = <<>>
      /\ lengthToRead' = -1
  BY DEF ReadGoesBack, conn, NoFile
<1>2. CASE state' = "over" /\ served' = served
  <2>1. served' = served \o <<>>
    BY <1>2, ConcatEmptySeq DEF TypeOK
  <2>2. AllBytes(<<>>) \subseteq Elems(buffer) \cup Elems(file)
    BY NoneInOrder
  <2> QED BY <1>1, <1>2, <2>1, <2>2, NoneInOrder, TakenInOrder
<1>3. ASSUME NEW from \in 0 .. Len(buffer), NEW upto \in 0 .. Len(buffer), state' = "back",
             served' = served \o Complete.reqs \o <<SubSeq(buffer, from + 1, upto)>>
      PROVE  TypeOK'
  <2>1. buffer \in Seq(Bytes) /\ Sorted(buffer) /\ served \in Seq(Seq(Bytes))
    BY DEF TypeOK, StreamOrder
  <2>2. Complete.reqs \in Seq(Seq(Bytes))
    BY CompleteInOrder
  <2>3. PICK i \in Nat : i = from + 1 /\ i >= 1 /\ upto \in Int /\ upto <= Len(buffer)
    BY <2>1, LenProperties
  <2>4. Part(buffer, i, upto) \in Seq(Bytes)
    BY <2>1, <2>3, PartSorted
  <2>5. PICK p \in Seq(Bytes) : p = SubSeq(buffer, from + 1, upto)
    BY <2>3, <2>4 DEF Part
  <2>6. <<p>> \in Seq(Seq(Bytes))
    BY OneInOrder
  <2>7. served' \in Seq(Seq(Bytes))
    <3>1. served \o Complete.reqs \in Seq(Seq(Bytes))
      BY <2>1, <2>2, ConcatInOrder
    <3>2. (served \o Complete.reqs) \o <<p>> \in Seq(Seq(Bytes))
      BY <2>6, <3>1, ConcatInOrder
    <3> QED BY <1>3, <2>5, <3>2
  <2>8. <<>> \in Seq(Bytes)
    BY EmptySeq
  <2> QED BY <1>1, <1>3, <2>7, <2>8 DEF TypeOK
<1> QED BY <1>2, <1>3 DEF ReadGoesBack

\* Every step keeps the order of the stream.
LEMMA NextInOrder == InOrderInv /\ [Next]_vars => InOrderInv'
<1> SUFFICES ASSUME InOrderInv, [Next]_vars PROVE InOrderInv'
  OBVIOUS
<1>1. CASE UNCHANGED vars
  BY <1>1 DEF vars, InOrderInv, TypeOK, StreamOrder, Pending
<1>2. CASE Next
  <2>1. state # "back"
    BY <1>2 DEF Next, ClientSends, seekRecvBuffer, readRequest, Leave, Read, ReadGoesBack, Alive
  <2>2. TypeOK /\ StreamOrder
    BY <2>1 DEF InOrderInv
  <2>3. CASE \E h \in Headers : ClientSends(h)
    BY <2>2, <2>3, SendInOrder DEF InOrderInv
  <2>4. CASE \E j \in 1 .. Len(wire) : seekRecvBuffer(j) \/ readRequest(j)
    BY <2>2, <2>4, SeekInOrder, ReadRequestInOrder DEF InOrderInv
  <2>5. CASE Read
    BY <2>2, <2>5, ReadInOrder DEF InOrderInv
  <2>6. CASE ReadGoesBack
    BY <2>2, <2>6, GoingBackInOrder DEF InOrderInv
  <2>7. CASE Leave
    <3>1. UNCHANGED <<kind, pipelining, limit, sent, wire, buffer, file, lengthToRead, served>>
      BY <2>7 DEF Leave, conn
    <3>2. TypeOK'
      BY <2>2, <2>7, <3>1 DEF Leave, TypeOK
    <3>3. StreamOrder'
      BY <2>2, <3>1 DEF StreamOrder, Pending
    <3> QED BY <3>2, <3>3 DEF InOrderInv
  <2> QED BY <1>2, <2>3, <2>4, <2>5, <2>6, <2>7 DEF Next
<1> QED BY <1>1, <1>2

\* The requests in order, read as one stream, are in order.
LEMMA FlatInOrder ==
    ASSUME served \in Seq(Seq(Bytes)), InOrder(served) PROVE NothingTwice
<1> DEFINE UpTo(g, r) == IF r = 0 THEN <<>> ELSE g[r - 1] \o served[r]
           all == CHOOSE g : g = [r \in 0 .. Len(served) |-> UpTo(g, r)]
<1> PICK l \in Nat : l = Len(served)
  BY LenProperties
<1>1. \E g : g = [r \in 0 .. l |-> UpTo(g, r)]
  <2> DEFINE Upto(g, d) == /\ g = [x \in 0 .. l |-> g[x]]
                           /\ \A r \in 0 .. l : r <= d => g[r] = UpTo(g, r)
             T == {d \in Nat : \E g : Upto(g, d)}
  <2>1. 0 \in T
    <3> DEFINE g == [r \in 0 .. l |-> <<>>]
    <3>1. \A r \in 0 .. l : r <= 0 => r = 0 /\ g[r] = <<>>
      OBVIOUS
    <3>2. g = [x \in 0 .. l |-> g[x]]
      OBVIOUS
    <3> HIDE DEF g
    <3>3. Upto(g, 0)
      BY <3>1, <3>2
    <3> QED BY <3>3
  <2>2. ASSUME NEW d \in Nat, d \in T PROVE d + 1 \in T
    <3>1. PICK g : Upto(g, d)
      BY <2>2
    <3> DEFINE h == [r \in 0 .. l |-> UpTo(g, r)]
    <3>2. \A r \in 0 .. l : r <= d => h[r] = g[r]
      BY <3>1
    <3>3. ASSUME NEW r \in 0 .. l, r <= d + 1 PROVE h[r] = UpTo(h, r)
      <4>1. CASE r = 0
        BY <4>1
      <4>2. CASE r # 0
        <5>1. r - 1 \in 0 .. l /\ r - 1 <= d
          BY <3>3, <4>2
        <5>2. h[r - 1] = g[r - 1]
          BY <3>2, <5>1
        <5> QED BY <4>2, <5>2
      <4> QED BY <4>1, <4>2
    <3>4. h = [x \in 0 .. l |-> h[x]]
      OBVIOUS
    <3> HIDE DEF h
    <3>5. Upto(h, d + 1)
      BY <3>3, <3>4
    <3> QED BY <3>5, d + 1 \in Nat
  <2> HIDE DEF T
  <2>3. l \in T
    BY <2>1, <2>2, SetInduction
  <2>4. PICK g : Upto(g, l)
    BY <2>3 DEF T
  <2>5. \A r \in 0 .. l : g[r] = UpTo(g, r)
    <3>1. \A r \in 0 .. l : r <= l
      OBVIOUS
    <3> QED BY <2>4, <3>1
  <2>6. g = [r \in 0 .. l |-> UpTo(g, r)]
    BY <2>4, <2>5
  <2> QED BY <2>6
<1>2. all = [r \in 0 .. l |-> UpTo(all, r)]
  BY <1>1
<1>3. (\A i \in 1 .. Len(all[l]) - 1 : Before(all[l][i], all[l][i + 1])) => NothingTwice
  BY DEF NothingTwice, Before
<1> HIDE DEF all
<1> DEFINE Upper(r) == UNION {Elems(served[q]) : q \in 1 .. r}
           T == {r \in Nat : r <= l => /\ all[r] \in Seq(Bytes) /\ Sorted(all[r])
                                       /\ Elems(all[r]) \subseteq Upper(r)}
<1>4. 0 \in T
  <2>1. all[0] = <<>>
    BY <1>2
  <2>2. <<>> \in Seq(Bytes) /\ Elems(<<>>) = {} /\ Sorted(<<>>)
    BY EmptySeq DEF Elems, Sorted
  <2> QED BY <2>1, <2>2
<1>5. ASSUME NEW r \in Nat, r \in T PROVE r + 1 \in T
  <2> SUFFICES ASSUME r + 1 <= l
               PROVE  /\ all[r + 1] \in Seq(Bytes) /\ Sorted(all[r + 1])
                      /\ Elems(all[r + 1]) \subseteq Upper(r + 1)
    OBVIOUS
  <2> PICK q \in Nat : q = r + 1 /\ q \in 1 .. l /\ q - 1 = r /\ q # 0 /\ r <= l
    OBVIOUS
  <2>1. all[q] = all[r] \o served[q]
    <3>1. q \in 0 .. l
      OBVIOUS
    <3>2. all[q] = UpTo(all, q)
      BY <1>2, <3>1
    <3> QED BY <3>2
  <2>2. all[r] \in Seq(Bytes) /\ Sorted(all[r]) /\ Elems(all[r]) \subseteq Upper(r)
    BY <1>5
  <2>3. served[q] \in Seq(Bytes) /\ Sorted(served[q])
    BY ElementOfSeq DEF InOrder
  <2>4. AllBefore(Elems(all[r]), Elems(served[q]))
    <3>0. \A p \in 1 .. r : p \in 1 .. l /\ p < q
      OBVIOUS
    <3>1. \A p \in 1 .. r : AllBefore(Elems(served[p]), Elems(served[q]))
      BY <3>0 DEF InOrder
    <3> QED BY <2>2, <3>1 DEF AllBefore
  <2>5. /\ all[q] \in Seq(Bytes) /\ Sorted(all[q])
        /\ Elems(all[q]) = Elems(all[r]) \cup Elems(served[q])
    BY <2>1, <2>2, <2>3, <2>4, ConcatSorted
  <2>6. Upper(r) \subseteq Upper(q) /\ Elems(served[q]) \subseteq Upper(q)
    <3>1. 1 .. r \subseteq 1 .. q /\ q \in 1 .. q
      OBVIOUS
    <3> QED BY <3>1
  <2> QED BY <2>2, <2>5, <2>6
<1> HIDE DEF T
<1>6. l \in T
  BY <1>4, <1>5, SetInduction
<1>7. all[l] \in Seq(Bytes) /\ Sorted(all[l])
  BY <1>6 DEF T
<1>8. PICK n \in Nat : n = Len(all[l])
  BY <1>7, LenProperties
<1>9. \A i \in 1 .. n - 1 : i \in 1 .. n /\ i + 1 \in 1 .. n /\ i < i + 1
  OBVIOUS
<1> QED BY <1>3, <1>7, <1>8, <1>9 DEF Sorted

\* However the requests of a pipelining client are cut, no byte of the stream is
\* executed twice or out of order, as long as no Content-Length behind another
\* request makes THttpRequest::generate() go back in its buffer.
THEOREM NothingIsExecutedTwice == Spec => []NothingTwice
<1>1. InOrderInv => NothingTwice
  <2>1. InOrderInv /\ state # "back" => NothingTwice
    BY FlatInOrder DEF InOrderInv, TypeOK, StreamOrder
  <2>2. state = "back" => NothingTwice
    BY DEF NothingTwice
  <2> QED BY <2>1, <2>2
<1> QED BY <1>1, InitInOrder, NextInOrder, PTL DEF Spec

\* The buffers hold bytes of the client's requests, and lengthToRead never falls below
\* -1, whatever arrives in one piece (seekRecvBuffer(), readRequest() and generate()).
THEOREM FramingTypeCorrect == Spec => []TypeOK
<1>1. InOrderInv => TypeOK
  BY DEF InOrderInv
<1> QED BY <1>1, InitInOrder, NextInOrder, PTL DEF Spec
=============================================================================
