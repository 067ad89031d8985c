--------------------------- MODULE DataPathProofs ---------------------------
(***************************************************************************)
(* Proofs about DataPath, for every request, every response that a service *)
(* can send, every limit, every size of the buffers and so for every way   *)
(* in which the two streams are cut into reads.                            *)
(***************************************************************************)
EXTENDS DataPath, SequenceFacts

-----------------------------------------------------------------------------
(* Bytes. *)

ByteSeq == Seq(Bytes)

LEMMA CatBytes ==
  \A x, y, z \in ByteSeq :
    /\ Cat(x, y) \in ByteSeq /\ Cat(Cat(x, y), z) = Cat(x, Cat(y, z))
    /\ Cat(x, <<>>) = x /\ Cat(<<>>, x) = x
<1> SUFFICES ASSUME NEW x \in Seq(Bytes), NEW y \in Seq(Bytes), NEW z \in Seq(Bytes)
             PROVE  /\ Cat(x, y) \in Seq(Bytes) /\ Cat(Cat(x, y), z) = Cat(x, Cat(y, z))
                    /\ Cat(x, <<>>) = x /\ Cat(<<>>, x) = x
  BY DEF ByteSeq
<1>1. Cat(x, y) \in Seq(Bytes)
  BY ConcatProperties DEF Cat
<1>2. Cat(x, <<>>) = x /\ Cat(<<>>, x) = x
  BY ConcatEmptySeq DEF Cat
<1> QED BY <1>1, <1>2, CatAssociative

LEMMA CatLen ==
  ASSUME NEW x \in ByteSeq, NEW y \in ByteSeq
  PROVE  Len(Cat(x, y)) = Len(x) + Len(y) /\ Len(x) \in Nat /\ Len(y) \in Nat
BY ConcatProperties, LenProperties DEF ByteSeq, Cat

LEMMA EmptyBytes == <<>> \in ByteSeq /\ Len(<<>>) = 0 /\ \A x \in ByteSeq : Len(x) = 0 => x = <<>>
BY EmptySeq DEF ByteSeq

LEMMA CRLFBytes == CRLF \in ByteSeq /\ Len(CRLF) = 2 /\ CRLF[1] = "r"
<1>1. "r" \in Bytes /\ "l" \in Bytes
  BY BytesAssumption
<1>2. <<"r", "l">> \in Seq(Bytes)
  BY <1>1
<1>3. Len(<<"r", "l">>) = 2 /\ <<"r", "l">>[1] = "r"
  OBVIOUS
<1> QED BY <1>2, <1>3 DEF CRLF, ByteSeq

(* Taking the expected x off the front of the buffer b. *)
LEMMA TakeBytes ==
  ASSUME NEW b \in ByteSeq, NEW R \in ByteSeq, NEW x \in ByteSeq, NEW z \in ByteSeq,
         Cat(b, R) = Cat(x, z), Len(x) <= Len(b)
  PROVE  /\ SubSeq(b, 1, Len(x)) = x
         /\ Drop(b, Len(x)) \in ByteSeq
         /\ Cat(Drop(b, Len(x)), R) = z
<1>1. Drop(b, Len(x)) = After(b, Len(x)) /\ SubSeq(b, 1, Len(x)) = First(b, Len(x))
  BY DEF Drop, After, First
<1>2. /\ First(b, Len(x)) = x
      /\ After(b, Len(x)) \in ByteSeq
      /\ Cat(After(b, Len(x)), R) = z
  BY TakePrefix DEF ByteSeq
<1> QED BY <1>1, <1>2

(* Find looks for the pattern q in a buffer whose bytes, with those that   *)
(* are still to come, are L, then q: it finds q behind L as soon as it is  *)
(* complete, when L does not hold the byte with which q starts.            *)
LEMMA FindAfter ==
  ASSUME NEW b \in ByteSeq, NEW R \in ByteSeq, NEW L \in ByteSeq, NEW q \in ByteSeq,
         NEW z \in ByteSeq, Cat(b, R) = Cat(L, Cat(q, z)), Len(q) > 0,
         \A i \in 1..Len(L) : L[i] # q[1]
  PROVE  Find(b, q) = IF Len(b) >= Len(L) + Len(q) THEN Len(L) + 1 ELSE 0
<1> DEFINE hits == {i \in 1..(Len(b) - Len(q) + 1) : SubSeq(b, i, i + Len(q) - 1) = q}
           k == Len(L) + 1
<1>1. Len(b) \in Nat /\ Len(q) \in Nat /\ Len(L) \in Nat
  BY LenProperties DEF ByteSeq
<1>2. ASSUME NEW i \in 1..Len(b), i <= Len(L) PROVE b[i] # q[1]
  <2>1. b[i] = L[i]
    BY <1>2, PrefixAgrees, CatBytes DEF ByteSeq
  <2> QED BY <1>1, <1>2, <2>1
<1>3. ASSUME NEW i \in hits PROVE i \in 1..(Len(b) - Len(q) + 1) /\ i > Len(L)
  <2>1. i \in 1..(Len(b) - Len(q) + 1) /\ SubSeq(b, i, i + Len(q) - 1) = q
    BY <1>3
  <2>2. i \in 1..Len(b) /\ i + Len(q) - 1 \in 1..Len(b) /\ i <= i + Len(q) - 1
    BY <1>1, <2>1
  <2>3. SubSeq(b, i, i + Len(q) - 1)[1] = b[i]
    BY <1>1, <2>2 DEF ByteSeq
  <2>4. ~(i <= Len(L))
    BY <1>2, <2>1, <2>2, <2>3
  <2> QED BY <1>1, <2>1, <2>4
<1>4. CASE Len(b) >= Len(L) + Len(q)
  <2>1. k \in 1..(Len(b) - Len(q) + 1)
    BY <1>1, <1>4
  <2>2. Cat(Drop(b, Len(L)), R) = Cat(q, z) /\ Drop(b, Len(L)) \in ByteSeq
    <3>1. Cat(q, z) \in ByteSeq /\ Len(L) <= Len(b)
      BY <1>1, <1>4, CatBytes
    <3> QED BY <3>1, TakeBytes
  <2>3. Len(Drop(b, Len(L))) = Len(b) - Len(L)
    BY <1>1, <1>4 DEF Drop, ByteSeq
  <2>4. SubSeq(Drop(b, Len(L)), 1, Len(q)) = q
    BY <1>1, <1>4, <2>2, <2>3, TakeBytes
  <2>5. SubSeq(b, k, k + Len(q) - 1) = q
    <3>1. SubSeq(b, k, k + Len(q) - 1) = SubSeq(Drop(b, Len(L)), 1, Len(q))
      <4> DEFINE u == SubSeq(b, k, k + Len(q) - 1)
                 d == Drop(b, Len(L))
                 v == SubSeq(d, 1, Len(q))
      <4>1. u \in Seq(Bytes) /\ Len(u) = Len(q) /\ \A i \in 1..Len(q) : u[i] = b[i + Len(L)]
        BY <1>1, <1>4 DEF ByteSeq
      <4>2. \A i \in 1..Len(q) : d[i] = b[i + Len(L)]
        BY <1>1, <1>4 DEF Drop, ByteSeq
      <4>3. d \in Seq(Bytes) /\ Len(d) = Len(b) - Len(L)
        BY <2>2, <2>3 DEF ByteSeq
      <4> HIDE DEF d, u
      <4>4. v \in Seq(Bytes) /\ Len(v) = Len(q) /\ \A i \in 1..Len(q) : v[i] = d[i]
        BY <1>1, <1>4, <4>3
      <4> HIDE DEF v
      <4>5. u = v
        BY <1>1, <4>1, <4>2, <4>4, SeqEqual
      <4> QED BY <4>5 DEF u, v, d
    <3> QED BY <2>4, <3>1
  <2>6. k \in hits /\ \A j \in hits : k <= j
    BY <1>1, <1>3, <2>1, <2>5
  <2> HIDE DEF hits
  <2>7. (CHOOSE i \in hits : \A j \in hits : i <= j) = k
    <3>1. \A i \in hits : i \in Int
      BY <1>1, <1>3
    <3>2. \A i \in hits : (\A j \in hits : i <= j) => i = k
      BY <2>6, <3>1
    <3> QED BY <2>6, <3>2
  <2>8. hits # {}
    BY <2>6
  <2> QED BY <1>4, <2>7, <2>8 DEF Find, hits
<1>5. CASE ~(Len(b) >= Len(L) + Len(q))
  <2>1. hits = {}
    <3> SUFFICES ASSUME NEW i \in hits PROVE FALSE
      OBVIOUS
    <3>1. i \in 1..(Len(b) - Len(q) + 1) /\ i > Len(L)
      BY <1>3
    <3> QED BY <1>1, <1>5, <3>1
  <2> QED BY <1>5, <2>1 DEF Find
<1> QED BY <1>4, <1>5

-----------------------------------------------------------------------------
(***************************************************************************)
(* What a reader and the bytes that it has not read yet, its rest, have to *)
(* do with the response r, at every place where it can be.  It does not    *)
(* matter how much of what is to come lies in the buffer already.          *)
(***************************************************************************)
Parts ==
  {t \in Seq(ByteSeq) :
     \A i \in DOMAIN t : \E s \in DOMAIN SizeOf : SizeOf[s] = Len(t[i]) /\ SizeOf[s] # 0}

HeadFits(r) == r.infos <= MaxInfos /\ HeadLen(r) <= MaxHead

(* The header sections that are left, and what comes behind them. *)
HeadsToCome(n, r) == Cat(Infos(n), Cat(Head1("h", r.pad), AfterHeadWire(r)))

(* The chunks of the parts that are left, and the last one. *)
ChunksToCome(todo, r) == Cat(Chunks(todo, r.ext), LastChunk(r.ext))

AtHead(rd, rest, r) ==
  /\ rd.infos <= r.infos /\ rd.infos <= MaxInfos /\ rd.body = <<>>
  /\ Cat(rd.buf, rest) = HeadsToCome(r.infos - rd.infos, r)

AtFixed(rd, rest, r) ==
  /\ r.framing = "fixed" /\ HeadFits(r) /\ Len(Body(r)) <= MaxBody
  /\ rd.buf = <<>> /\ rd.want = Len(Body(r)) /\ Cat(rd.body, rest) = Body(r)

AtClose(rd, rest, r) ==
  /\ r.framing = "close" /\ HeadFits(r) /\ Len(rd.body) <= MaxBody
  /\ rd.buf = <<>> /\ Cat(rd.body, rest) = Body(r)

AtChunk(rd, r) == r.framing = "chunked" /\ HeadFits(r) /\ Len(rd.body) <= MaxBody

AtSize(rd, rest, r) ==
  /\ AtChunk(rd, r)
  /\ \E todo \in Parts : /\ Cat(rd.body, FlattenSeq(todo)) = Body(r)
                         /\ Cat(rd.buf, rest) = ChunksToCome(todo, r)

AtData(rd, rest, r) ==
  /\ AtChunk(rd, r)
  /\ \E todo \in Parts, data \in ByteSeq :
       /\ rd.want = Len(data) /\ Len(rd.body) + Len(data) <= MaxBody
       /\ Cat(rd.body, Cat(data, FlattenSeq(todo))) = Body(r)
       /\ Cat(rd.buf, rest) = Cat(data, Cat(CRLF, ChunksToCome(todo, r)))

AtCrlf(rd, rest, r) ==
  /\ AtChunk(rd, r)
  /\ \E todo \in Parts : /\ Cat(rd.body, FlattenSeq(todo)) = Body(r)
                         /\ Cat(rd.buf, rest) = Cat(CRLF, ChunksToCome(todo, r))

AtTrailer(rd, rest, r) ==
  /\ AtChunk(rd, r) /\ rd.body = Body(r)
  /\ Cat(rd.buf, rest) \in {Trailer(r.ext), CRLF}

Places == {"head", "fixed", "close", "size", "data", "crlf", "trailer", "ok", "error"}

Readers == [at : Places, buf : ByteSeq, body : ByteSeq, want : Nat, infos : Nat]

Reads(rd, rest, r) ==
  CASE rd.at = "head" -> AtHead(rd, rest, r)
    [] rd.at = "fixed" -> AtFixed(rd, rest, r)
    [] rd.at = "close" -> AtClose(rd, rest, r)
    [] rd.at = "size" -> AtSize(rd, rest, r)
    [] rd.at = "data" -> AtData(rd, rest, r)
    [] rd.at = "crlf" -> AtCrlf(rd, rest, r)
    [] rd.at = "trailer" -> AtTrailer(rd, rest, r)
    [] OTHER -> FALSE

(* The bytes that the server has not taken out of the stream. *)
Rest == SubSeq(Wire(resp), taken + 1, Len(Wire(resp)))

-----------------------------------------------------------------------------
(* The pieces that responses are made of. *)

LEMMA OneByte ==
  ASSUME NEW s \in Bytes
  PROVE  <<s>> \in ByteSeq /\ Len(<<s>>) = 1 /\ <<s>>[1] = s
BY DEF ByteSeq

HeadLine(start, pad) == Cat(<<start>>, [i \in 1..pad |-> "p"])
HeadEnd == Cat(CRLF, CRLF)

LEMMA HeadEndFacts == HeadEnd \in ByteSeq /\ Len(HeadEnd) = 4 /\ HeadEnd[1] = "r"
<1>1. HeadEnd \in ByteSeq /\ Len(HeadEnd) = 4
  <2>1. Len(Cat(CRLF, CRLF)) = Len(CRLF) + Len(CRLF)
    BY CRLFBytes, CatLen
  <2>2. Cat(CRLF, CRLF) \in ByteSeq
    BY CRLFBytes, CatBytes
  <2> QED BY <2>1, <2>2, CRLFBytes DEF HeadEnd
<1>2. HeadEnd[1] = "r"
  BY DEF HeadEnd, Cat, CRLF
<1> QED BY <1>1, <1>2

LEMMA HeadLineFacts ==
  ASSUME NEW start \in {"i", "h"}, NEW pad \in Nat
  PROVE  /\ HeadLine(start, pad) \in ByteSeq
         /\ Len(HeadLine(start, pad)) = 1 + pad
         /\ HeadLine(start, pad)[1] = start
         /\ \A i \in 1..Len(HeadLine(start, pad)) : HeadLine(start, pad)[i] # "r"
<1> DEFINE P == [i \in 1..pad |-> "p"]
           H == <<start>> \o P
<1>1. "p" \in Bytes /\ start \in Bytes /\ start # "r"
  BY BytesAssumption
<1>2. P \in Seq(Bytes) /\ Len(P) = pad /\ \A i \in 1..pad : P[i] = "p"
  BY <1>1
<1>3. <<start>> \in Seq(Bytes) /\ Len(<<start>>) = 1 /\ <<start>>[1] = start
  BY <1>1
<1> HIDE DEF P
<1>4. H \in Seq(Bytes) /\ Len(H) = 1 + pad
      /\ \A i \in 1..(1 + pad) : H[i] = IF i <= 1 THEN <<start>>[i] ELSE P[i - 1]
  BY <1>2, <1>3, ConcatProperties
<1> HIDE DEF H
<1>5. \A i \in 1..(1 + pad) : H[i] = IF i = 1 THEN start ELSE "p"
  BY <1>2, <1>3, <1>4
<1>6. HeadLine(start, pad) = H
  BY DEF HeadLine, Cat, H, P
<1> QED BY <1>1, <1>4, <1>5, <1>6 DEF ByteSeq

LEMMA Head1Is ==
  ASSUME NEW start \in {"i", "h"}, NEW pad \in Nat
  PROVE  Head1(start, pad) = Cat(HeadLine(start, pad), HeadEnd)
<1>1. Head1(start, pad) = Cat(Cat(HeadLine(start, pad), CRLF), CRLF)
  BY DEF Head1, Cat, HeadLine
<1>2. HeadLine(start, pad) \in ByteSeq /\ CRLF \in ByteSeq
  BY HeadLineFacts, CRLFBytes
<1> QED BY <1>1, <1>2, CatBytes DEF HeadEnd

LEMMA Head1Bytes ==
  ASSUME NEW start \in {"i", "h"}, NEW pad \in Nat
  PROVE  Head1(start, pad) \in ByteSeq
<1>1. HeadLine(start, pad) \in ByteSeq /\ HeadEnd \in ByteSeq
  BY HeadLineFacts, HeadEndFacts
<1>2. Cat(HeadLine(start, pad), HeadEnd) \in ByteSeq
  BY <1>1, CatBytes
<1> QED BY <1>2, Head1Is

(* n times the same part, one after the other. *)
LEMMA RepeatOnce ==
  ASSUME NEW S, NEW x \in S, NEW n \in Nat, n # 0
  PROVE  /\ [i \in 1..n |-> x] = <<x>> \o [i \in 1..(n - 1) |-> x]
         /\ [i \in 1..(n - 1) |-> x] \in Seq(S)
<1> DEFINE F(m) == [i \in 1..m |-> x]
<1>1. n - 1 \in Nat
  OBVIOUS
<1>2. \A m \in Nat : F(m) \in Seq(S) /\ Len(F(m)) = m /\ \A i \in 1..m : F(m)[i] = x
  OBVIOUS
<1>3. <<x>> \in Seq(S) /\ Len(<<x>>) = 1 /\ <<x>>[1] = x
  OBVIOUS
<1> HIDE DEF F
<1>4. <<x>> \o F(n - 1) \in Seq(S) /\ Len(<<x>> \o F(n - 1)) = n
      /\ \A i \in 1..n : (<<x>> \o F(n - 1))[i] = IF i <= 1 THEN <<x>>[i] ELSE F(n - 1)[i - 1]
  BY <1>1, <1>2, <1>3, ConcatProperties
<1>5. \A i \in 1..n : (<<x>> \o F(n - 1))[i] = F(n)[i]
  BY <1>1, <1>2, <1>3, <1>4
<1>6. F(n) = <<x>> \o F(n - 1)
  BY <1>2, <1>4, <1>5, SeqEqual
<1>7. F(n - 1) \in Seq(S)
  BY <1>1, <1>2
<1> QED BY <1>6, <1>7 DEF F

LEMMA InfosBytes ==
  ASSUME NEW n \in Nat
  PROVE  Infos(n) \in ByteSeq
<1> DEFINE h == Head1("i", 0)
<1>1. h \in ByteSeq
  BY Head1Bytes
<1> HIDE DEF h
<1>2. [i \in 1..n |-> h] \in Seq(ByteSeq)
  BY <1>1
<1>3. FlattenSeq([i \in 1..n |-> h]) \in ByteSeq
  BY <1>2, FlattenType DEF ByteSeq
<1> QED BY <1>3 DEF Infos, h

LEMMA InfosStep ==
  ASSUME NEW n \in Nat
  PROVE  /\ n = 0 => Infos(n) = <<>>
         /\ n # 0 => Infos(n) = Cat(Head1("i", 0), Infos(n - 1))
<1> DEFINE h == Head1("i", 0)
           F(m) == [i \in 1..m |-> h]
<1>1. h \in ByteSeq
  BY Head1Bytes
<1>2. ASSUME n = 0 PROVE Infos(n) = <<>>
  <2>1. F(0) = <<>>
    OBVIOUS
  <2> QED BY <1>2, <2>1, FlattenEmpty DEF Infos
<1> HIDE DEF h
<1>3. ASSUME n # 0 PROVE FlattenSeq(F(n)) = Cat(h, FlattenSeq(F(n - 1)))
  <2>1. F(n) = <<h>> \o F(n - 1) /\ F(n - 1) \in Seq(ByteSeq)
    BY <1>1, <1>3, RepeatOnce
  <2> HIDE DEF F
  <2>2. FlattenSeq(<<h>> \o F(n - 1)) = h \o FlattenSeq(F(n - 1))
    BY <1>1, <2>1, FlattenPrepend DEF ByteSeq
  <2> QED BY <2>1, <2>2 DEF Cat
<1> QED BY <1>2, <1>3 DEF Infos, h

IsSize(n) == \E s \in DOMAIN SizeOf : SizeOf[s] = n

SizeLine(n, ext) == Cat(<<SizeByte(n)>>, Extension(ext))

LEMMA SizeByteFacts ==
  ASSUME NEW n, IsSize(n)
  PROVE  /\ SizeByte(n) \in DOMAIN SizeOf /\ SizeOf[SizeByte(n)] = n
         /\ SizeByte(n) \in Bytes /\ SizeByte(n) # "r" /\ n \in Nat
<1>1. SizeByte(n) \in DOMAIN SizeOf /\ SizeOf[SizeByte(n)] = n
  BY DEF SizeByte, IsSize
<1>2. n \in Nat
  BY <1>1, BytesAssumption
<1> QED BY <1>1, <1>2, BytesAssumption

LEMMA SizeLineFacts ==
  ASSUME NEW n, IsSize(n), NEW ext \in BOOLEAN
  PROVE  /\ SizeLine(n, ext) \in ByteSeq
         /\ Len(SizeLine(n, ext)) \in 1..2
         /\ SizeLine(n, ext)[1] = SizeByte(n)
         /\ \A i \in 1..Len(SizeLine(n, ext)) : SizeLine(n, ext)[i] # "r"
<1> DEFINE s == SizeByte(n)
<1>1. s \in Bytes /\ s # "r" /\ "x" \in Bytes
  BY SizeByteFacts, BytesAssumption
<1> HIDE DEF s
<1>2. CASE ext
  <2> DEFINE X == <<s>> \o <<"x">>
  <2>1. SizeLine(n, ext) = X
    BY <1>2 DEF SizeLine, Extension, Cat, s
  <2>2. <<s>> \in Seq(Bytes) /\ Len(<<s>>) = 1 /\ <<s>>[1] = s
    BY <1>1
  <2>3. <<"x">> \in Seq(Bytes) /\ Len(<<"x">>) = 1 /\ <<"x">>[1] = "x"
    BY <1>1
  <2>4. X \in Seq(Bytes) /\ Len(X) = 2 /\ \A i \in 1..2 : X[i] = IF i <= 1 THEN <<s>>[i] ELSE <<"x">>[i - 1]
    BY <2>2, <2>3, ConcatProperties
  <2> HIDE DEF X
  <2>5. X[1] = s /\ \A i \in 1..2 : X[i] # "r"
    BY <1>1, <2>2, <2>3, <2>4
  <2> QED BY <2>1, <2>4, <2>5 DEF ByteSeq, s
<1>3. CASE ~ext
  <2>1. SizeLine(n, ext) = <<s>>
    BY <1>3 DEF SizeLine, Extension, Cat, s
  <2>2. <<s>> \in Seq(Bytes) /\ Len(<<s>>) = 1 /\ <<s>>[1] = s
    BY <1>1
  <2>3. \A i \in 1..1 : <<s>>[i] # "r"
    BY <1>1
  <2> QED BY <2>1, <2>2, <2>3 DEF ByteSeq, s
<1> QED BY <1>2, <1>3

LEMMA ChunkIs ==
  ASSUME NEW data \in ByteSeq, IsSize(Len(data)), NEW ext \in BOOLEAN
  PROVE  /\ Chunk(data, ext) \in ByteSeq
         /\ \A z \in ByteSeq :
              Cat(Chunk(data, ext), z)
                = Cat(SizeLine(Len(data), ext), Cat(CRLF, Cat(data, Cat(CRLF, z))))
<1> DEFINE L == SizeLine(Len(data), ext)
<1>1. Chunk(data, ext) = Cat(Cat(Cat(L, CRLF), data), CRLF)
  BY DEF Chunk, Cat, SizeLine
<1>2. L \in ByteSeq /\ CRLF \in ByteSeq
  BY SizeLineFacts, CRLFBytes
<1> HIDE DEF L
<1> DEFINE C == CRLF
<1>3. C \in ByteSeq
  BY <1>2
<1> HIDE DEF C
<1>4. Cat(Cat(Cat(L, C), data), C) \in ByteSeq
  BY <1>2, <1>3, CatBytes
<1>5. ASSUME NEW z \in ByteSeq
      PROVE  Cat(Cat(Cat(Cat(L, C), data), C), z) = Cat(L, Cat(C, Cat(data, Cat(C, z))))
  <2>1. Cat(L, C) \in ByteSeq /\ Cat(Cat(L, C), data) \in ByteSeq /\ Cat(C, z) \in ByteSeq
        /\ Cat(data, Cat(C, z)) \in ByteSeq
    BY <1>2, <1>3, CatBytes
  <2>2. Cat(Cat(Cat(Cat(L, C), data), C), z) = Cat(Cat(Cat(L, C), data), Cat(C, z))
    BY <1>3, <2>1, CatBytes
  <2>3. Cat(Cat(Cat(L, C), data), Cat(C, z)) = Cat(Cat(L, C), Cat(data, Cat(C, z)))
    BY <2>1, CatBytes
  <2>4. Cat(Cat(L, C), Cat(data, Cat(C, z))) = Cat(L, Cat(C, Cat(data, Cat(C, z))))
    BY <1>2, <1>3, <2>1, CatBytes
  <2> QED BY <2>2, <2>3, <2>4
<1> QED BY <1>1, <1>4, <1>5 DEF C, L

LEMMA TrailerIs ==
  ASSUME NEW ext \in BOOLEAN
  PROVE  /\ Trailer(ext) = IF ext THEN Cat(<<"t">>, Cat(CRLF, CRLF)) ELSE Cat(<<>>, Cat(CRLF, <<>>))
         /\ Trailer(ext) \in ByteSeq
<1>1. <<"t">> \in ByteSeq /\ CRLF \in ByteSeq
  BY BytesAssumption, OneByte, CRLFBytes
<1>2. CASE ext
  <2>1. Trailer(ext) = Cat(Cat(<<"t">>, CRLF), CRLF)
    BY <1>2 DEF Trailer, Cat
  <2>2. Cat(Cat(<<"t">>, CRLF), CRLF) = Cat(<<"t">>, Cat(CRLF, CRLF))
    BY <1>1, CatBytes
  <2>3. Cat(Cat(<<"t">>, CRLF), CRLF) \in ByteSeq
    BY <1>1, CatBytes
  <2> QED BY <1>2, <2>1, <2>2, <2>3
<1>3. CASE ~ext
  <2>1. Trailer(ext) = Cat(<<>>, CRLF)
    BY <1>3 DEF Trailer, Cat
  <2>2. Cat(<<>>, CRLF) = CRLF /\ Cat(CRLF, <<>>) = CRLF
    BY <1>1, CatBytes
  <2> QED BY <1>1, <1>3, <2>1, <2>2
<1> QED BY <1>2, <1>3

LEMMA LastChunkIs ==
  ASSUME NEW ext \in BOOLEAN
  PROVE  /\ LastChunk(ext) \in ByteSeq /\ IsSize(0)
         /\ LastChunk(ext) = Cat(SizeLine(0, FALSE), Cat(CRLF, Trailer(ext)))
<1> DEFINE s == <<SizeByte(0)>>
<1>1. IsSize(0)
  BY BytesAssumption DEF IsSize
<1>2. s \in ByteSeq /\ CRLF \in ByteSeq /\ Trailer(ext) \in ByteSeq
  BY <1>1, SizeByteFacts, OneByte, CRLFBytes, TrailerIs
<1>3. LastChunk(ext) = Cat(Cat(s, CRLF), Trailer(ext))
  BY DEF LastChunk, Cat
<1>4. SizeLine(0, FALSE) = Cat(s, <<>>)
  BY DEF SizeLine, Extension
<1> HIDE DEF s
<1>5. Cat(Cat(s, CRLF), Trailer(ext)) = Cat(s, Cat(CRLF, Trailer(ext)))
  BY <1>2, CatBytes
<1>6. Cat(Cat(s, CRLF), Trailer(ext)) \in ByteSeq
  BY <1>2, CatBytes
<1>7. SizeLine(0, FALSE) = s
  BY <1>2, <1>4, CatBytes
<1> QED BY <1>1, <1>3, <1>5, <1>6, <1>7

(* The chunks of a sequence of parts, from the front. *)
LEMMA PartsSplit ==
  ASSUME NEW todo \in Parts, todo # <<>>
  PROVE  /\ Head(todo) \in ByteSeq /\ IsSize(Len(Head(todo))) /\ Len(Head(todo)) # 0
         /\ Tail(todo) \in Parts
<1>1. todo \in Seq(ByteSeq)
      /\ \A i \in DOMAIN todo : \E s \in DOMAIN SizeOf : SizeOf[s] = Len(todo[i]) /\ SizeOf[s] # 0
  BY DEF Parts
<1> HIDE DEF ByteSeq
<1>2. Head(todo) = todo[1] /\ 1 \in DOMAIN todo /\ Head(todo) \in ByteSeq
  BY <1>1
<1>3. IsSize(Len(Head(todo))) /\ Len(Head(todo)) # 0
  BY <1>1, <1>2 DEF IsSize
<1>4. Tail(todo) \in Seq(ByteSeq) /\ \A i \in DOMAIN Tail(todo) :
        Tail(todo)[i] = todo[i + 1] /\ i + 1 \in DOMAIN todo
  BY <1>1
<1>5. Tail(todo) \in Parts
  BY <1>1, <1>4 DEF Parts
<1> QED BY <1>2, <1>3, <1>5

LEMMA ChunkSeqType ==
  ASSUME NEW todo \in Parts, NEW ext \in BOOLEAN
  PROVE  /\ todo \in Seq(ByteSeq)
         /\ [i \in DOMAIN todo |-> Chunk(todo[i], ext)] \in Seq(ByteSeq)
<1> DEFINE F == [i \in 1..Len(todo) |-> Chunk(todo[i], ext)]
<1>1. todo \in Seq(ByteSeq)
      /\ \A i \in DOMAIN todo : \E s \in DOMAIN SizeOf : SizeOf[s] = Len(todo[i]) /\ SizeOf[s] # 0
  BY DEF Parts
<1> HIDE DEF ByteSeq
<1>2. DOMAIN todo = 1..Len(todo) /\ Len(todo) \in Nat
  BY <1>1
<1>3. ASSUME NEW i \in 1..Len(todo) PROVE Chunk(todo[i], ext) \in ByteSeq
  <2>1. todo[i] \in ByteSeq /\ IsSize(Len(todo[i]))
    BY <1>1, <1>2 DEF IsSize
  <2> QED BY <2>1, ChunkIs
<1>4. F \in [1..Len(todo) -> ByteSeq]
  BY <1>3
<1>5. F \in Seq(ByteSeq)
  BY <1>2, <1>4, SeqDef
<1> QED BY <1>1, <1>2, <1>5

LEMMA ChunksStep ==
  ASSUME NEW todo \in Parts, NEW ext \in BOOLEAN
  PROVE  /\ Chunks(todo, ext) \in ByteSeq /\ FlattenSeq(todo) \in ByteSeq
         /\ todo = <<>> => Chunks(todo, ext) = <<>> /\ FlattenSeq(todo) = <<>>
         /\ todo # <<>> =>
              /\ Chunks(todo, ext) = Cat(Chunk(Head(todo), ext), Chunks(Tail(todo), ext))
              /\ FlattenSeq(todo) = Cat(Head(todo), FlattenSeq(Tail(todo)))
<1> DEFINE F(t) == [i \in DOMAIN t |-> Chunk(t[i], ext)]
<1>1. F(todo) \in Seq(ByteSeq) /\ todo \in Seq(ByteSeq)
  BY ChunkSeqType
<1> HIDE DEF F
<1>2. Chunks(todo, ext) \in ByteSeq /\ FlattenSeq(todo) \in ByteSeq
  <2>1. FlattenSeq(F(todo)) \in ByteSeq /\ FlattenSeq(todo) \in ByteSeq
    BY <1>1, FlattenType DEF ByteSeq
  <2> QED BY <2>1 DEF Chunks, F
<1>3. ASSUME todo = <<>> PROVE Chunks(todo, ext) = <<>> /\ FlattenSeq(todo) = <<>>
  <2>1. F(<<>>) = <<>>
    BY DEF F
  <2>2. FlattenSeq(F(todo)) = <<>>
    BY <1>3, <2>1, FlattenEmpty
  <2> QED BY <1>3, <2>2, FlattenEmpty DEF Chunks, F
<1>4. ASSUME todo # <<>>
      PROVE  /\ Chunks(todo, ext) = Cat(Chunk(Head(todo), ext), Chunks(Tail(todo), ext))
             /\ FlattenSeq(todo) = Cat(Head(todo), FlattenSeq(Tail(todo)))
  <2> DEFINE x == Head(todo)
             t == Tail(todo)
             c == Chunk(x, ext)
  <2>1. x \in ByteSeq /\ t \in Parts /\ IsSize(Len(x))
    BY <1>4, PartsSplit
  <2>2. t \in Seq(ByteSeq) /\ F(t) \in Seq(ByteSeq)
    <3> HIDE DEF t
    <3> QED BY <2>1, ChunkSeqType DEF F
  <2>3. todo = <<x>> \o t
    BY <1>1, <1>4
  <2>4. c \in ByteSeq
    <3> HIDE DEF x
    <3> QED BY <2>1, ChunkIs
  <2>5. FlattenSeq(todo) = x \o FlattenSeq(t)
    <3> HIDE DEF x, t
    <3> QED BY <2>1, <2>2, <2>3, FlattenPrepend DEF ByteSeq
  <2>6. F(todo) = <<c>> \o F(t)
    <3>1. Len(todo) = 1 + Len(t) /\ Len(t) \in Nat /\ DOMAIN todo = 1..Len(todo)
          /\ DOMAIN t = 1..Len(t) /\ todo[1] = x
          /\ \A i \in 1..Len(t) : t[i] = todo[i + 1]
      <4> HIDE DEF ByteSeq
      <4> QED BY <1>1, <1>4
    <3> HIDE DEF x, t
    <3>2. Len(F(t)) = Len(t) /\ \A i \in 1..Len(t) : F(t)[i] = Chunk(t[i], ext)
      <4>1. DOMAIN F(t) = 1..Len(t) /\ \A i \in 1..Len(t) : F(t)[i] = Chunk(t[i], ext)
        BY <3>1 DEF F
      <4> QED BY <2>2, <3>1, <4>1
    <3>3. Len(F(todo)) = 1 + Len(t) /\ \A i \in 1..(1 + Len(t)) : F(todo)[i] = Chunk(todo[i], ext)
      <4>1. DOMAIN F(todo) = 1..(1 + Len(t))
            /\ \A i \in 1..(1 + Len(t)) : F(todo)[i] = Chunk(todo[i], ext)
        BY <3>1 DEF F
      <4> QED BY <1>1, <3>1, <4>1
    <3>4. <<c>> \in Seq(ByteSeq) /\ Len(<<c>>) = 1 /\ <<c>>[1] = c
      <4> HIDE DEF c, ByteSeq
      <4> QED BY <2>4
    <3>5. /\ <<c>> \o F(t) \in Seq(ByteSeq) /\ Len(<<c>> \o F(t)) = 1 + Len(t)
          /\ \A i \in 1..(1 + Len(t)) :
               (<<c>> \o F(t))[i] = IF i <= 1 THEN <<c>>[i] ELSE F(t)[i - 1]
      <4> HIDE DEF c, ByteSeq
      <4> QED BY <2>2, <3>1, <3>2, <3>4, ConcatProperties
    <3>6. ASSUME NEW i \in 1..(1 + Len(t)) PROVE (<<c>> \o F(t))[i] = F(todo)[i]
      <4>1. CASE i = 1
        BY <3>1, <3>3, <3>4, <3>5, <4>1
      <4>2. CASE i # 1
        <5>1. i - 1 \in 1..Len(t) /\ (i - 1) + 1 = i /\ ~(i <= 1)
          BY <3>1, <4>2
        <5>2. (<<c>> \o F(t))[i] = F(t)[i - 1]
          BY <3>5, <5>1
        <5>3. F(t)[i - 1] = Chunk(t[i - 1], ext) /\ t[i - 1] = todo[i]
          BY <3>1, <3>2, <5>1
        <5>4. F(todo)[i] = Chunk(todo[i], ext)
          BY <3>3
        <5> QED BY <5>2, <5>3, <5>4
      <4> QED BY <4>1, <4>2
    <3> HIDE DEF c, ByteSeq
    <3> QED BY <1>1, <3>3, <3>5, <3>6, SeqEqual
  <2>7. FlattenSeq(F(todo)) = c \o FlattenSeq(F(t))
    <3> HIDE DEF c, t, x
    <3> QED BY <2>2, <2>4, <2>6, FlattenPrepend DEF ByteSeq
  <2> QED BY <2>5, <2>7 DEF Chunks, F, Cat
<1> QED BY <1>2, <1>3, <1>4

-----------------------------------------------------------------------------
(***************************************************************************)
(* One step of the reader, place by place.                                 *)
(***************************************************************************)
Complete(rd, r) ==
  Acceptable(r) /\ rd.body = IF r.framing = "nobody" THEN <<>> ELSE Body(r)

(* What becomes of a reader: it goes on, it has everything, or it is right *)
(* to refuse.                                                              *)
Outcome(rd, rest, r) ==
  /\ rd \in Readers
  /\ ~Finished(rd) => Reads(rd, rest, r)
  /\ rd.at = "ok" => Complete(rd, r)
  /\ rd.at = "error" => ~Acceptable(r) \/ r.framing = "close"

LEMMA ResponseFacts ==
  ASSUME NEW r \in Responses
  PROVE  /\ r \in Response /\ r.infos \in Nat /\ r.pad \in Nat /\ r.ext \in BOOLEAN
         /\ r.framing \in Framings
         /\ r.parts \in Seq(ByteSeq) /\ Body(r) \in ByteSeq /\ Len(Body(r)) \in Nat
         /\ r.framing = "chunked" => r.parts \in Parts
<1>1. Sendable(r)
  BY PathInputs
<1>2. r \in Response
  BY <1>1 DEF Sendable
<1>3. r.infos \in Nat /\ r.pad \in Nat /\ r.framing \in Framings
  BY <1>2 DEF Response
<1>4. r.ext \in BOOLEAN
  BY <1>2, Zenon DEF Response
<1>5. r.parts \in Seq(Seq(Bytes))
  BY <1>2 DEF Response
<1>6. Body(r) \in Seq(Bytes)
  BY <1>5, FlattenType DEF Body
<1>7. r.framing = "chunked" => r.parts \in Parts
  BY <1>1, <1>5 DEF Sendable, Parts, ByteSeq
<1>8. Body(r) \in ByteSeq /\ Len(Body(r)) \in Nat /\ r.parts \in Seq(ByteSeq)
  BY <1>5, <1>6, LenProperties DEF ByteSeq
<1> QED BY <1>2, <1>3, <1>4, <1>7, <1>8

LEMMA ReaderFacts ==
  ASSUME NEW rd \in Readers
  PROVE  /\ rd.buf \in ByteSeq /\ rd.body \in ByteSeq /\ rd.want \in Nat /\ rd.infos \in Nat
         /\ Len(rd.buf) \in Nat /\ Len(rd.body) \in Nat
<1>1. rd.buf \in ByteSeq /\ rd.body \in ByteSeq /\ rd.want \in Nat /\ rd.infos \in Nat
  BY DEF Readers
<1> QED BY <1>1, LenProperties DEF ByteSeq

LEMMA ErrorFacts ==
  ASSUME NEW rd \in Readers
  PROVE  /\ Error(rd) \in Readers /\ Error(rd).at = "error" /\ Finished(Error(rd))
         /\ rd.at # "error" => Error(rd) # rd
BY DEF Readers, Error, Places, Finished

LEMMA DropLen ==
  ASSUME NEW b \in ByteSeq, NEW n \in Nat, n <= Len(b)
  PROVE  Drop(b, n) \in ByteSeq /\ Len(Drop(b, n)) = Len(b) - n
BY DEF Drop, ByteSeq

(* read_line_crlf on a buffer that begins with the line L. *)
LEMMA LineTaken ==
  ASSUME NEW b \in ByteSeq, NEW R \in ByteSeq, NEW L \in ByteSeq, NEW z \in ByteSeq,
         Cat(b, R) = Cat(L, Cat(CRLF, z)), \A i \in 1..Len(L) : L[i] # "r"
  PROVE  /\ Len(b) < Len(L) + 2 => Find(b, CRLF) = 0 /\ R # <<>>
         /\ Len(b) >= Len(L) + 2 =>
              /\ Find(b, CRLF) = Len(L) + 1
              /\ SubSeq(b, 1, Find(b, CRLF) - 1) = L
              /\ Drop(b, Find(b, CRLF) + 1) \in ByteSeq
              /\ Cat(Drop(b, Find(b, CRLF) + 1), R) = z
              /\ Drop(b, Find(b, CRLF) + 1) # b
<1>1. Len(b) \in Nat /\ Len(L) \in Nat /\ Len(z) \in Nat
  BY LenProperties DEF ByteSeq
<1>2. CRLF \in ByteSeq /\ Len(CRLF) = 2 /\ CRLF[1] = "r" /\ Cat(CRLF, z) \in ByteSeq
  BY CRLFBytes, CatBytes
<1>3. Find(b, CRLF) = IF Len(b) >= Len(L) + 2 THEN Len(L) + 1 ELSE 0
  <2>1. Len(CRLF) > 0 /\ \A i \in 1..Len(L) : L[i] # CRLF[1]
    BY <1>2
  <2>2. Find(b, CRLF) = IF Len(b) >= Len(L) + Len(CRLF) THEN Len(L) + 1 ELSE 0
    BY <1>2, <2>1, FindAfter
  <2> QED BY <1>2, <2>2
<1>4. ASSUME Len(b) < Len(L) + 2 PROVE Find(b, CRLF) = 0 /\ R # <<>>
  <2>1. Find(b, CRLF) = 0
    BY <1>1, <1>3, <1>4
  <2>2. ASSUME R = <<>> PROVE FALSE
    <3>1. b = Cat(L, Cat(CRLF, z))
      BY <2>2, CatBytes
    <3>2. Len(Cat(CRLF, z)) = 2 + Len(z)
      BY <1>2, CatLen
    <3>3. Len(Cat(L, Cat(CRLF, z))) = Len(L) + Len(Cat(CRLF, z))
      BY <1>2, CatLen
    <3> QED BY <1>1, <1>4, <3>1, <3>2, <3>3
  <2> QED BY <2>1, <2>2
<1>5. ASSUME Len(b) >= Len(L) + 2
      PROVE  /\ Find(b, CRLF) = Len(L) + 1
             /\ SubSeq(b, 1, Find(b, CRLF) - 1) = L
             /\ Drop(b, Find(b, CRLF) + 1) \in ByteSeq
             /\ Cat(Drop(b, Find(b, CRLF) + 1), R) = z
             /\ Drop(b, Find(b, CRLF) + 1) # b
  <2>1. Find(b, CRLF) = Len(L) + 1 /\ Find(b, CRLF) - 1 = Len(L) /\ Find(b, CRLF) + 1 = Len(L) + 2
    BY <1>1, <1>3, <1>5
  <2>2. SubSeq(b, 1, Len(L)) = L
    <3>1. Len(L) <= Len(b)
      BY <1>1, <1>5
    <3> QED BY <1>2, <3>1, TakeBytes
  <2> DEFINE x == Cat(L, CRLF)
  <2>3. x \in ByteSeq /\ Cat(b, R) = Cat(x, z)
    BY <1>2, CatBytes
  <2>4. Len(x) = Len(L) + 2
    BY <1>2, CatLen
  <2> HIDE DEF x
  <2>5. Drop(b, Len(x)) \in ByteSeq /\ Cat(Drop(b, Len(x)), R) = z
    <3>1. Len(x) <= Len(b)
      BY <1>5, <2>4
    <3> QED BY <2>3, <3>1, TakeBytes
  <2>6. Drop(b, Len(x)) # b
    <3>1. Len(Drop(b, Len(x))) = Len(b) - Len(x)
      BY <1>1, <1>5, <2>4, DropLen
    <3> QED BY <1>1, <2>4, <3>1
  <2> QED BY <2>1, <2>2, <2>4, <2>5, <2>6
<1> QED BY <1>4, <1>5

(* What follows in the stream when the reader is about to read a size. *)
LEMMA ChunksToComeStep ==
  ASSUME NEW r \in Responses, NEW todo \in Parts
  PROVE  /\ ChunksToCome(todo, r) \in ByteSeq
         /\ todo = <<>> =>
              ChunksToCome(todo, r) = Cat(SizeLine(0, FALSE), Cat(CRLF, Trailer(r.ext)))
         /\ todo # <<>> =>
              ChunksToCome(todo, r) =
                Cat(SizeLine(Len(Head(todo)), r.ext),
                    Cat(CRLF, Cat(Head(todo), Cat(CRLF, ChunksToCome(Tail(todo), r)))))
<1> DEFINE last == LastChunk(r.ext)
<1>1. r.ext \in BOOLEAN
  BY ResponseFacts
<1>2. last \in ByteSeq /\ last = Cat(SizeLine(0, FALSE), Cat(CRLF, Trailer(r.ext)))
  BY <1>1, LastChunkIs
<1> HIDE DEF last
<1>3. Chunks(todo, r.ext) \in ByteSeq
  BY <1>1, ChunksStep
<1>4. Cat(Chunks(todo, r.ext), last) \in ByteSeq
  BY <1>2, <1>3, CatBytes
<1>5. ASSUME todo = <<>> PROVE Cat(Chunks(todo, r.ext), last) = last
  <2>1. Chunks(todo, r.ext) = <<>>
    BY <1>1, <1>5, ChunksStep
  <2> QED BY <1>2, <2>1, CatBytes
<1>6. ASSUME todo # <<>>
      PROVE  Cat(Chunks(todo, r.ext), last) =
               Cat(SizeLine(Len(Head(todo)), r.ext),
                   Cat(CRLF, Cat(Head(todo), Cat(CRLF, Cat(Chunks(Tail(todo), r.ext), last)))))
  <2> DEFINE x == Head(todo)
             t == Tail(todo)
             c == Chunk(x, r.ext)
             u == Chunks(t, r.ext)
  <2>1. x \in ByteSeq /\ IsSize(Len(x)) /\ t \in Parts
    BY <1>6, PartsSplit
  <2>2. Chunks(todo, r.ext) = Cat(c, u)
    BY <1>1, <1>6, ChunksStep
  <2> HIDE DEF x, t
  <2>3. u \in ByteSeq
    BY <1>1, <2>1, ChunksStep
  <2>4. c \in ByteSeq /\ \A z \in ByteSeq :
          Cat(c, z) = Cat(SizeLine(Len(x), r.ext), Cat(CRLF, Cat(x, Cat(CRLF, z))))
    BY <1>1, <2>1, ChunkIs
  <2> HIDE DEF c, u
  <2>5. Cat(Cat(c, u), last) = Cat(c, Cat(u, last)) /\ Cat(u, last) \in ByteSeq
    <3>1. Cat(u, last) \in ByteSeq
      BY <1>2, <2>3, CatBytes
    <3>2. Cat(Cat(c, u), last) = Cat(c, Cat(u, last))
      <4>1. c \in ByteSeq /\ u \in ByteSeq /\ last \in ByteSeq
        BY <1>2, <2>3, <2>4
      <4> QED BY <4>1, CatBytes
    <3> QED BY <3>1, <3>2
  <2> QED BY <2>2, <2>4, <2>5 DEF x, t, u
<1> QED BY <1>2, <1>4, <1>5, <1>6 DEF ChunksToCome, last

(* read_chunked_body, the size of a chunk. *)
LEMMA SizeAdvance ==
  ASSUME NEW r \in Responses, NEW rest \in ByteSeq, NEW rd \in Readers,
         rd.at = "size", AtSize(rd, rest, r)
  PROVE  /\ Outcome(read_chunk_size(rd), rest, r)
         /\ rest = <<>> => read_chunk_size(rd) # rd
<1> DEFINE b == rd.buf
           new == read_chunk_size(rd)
<1>1. PICK todo \in Parts : /\ Cat(rd.body, FlattenSeq(todo)) = Body(r)
                            /\ Cat(rd.buf, rest) = ChunksToCome(todo, r)
  BY DEF AtSize
<1>2. r.framing = "chunked" /\ HeadFits(r) /\ Len(rd.body) <= MaxBody
  BY DEF AtSize, AtChunk
<1>3. b \in ByteSeq /\ Len(b) \in Nat /\ rd.body \in ByteSeq /\ Len(rd.body) \in Nat
  BY ReaderFacts
<1>4. r.ext \in BOOLEAN /\ r.pad \in Nat
  BY ResponseFacts
<1>5. MaxHead \in Nat /\ MaxHead >= 5 /\ MaxBody \in Nat
  BY <1>2, <1>4, ReaderBounds DEF HeadFits, HeadLen
<1>6. PICK n \in Nat, ext \in BOOLEAN, z \in ByteSeq :
        /\ IsSize(n) /\ Cat(b, rest) = Cat(SizeLine(n, ext), Cat(CRLF, z))
        /\ n = 0 => z = Trailer(r.ext) /\ rd.body = Body(r)
        /\ n # 0 => \E data \in ByteSeq, t \in Parts :
             /\ n = Len(data) /\ z = Cat(data, Cat(CRLF, ChunksToCome(t, r)))
             /\ Cat(rd.body, Cat(data, FlattenSeq(t))) = Body(r)
  <2>1. CASE todo = <<>>
    <3>1. IsSize(0) /\ Trailer(r.ext) \in ByteSeq
      BY <1>4, LastChunkIs, TrailerIs
    <3>2. Cat(b, rest) = Cat(SizeLine(0, FALSE), Cat(CRLF, Trailer(r.ext)))
      BY <1>1, <2>1, ChunksToComeStep
    <3>3. rd.body = Body(r)
      <4>1. FlattenSeq(todo) = <<>>
        BY <1>4, <2>1, ChunksStep
      <4> QED BY <1>1, <1>3, <4>1, CatBytes
    <3>4. 0 \in Nat /\ FALSE \in BOOLEAN
      OBVIOUS
    <3> QED BY <3>1, <3>2, <3>3, <3>4
  <2>2. CASE todo # <<>>
    <3> DEFINE x == Head(todo)
               t == Tail(todo)
               z == Cat(x, Cat(CRLF, ChunksToCome(t, r)))
    <3>1. x \in ByteSeq /\ IsSize(Len(x)) /\ Len(x) # 0 /\ t \in Parts
      BY <2>2, PartsSplit
    <3>2. Cat(b, rest) = Cat(SizeLine(Len(x), r.ext), Cat(CRLF, z))
      BY <1>1, <2>2, ChunksToComeStep
    <3>3. Cat(rd.body, Cat(x, FlattenSeq(t))) = Body(r)
      BY <1>1, <1>4, <2>2, ChunksStep
    <3> HIDE DEF x, t
    <3>4. Len(x) \in Nat
      BY <3>1, SizeByteFacts
    <3>5. ChunksToCome(t, r) \in ByteSeq
      BY <3>1, ChunksToComeStep
    <3>6. z \in ByteSeq
      BY <3>1, <3>5, CatBytes, CRLFBytes
    <3>7. \E data \in ByteSeq, s \in Parts :
             /\ Len(x) = Len(data) /\ z = Cat(data, Cat(CRLF, ChunksToCome(s, r)))
             /\ Cat(rd.body, Cat(data, FlattenSeq(s))) = Body(r)
      BY <3>1, <3>3
    <3> HIDE DEF z
    <3> QED BY <1>4, <3>1, <3>2, <3>4, <3>6, <3>7
  <2> QED BY <2>1, <2>2
<1> DEFINE L == SizeLine(n, ext)
<1>7. L \in ByteSeq /\ Len(L) \in 1..2 /\ L[1] = SizeByte(n) /\ \A i \in 1..Len(L) : L[i] # "r"
  BY <1>6, SizeLineFacts
<1>8. SizeByte(n) \in DOMAIN SizeOf /\ SizeOf[SizeByte(n)] = n
  BY <1>6, SizeByteFacts
<1> HIDE DEF L
<1>9. Cat(b, rest) = Cat(L, Cat(CRLF, z)) /\ z \in ByteSeq /\ n \in Nat
  BY <1>6 DEF L
<1>10. CASE Len(b) < Len(L) + 2
  <2>1. Find(b, CRLF) = 0 /\ rest # <<>>
    BY <1>3, <1>7, <1>9, <1>10, LineTaken
  <2>2. ~HasLine(rd) /\ ~LineTooLong(rd)
    BY <1>3, <1>5, <1>7, <1>10, <2>1 DEF HasLine, LineTooLong
  <2>3. new = rd
    BY <2>2 DEF read_chunk_size
  <2>4. Reads(rd, rest, r) /\ ~Finished(rd)
    BY DEF Reads, Finished
  <2> HIDE DEF new
  <2>5. Outcome(rd, rest, r)
    BY <2>4 DEF Outcome, Finished
  <2> QED BY <2>1, <2>3, <2>5 DEF new
<1>11. CASE Len(b) >= Len(L) + 2
  <2> DEFINE past == PastLine(rd)
  <2>1. /\ Find(b, CRLF) = Len(L) + 1
        /\ SubSeq(b, 1, Find(b, CRLF) - 1) = L
        /\ Drop(b, Find(b, CRLF) + 1) \in ByteSeq
        /\ Cat(Drop(b, Find(b, CRLF) + 1), rest) = z
    <3> HIDE DEF b
    <3> QED BY <1>3, <1>7, <1>9, <1>11, LineTaken
  <2>2. HasLine(rd) /\ ~LineTooLong(rd) /\ Line(rd) = L
    BY <1>7, <2>1 DEF HasLine, LineTooLong, Line
  <2>3. past \in ByteSeq /\ Cat(past, rest) = z
    BY <2>1 DEF PastLine
  <2>4. L # <<>> /\ L[1] \in DOMAIN SizeOf /\ SizeOf[L[1]] = n
    BY <1>7, <1>8
  <2> HIDE DEF past
  <2>5. new = CASE n = 0 -> [rd EXCEPT !.at = "trailer", !.buf = past]
                [] n > 0 /\ n > MaxBody - Len(rd.body) -> Error(rd)
                [] OTHER -> [rd EXCEPT !.at = "data", !.want = n, !.buf = past]
    BY <2>2, <2>4 DEF read_chunk_size, past
  <2> HIDE DEF new
  <2>6. CASE n = 0
    <3>1. new = [rd EXCEPT !.at = "trailer", !.buf = past]
      BY <2>5, <2>6
    <3>2. new \in Readers /\ new.at = "trailer" /\ new.buf = past /\ new.body = rd.body
      BY <2>3, <3>1 DEF Readers, Places
    <3>3. AtTrailer(new, rest, r)
      BY <1>2, <1>6, <2>3, <2>6, <3>2 DEF AtTrailer, AtChunk
    <3>4. Outcome(new, rest, r)
      BY <3>2, <3>3 DEF Outcome, Reads, Finished
    <3>5. new # rd
      BY <3>2
    <3> QED BY <3>4, <3>5 DEF new
  <2>7. CASE n # 0 /\ n > MaxBody - Len(rd.body)
    <3>1. new = Error(rd)
      BY <2>5, <2>7
    <3>2. PICK data \in ByteSeq, t \in Parts : n = Len(data) /\ Cat(rd.body, Cat(data, FlattenSeq(t))) = Body(r)
      BY <1>6, <2>7
    <3>3. FlattenSeq(t) \in ByteSeq
      BY <1>4, ChunksStep
    <3>4. Len(Cat(data, FlattenSeq(t))) = Len(data) + Len(FlattenSeq(t)) /\ Len(FlattenSeq(t)) \in Nat
      BY <3>3, CatLen
    <3>5. Cat(data, FlattenSeq(t)) \in ByteSeq
      BY <3>3, CatBytes
    <3>6. Len(Body(r)) = Len(rd.body) + Len(Cat(data, FlattenSeq(t)))
      BY <1>3, <3>2, <3>5, CatLen
    <3>7. Len(Body(r)) > MaxBody
      <4> DEFINE f == Len(FlattenSeq(t))
                 m == Len(rd.body)
                 y == Len(Body(r))
      <4>1. y = m + (n + f) /\ f \in Nat /\ m \in Nat /\ n > MaxBody - m
        BY <1>3, <2>7, <3>2, <3>4, <3>6
      <4> HIDE DEF f, m, y
      <4>2. y > MaxBody
        BY <1>5, <1>9, <4>1
      <4> QED BY <4>2 DEF y
    <3>8. ~Acceptable(r)
      <4>1. Len(Body(r)) \in Nat
        BY ResponseFacts
      <4> QED BY <1>2, <1>5, <3>7, <4>1 DEF Acceptable
    <3>9. new \in Readers /\ new.at = "error" /\ Finished(new)
      BY <3>1, ErrorFacts
    <3>10. new # rd
      BY <3>9
    <3> QED BY <3>8, <3>9, <3>10 DEF Outcome, new
  <2>8. CASE n # 0 /\ ~(n > MaxBody - Len(rd.body))
    <3>1. new = [rd EXCEPT !.at = "data", !.want = n, !.buf = past]
      BY <2>5, <2>8
    <3>2. /\ new \in Readers /\ new.at = "data" /\ new.buf = past /\ new.body = rd.body
          /\ new.want = n
      BY <2>3, <3>1 DEF Readers, Places
    <3>3. PICK data \in ByteSeq, t \in Parts :
             /\ n = Len(data) /\ z = Cat(data, Cat(CRLF, ChunksToCome(t, r)))
             /\ Cat(rd.body, Cat(data, FlattenSeq(t))) = Body(r)
      BY <1>6, <2>8
    <3>4. Len(rd.body) + Len(data) <= MaxBody
      BY <1>3, <1>5, <2>8, <3>3
    <3>5. AtData(new, rest, r)
      BY <1>2, <2>3, <3>2, <3>3, <3>4 DEF AtData, AtChunk
    <3>6. Outcome(new, rest, r)
      BY <3>2, <3>5 DEF Outcome, Reads, Finished
    <3>7. new # rd
      BY <3>2
    <3> QED BY <3>6, <3>7 DEF new
  <2> QED BY <2>6, <2>7, <2>8
<1>12. Len(b) < Len(L) + 2 \/ Len(b) >= Len(L) + 2
  BY <1>3, <1>7
<1> QED BY <1>10, <1>11, <1>12

(* read_chunked_body, the data of a chunk. *)
LEMMA DataAdvance ==
  ASSUME NEW r \in Responses, NEW rest \in ByteSeq, NEW rd \in Readers,
         rd.at = "data", AtData(rd, rest, r)
  PROVE  /\ Outcome(read_chunk_data(rd), rest, r)
         /\ rest = <<>> => read_chunk_data(rd) # rd
<1> DEFINE b == rd.buf
           new == read_chunk_data(rd)
<1>1. PICK todo \in Parts, data \in ByteSeq :
        /\ rd.want = Len(data) /\ Len(rd.body) + Len(data) <= MaxBody
        /\ Cat(rd.body, Cat(data, FlattenSeq(todo))) = Body(r)
        /\ Cat(rd.buf, rest) = Cat(data, Cat(CRLF, ChunksToCome(todo, r)))
  BY DEF AtData
<1> DEFINE z == Cat(CRLF, ChunksToCome(todo, r))
<1>2. r.framing = "chunked" /\ HeadFits(r) /\ r.ext \in BOOLEAN
  BY ResponseFacts DEF AtData, AtChunk
<1>3. b \in ByteSeq /\ Len(b) \in Nat /\ rd.body \in ByteSeq /\ Len(rd.body) \in Nat /\ rd.want \in Nat
  BY ReaderFacts
<1>4. z \in ByteSeq /\ FlattenSeq(todo) \in ByteSeq
  <2>1. ChunksToCome(todo, r) \in ByteSeq
    BY ChunksToComeStep
  <2> QED BY <1>2, <2>1, CRLFBytes, CatBytes, ChunksStep
<1> HIDE DEF z, b
<1>5. Cat(b, rest) = Cat(data, z)
  BY <1>1 DEF z, b
<1>6. CASE Len(b) < rd.want
  <2>1. new = rd
    BY <1>6 DEF read_chunk_data, b
  <2>2. rest # <<>>
    <3> SUFFICES ASSUME rest = <<>> PROVE FALSE
      OBVIOUS
    <3>1. b = Cat(data, z)
      BY <1>3, <1>5, CatBytes
    <3>2. Len(b) = Len(data) + Len(z) /\ Len(z) \in Nat /\ Len(data) \in Nat
      BY <1>4, <3>1, CatLen
    <3> QED BY <1>1, <1>3, <1>6, <3>2
  <2>3. Reads(rd, rest, r) /\ ~Finished(rd)
    BY DEF Reads, Finished
  <2> HIDE DEF new
  <2>4. Outcome(rd, rest, r)
    BY <2>3 DEF Outcome, Finished
  <2> QED BY <2>1, <2>2, <2>4 DEF new
<1>7. CASE ~(Len(b) < rd.want)
  <2>1. new = [rd EXCEPT !.at = "crlf", !.body = Cat(rd.body, SubSeq(b, 1, rd.want)),
                         !.buf = Drop(b, rd.want)]
    BY <1>7 DEF read_chunk_data, Cat, b
  <2>2. /\ SubSeq(b, 1, rd.want) = data /\ Drop(b, rd.want) \in ByteSeq
        /\ Cat(Drop(b, rd.want), rest) = z
    <3>1. Len(data) <= Len(b)
      BY <1>1, <1>3, <1>7
    <3>2. /\ SubSeq(b, 1, Len(data)) = data /\ Drop(b, Len(data)) \in ByteSeq
          /\ Cat(Drop(b, Len(data)), rest) = z
      BY <1>3, <1>4, <1>5, <3>1, TakeBytes
    <3> QED BY <1>1, <3>2
  <2>3. Cat(rd.body, data) \in ByteSeq
    BY <1>3, CatBytes
  <2> HIDE DEF new
  <2>4. /\ new \in Readers /\ new.at = "crlf" /\ new.buf = Drop(b, rd.want)
        /\ new.body = Cat(rd.body, data)
    BY <2>1, <2>2, <2>3 DEF Readers, Places
  <2>5. Len(new.body) = Len(rd.body) + Len(data)
    BY <1>3, <2>4, CatLen
  <2>6. Cat(new.body, FlattenSeq(todo)) = Body(r)
    <3> DEFINE f == FlattenSeq(todo)
               m == rd.body
    <3>1. m \in ByteSeq /\ f \in ByteSeq
      BY <1>3, <1>4
    <3> HIDE DEF f, m
    <3>2. Cat(Cat(m, data), f) = Cat(m, Cat(data, f))
      BY <3>1, CatBytes
    <3> QED BY <1>1, <2>4, <3>2 DEF f, m
  <2>7. AtCrlf(new, rest, r)
    BY <1>1, <1>2, <2>2, <2>4, <2>5, <2>6 DEF AtCrlf, AtChunk, z
  <2>8. Outcome(new, rest, r)
    BY <2>4, <2>7 DEF Outcome, Reads, Finished
  <2>9. new # rd
    BY <2>4
  <2> QED BY <2>8, <2>9 DEF new
<1> QED BY <1>6, <1>7

(* read_chunked_body, the line end after the data. *)
LEMMA CrlfAdvance ==
  ASSUME NEW r \in Responses, NEW rest \in ByteSeq, NEW rd \in Readers,
         rd.at = "crlf", AtCrlf(rd, rest, r)
  PROVE  /\ Outcome(read_chunk_end(rd), rest, r)
         /\ rest = <<>> => read_chunk_end(rd) # rd
<1> DEFINE b == rd.buf
           new == read_chunk_end(rd)
<1>1. PICK todo \in Parts : /\ Cat(rd.body, FlattenSeq(todo)) = Body(r)
                            /\ Cat(rd.buf, rest) = Cat(CRLF, ChunksToCome(todo, r))
  BY DEF AtCrlf
<1> DEFINE z == ChunksToCome(todo, r)
<1>2. AtChunk(rd, r)
  BY DEF AtCrlf
<1>3. b \in ByteSeq /\ Len(b) \in Nat
  BY ReaderFacts
<1>4. z \in ByteSeq /\ CRLF \in ByteSeq /\ Len(CRLF) = 2
  BY ChunksToComeStep, CRLFBytes
<1> HIDE DEF z, b
<1>5. Cat(b, rest) = Cat(CRLF, z)
  BY <1>1 DEF z, b
<1>6. CASE Len(b) < 2
  <2>1. new = rd
    BY <1>6 DEF read_chunk_end, b
  <2>2. rest # <<>>
    <3> SUFFICES ASSUME rest = <<>> PROVE FALSE
      OBVIOUS
    <3>1. b = Cat(CRLF, z)
      BY <1>3, <1>5, CatBytes
    <3>2. Len(b) = Len(CRLF) + Len(z) /\ Len(z) \in Nat
      BY <1>4, <3>1, CatLen
    <3> QED BY <1>3, <1>4, <1>6, <3>2
  <2>3. Reads(rd, rest, r) /\ ~Finished(rd)
    BY DEF Reads, Finished
  <2> HIDE DEF new
  <2>4. Outcome(rd, rest, r)
    BY <2>3 DEF Outcome, Finished
  <2> QED BY <2>1, <2>2, <2>4 DEF new
<1>7. CASE ~(Len(b) < 2)
  <2>1. SubSeq(b, 1, 2) = CRLF /\ Drop(b, 2) \in ByteSeq /\ Cat(Drop(b, 2), rest) = z
    <3>1. Len(CRLF) <= Len(b)
      BY <1>3, <1>4, <1>7
    <3> DEFINE c == CRLF
    <3>2. c \in ByteSeq /\ Cat(b, rest) = Cat(c, z) /\ Len(c) <= Len(b) /\ z \in ByteSeq
      BY <1>4, <1>5, <3>1
    <3> HIDE DEF c
    <3>3. /\ SubSeq(b, 1, Len(c)) = c /\ Drop(b, Len(c)) \in ByteSeq
          /\ Cat(Drop(b, Len(c)), rest) = z
      BY <1>3, <3>2, TakeBytes
    <3> QED BY <1>4, <3>3 DEF c
  <2>2. new = [rd EXCEPT !.at = "size", !.buf = Drop(b, 2)]
    BY <1>7, <2>1 DEF read_chunk_end, b
  <2> HIDE DEF new
  <2>3. new \in Readers /\ new.at = "size" /\ new.buf = Drop(b, 2) /\ new.body = rd.body
    BY <2>1, <2>2 DEF Readers, Places
  <2>4. AtSize(new, rest, r)
    BY <1>1, <1>2, <2>1, <2>3 DEF AtSize, AtChunk, z
  <2>5. Outcome(new, rest, r)
    BY <2>3, <2>4 DEF Outcome, Reads, Finished
  <2>6. new # rd
    BY <2>3
  <2> QED BY <2>5, <2>6 DEF new
<1> QED BY <1>6, <1>7

(* read_trailers. *)
LEMMA TrailerAdvance ==
  ASSUME NEW r \in Responses, NEW rest \in ByteSeq, NEW rd \in Readers,
         rd.at = "trailer", AtTrailer(rd, rest, r)
  PROVE  /\ Outcome(read_trailers(rd), rest, r)
         /\ rest = <<>> => read_trailers(rd) # rd
<1> DEFINE b == rd.buf
           new == read_trailers(rd)
<1>1. /\ AtChunk(rd, r) /\ rd.body = Body(r) /\ r.framing = "chunked" /\ HeadFits(r)
      /\ Len(rd.body) <= MaxBody
  BY DEF AtTrailer, AtChunk
<1>2. b \in ByteSeq /\ Len(b) \in Nat
  BY ReaderFacts
<1>3. r.ext \in BOOLEAN /\ r.pad \in Nat /\ r.infos \in Nat
  BY ResponseFacts
<1>4. MaxHead \in Nat /\ MaxHead >= 5
  BY <1>1, <1>3, ReaderBounds DEF HeadFits, HeadLen
<1>5. Acceptable(r)
  BY <1>1, <1>4 DEF Acceptable, HeadFits
<1>6. <<"t">> \in ByteSeq /\ Len(<<"t">>) = 1 /\ \A i \in 1..1 : <<"t">>[i] # "r"
  BY BytesAssumption DEF ByteSeq
<1>7. PICK L \in ByteSeq, z \in ByteSeq :
        /\ Cat(b, rest) = Cat(L, Cat(CRLF, z))
        /\ Len(L) \in 0..1 /\ \A i \in 1..Len(L) : L[i] # "r"
        /\ L # <<>> => z = CRLF
  <2>1. CASE Cat(b, rest) = Cat(<<"t">>, Cat(CRLF, CRLF))
    BY <1>6, <2>1, CRLFBytes
  <2>2. CASE Cat(b, rest) = Cat(<<>>, Cat(CRLF, <<>>))
    <3>1. <<>> \in ByteSeq /\ Len(<<>>) \in 0..1 /\ \A i \in 1..Len(<<>>) : <<>>[i] # "r"
      BY EmptyBytes
    <3> QED BY <2>2, <3>1
  <2>3. CRLF = Cat(<<>>, Cat(CRLF, <<>>))
    <3>1. Cat(CRLF, <<>>) = CRLF /\ Cat(<<>>, CRLF) = CRLF
      BY CRLFBytes, CatBytes
    <3> QED BY <3>1
  <2>4. \/ Cat(b, rest) = Cat(<<"t">>, Cat(CRLF, CRLF))
        \/ Cat(b, rest) = Cat(<<>>, Cat(CRLF, <<>>))
    <3>1. Cat(b, rest) = Trailer(r.ext) \/ Cat(b, rest) = CRLF
      BY DEF AtTrailer
    <3>2. \/ Trailer(r.ext) = Cat(<<"t">>, Cat(CRLF, CRLF))
          \/ Trailer(r.ext) = Cat(<<>>, Cat(CRLF, <<>>))
      BY <1>3, TrailerIs
    <3> QED BY <2>3, <3>1, <3>2
  <2> QED BY <2>1, <2>2, <2>4
<1>8. Cat(b, rest) = Cat(L, Cat(CRLF, z)) /\ \A i \in 1..Len(L) : L[i] # "r"
  BY <1>7
<1>9. CASE Len(b) < Len(L) + 2
  <2>1. Find(b, CRLF) = 0 /\ rest # <<>>
    <3> HIDE DEF b
    <3> QED BY <1>2, <1>8, <1>9, LineTaken
  <2>2. ~HasLine(rd) /\ ~LineTooLong(rd)
    BY <1>2, <1>4, <1>7, <1>9, <2>1 DEF HasLine, LineTooLong
  <2>3. new = rd
    BY <2>2 DEF read_trailers
  <2>4. Reads(rd, rest, r) /\ ~Finished(rd)
    BY DEF Reads, Finished
  <2> HIDE DEF new
  <2>5. Outcome(rd, rest, r)
    BY <2>4 DEF Outcome, Finished
  <2> QED BY <2>1, <2>3, <2>5 DEF new
<1>10. CASE Len(b) >= Len(L) + 2
  <2> DEFINE past == PastLine(rd)
  <2>1. /\ Find(b, CRLF) = Len(L) + 1
        /\ SubSeq(b, 1, Find(b, CRLF) - 1) = L
        /\ Drop(b, Find(b, CRLF) + 1) \in ByteSeq
        /\ Cat(Drop(b, Find(b, CRLF) + 1), rest) = z
        /\ Drop(b, Find(b, CRLF) + 1) # b
    <3> HIDE DEF b
    <3> QED BY <1>2, <1>8, <1>10, LineTaken
  <2>2. HasLine(rd) /\ ~LineTooLong(rd) /\ Line(rd) = L
    BY <1>7, <2>1 DEF HasLine, LineTooLong, Line
  <2>3. past \in ByteSeq /\ Cat(past, rest) = z /\ past # b
    BY <2>1 DEF PastLine
  <2> HIDE DEF past
  <2>4. new = [rd EXCEPT !.at = IF L = <<>> THEN "ok" ELSE "trailer", !.buf = past]
    BY <2>2 DEF read_trailers, past
  <2> HIDE DEF new
  <2>5. /\ new \in Readers /\ new.at = IF L = <<>> THEN "ok" ELSE "trailer"
        /\ new.buf = past /\ new.body = rd.body
    BY <2>3, <2>4 DEF Readers, Places
  <2>6. L = <<>> => Complete(new, r)
    BY <1>1, <1>5, <2>5 DEF Complete
  <2>7. L # <<>> => AtTrailer(new, rest, r)
    BY <1>1, <1>7, <2>3, <2>5 DEF AtTrailer, AtChunk
  <2>8. Outcome(new, rest, r)
    BY <2>5, <2>6, <2>7 DEF Outcome, Reads, Finished
  <2>9. new # rd
    BY <2>3, <2>5
  <2> QED BY <2>8, <2>9 DEF new
<1>11. Len(b) < Len(L) + 2 \/ Len(b) >= Len(L) + 2
  BY <1>2, <1>7
<1> QED BY <1>9, <1>10, <1>11

(* read_fixed_body. *)
LEMMA FixedAdvance ==
  ASSUME NEW r \in Responses, NEW rest \in ByteSeq, NEW rd \in Readers,
         rd.at = "fixed", AtFixed(rd, rest, r)
  PROVE  /\ Outcome(read_fixed_body(rd), rest, r)
         /\ rest = <<>> => read_fixed_body(rd) # rd
<1> DEFINE new == read_fixed_body(rd)
<1>1. /\ r.framing = "fixed" /\ HeadFits(r) /\ Len(Body(r)) <= MaxBody
      /\ rd.want = Len(Body(r)) /\ Cat(rd.body, rest) = Body(r)
  BY DEF AtFixed
<1>2. rd.body \in ByteSeq /\ Len(rd.body) \in Nat
  BY ReaderFacts
<1>3. Len(Body(r)) = Len(rd.body) + Len(rest) /\ Len(rest) \in Nat
  BY <1>1, <1>2, CatLen
<1>4. CASE Len(rd.body) >= rd.want
  <2>1. new = [rd EXCEPT !.at = "ok"]
    BY <1>4 DEF read_fixed_body
  <2>2. rest = <<>>
    <3>1. Len(rest) = 0
      BY <1>1, <1>2, <1>3, <1>4
    <3> QED BY <3>1, EmptyBytes
  <2>3. rd.body = Body(r)
    BY <1>1, <1>2, <2>2, CatBytes
  <2>4. Acceptable(r)
    <3>1. r.pad \in Nat
      BY ResponseFacts
    <3> QED BY <1>1, <3>1, ReaderBounds DEF Acceptable, HeadFits, HeadLen
  <2> HIDE DEF new
  <2>5. new \in Readers /\ new.at = "ok" /\ new.body = rd.body
    BY <2>1 DEF Readers, Places
  <2>6. Outcome(new, rest, r)
    BY <1>1, <2>3, <2>4, <2>5 DEF Outcome, Complete, Finished
  <2>7. new # rd
    BY <2>5
  <2> QED BY <2>6, <2>7 DEF new
<1>5. CASE ~(Len(rd.body) >= rd.want)
  <2>1. new = rd
    BY <1>5 DEF read_fixed_body
  <2>2. rest # <<>>
    <3> SUFFICES ASSUME rest = <<>> PROVE FALSE
      OBVIOUS
    <3>1. Len(rest) = 0
      BY EmptyBytes
    <3> QED BY <1>1, <1>2, <1>3, <1>5, <3>1
  <2>3. Reads(rd, rest, r) /\ ~Finished(rd)
    BY DEF Reads, Finished
  <2> HIDE DEF new
  <2>4. Outcome(rd, rest, r)
    BY <2>3 DEF Outcome, Finished
  <2> QED BY <2>1, <2>2, <2>4 DEF new
<1> QED BY <1>4, <1>5

LEMMA AfterHeadBytes ==
  ASSUME NEW r \in Responses
  PROVE  /\ AfterHeadWire(r) \in ByteSeq
         /\ r.framing = "chunked" => AfterHeadWire(r) = ChunksToCome(r.parts, r)
         /\ r.framing # "chunked" => AfterHeadWire(r) = Body(r)
<1>1. r.framing = "chunked" => AfterHeadWire(r) = ChunksToCome(r.parts, r)
  BY DEF AfterHeadWire, ChunksToCome, Cat
<1>2. r.framing # "chunked" => AfterHeadWire(r) = Body(r)
  BY DEF AfterHeadWire
<1>3. r.framing = "chunked" => ChunksToCome(r.parts, r) \in ByteSeq
  BY ResponseFacts, ChunksToComeStep
<1>4. Body(r) \in ByteSeq
  BY ResponseFacts
<1> QED BY <1>1, <1>2, <1>3, <1>4

(* read_http_response, the choice of the framing. *)
LEMMA FramingChosen ==
  ASSUME NEW r \in Responses, NEW rest \in ByteSeq, NEW rd \in Readers,
         rd.at = "head", rd.body = <<>>, HeadFits(r), Cat(rd.buf, rest) = AfterHeadWire(r)
  PROVE  Outcome(AfterHead(rd, r), rest, r) /\ AfterHead(rd, r).at # "head"
<1> DEFINE b == rd.buf
           new == AfterHead(rd, r)
<1>1. b \in ByteSeq /\ Len(b) \in Nat /\ r.framing \in Framings
      /\ Body(r) \in ByteSeq /\ Len(Body(r)) \in Nat /\ r.pad \in Nat
  BY ReaderFacts, ResponseFacts
<1>2. MaxBody \in Nat /\ MaxHead \in Nat
  BY ReaderBounds
<1>3. Acceptable(r) <=> r.framing # "unsupported" /\ (r.framing # "nobody" => Len(Body(r)) <= MaxBody)
  BY <1>1, <1>2 DEF Acceptable, HeadFits, HeadLen
<1>4. <<>> \in ByteSeq /\ Len(<<>>) = 0
  BY EmptyBytes
<1>5. ASSUME new = Error(rd), ~Acceptable(r) \/ r.framing = "close"
      PROVE  Outcome(new, rest, r) /\ new.at # "head"
  <2>1. new \in Readers /\ new.at = "error" /\ Finished(new)
    BY <1>5, ErrorFacts
  <2> HIDE DEF new
  <2> QED BY <1>5, <2>1 DEF Outcome
<1>6. CASE r.framing = "nobody"
  <2>1. new = [rd EXCEPT !.at = "ok"]
    BY <1>6 DEF AfterHead
  <2> HIDE DEF new
  <2>2. new \in Readers /\ new.at = "ok" /\ new.body = <<>>
    BY <2>1 DEF Readers, Places
  <2>3. Outcome(new, rest, r)
    BY <1>3, <1>6, <2>2 DEF Outcome, Complete, Finished
  <2> QED BY <2>2, <2>3 DEF new
<1>7. CASE r.framing = "unsupported"
  <2>1. new = Error(rd)
    BY <1>7 DEF AfterHead
  <2> QED BY <1>3, <1>5, <1>7, <2>1
<1>8. CASE r.framing = "chunked"
  <2>1. new = [rd EXCEPT !.at = "size"]
    BY <1>8 DEF AfterHead
  <2> HIDE DEF new
  <2>2. new \in Readers /\ new.at = "size" /\ new.body = <<>> /\ new.buf = b
    BY <2>1 DEF Readers, Places
  <2>3. r.parts \in Parts /\ Cat(new.buf, rest) = ChunksToCome(r.parts, r)
    BY <1>8, <2>2, ResponseFacts, AfterHeadBytes
  <2>4. Cat(new.body, FlattenSeq(r.parts)) = Body(r)
    <3>1. Cat(<<>>, Body(r)) = Body(r)
      BY <1>1, CatBytes
    <3> QED BY <2>2, <3>1 DEF Body
  <2>5. AtSize(new, rest, r)
    BY <1>2, <1>4, <1>8, <2>2, <2>3, <2>4 DEF AtSize, AtChunk
  <2>6. Outcome(new, rest, r)
    BY <2>2, <2>5 DEF Outcome, Reads, Finished
  <2> QED BY <2>2, <2>6 DEF new
<1>9. CASE r.framing = "fixed"
  <2>1. Cat(b, rest) = Body(r)
    BY <1>9, AfterHeadBytes
  <2>2. CASE Len(Body(r)) > MaxBody
    <3>1. new = Error(rd)
      BY <1>9, <2>2 DEF AfterHead
    <3>2. ~Acceptable(r)
      BY <1>1, <1>2, <1>3, <1>9, <2>2
    <3> QED BY <1>5, <3>1, <3>2
  <2>3. CASE ~(Len(Body(r)) > MaxBody)
    <3>1. Len(Body(r)) = Len(b) + Len(rest) /\ Len(rest) \in Nat
      BY <1>1, <2>1, CatLen
    <3>2. (IF Len(b) < Len(Body(r)) THEN Len(b) ELSE Len(Body(r))) = Len(b)
      BY <1>1, <3>1
    <3>3. SubSeq(b, 1, Len(b)) = b
      BY <1>1 DEF ByteSeq
    <3>4. Drop(b, Len(b)) = <<>>
      <4>1. Drop(b, Len(b)) \in ByteSeq /\ Len(Drop(b, Len(b))) = Len(b) - Len(b)
        <5>1. Len(b) <= Len(b)
          BY <1>1
        <5> HIDE DEF b
        <5> QED BY <1>1, <5>1, DropLen
      <4>2. Len(b) - Len(b) = 0
        BY <1>1
      <4> QED BY <4>1, <4>2, EmptyBytes
    <3>5. new = [rd EXCEPT !.at = "fixed", !.want = Len(Body(r)), !.body = b, !.buf = <<>>]
      BY <1>9, <2>3, <3>2, <3>3, <3>4 DEF AfterHead
    <3> HIDE DEF new
    <3>6. /\ new \in Readers /\ new.at = "fixed" /\ new.body = b /\ new.buf = <<>>
          /\ new.want = Len(Body(r))
      BY <1>1, <1>4, <3>5 DEF Readers, Places
    <3>7. AtFixed(new, rest, r)
      BY <1>1, <1>2, <1>9, <2>1, <2>3, <3>6 DEF AtFixed
    <3>8. Outcome(new, rest, r)
      BY <3>6, <3>7 DEF Outcome, Reads, Finished
    <3> QED BY <3>6, <3>8 DEF new
  <2> QED BY <2>2, <2>3
<1>10. CASE r.framing = "close"
  <2>1. Cat(b, rest) = Body(r)
    BY <1>10, AfterHeadBytes
  <2>2. CASE Len(b) > MaxBody
    <3>1. new = Error(rd)
      BY <1>10, <2>2 DEF AfterHead
    <3> QED BY <1>5, <1>10, <3>1
  <2>3. CASE ~(Len(b) > MaxBody)
    <3>1. new = [rd EXCEPT !.at = "close", !.body = b, !.buf = <<>>]
      BY <1>10, <2>3 DEF AfterHead
    <3> HIDE DEF new
    <3>2. new \in Readers /\ new.at = "close" /\ new.body = b /\ new.buf = <<>>
      BY <1>1, <1>4, <3>1 DEF Readers, Places
    <3>3. AtClose(new, rest, r)
      BY <1>1, <1>2, <1>10, <2>1, <2>3, <3>2 DEF AtClose
    <3>4. Outcome(new, rest, r)
      BY <3>2, <3>3 DEF Outcome, Reads, Finished
    <3> QED BY <3>2, <3>4 DEF new
  <2> QED BY <2>2, <2>3
<1> QED BY <1>1, <1>6, <1>7, <1>8, <1>9, <1>10 DEF Framings

LEMMA HeadsToComeStep ==
  ASSUME NEW r \in Responses, NEW n \in Nat
  PROVE  /\ HeadsToCome(n, r) \in ByteSeq
         /\ n = 0 => HeadsToCome(n, r) = Cat(HeadLine("h", r.pad), Cat(HeadEnd, AfterHeadWire(r)))
         /\ n # 0 => HeadsToCome(n, r) = Cat(HeadLine("i", 0), Cat(HeadEnd, HeadsToCome(n - 1, r)))
<1> DEFINE w == AfterHeadWire(r)
           h == HeadLine("h", r.pad)
           i == HeadLine("i", 0)
           e == HeadEnd
           z == Cat(Head1("h", r.pad), w)
<1>1. r.pad \in Nat /\ 0 \in Nat
  BY ResponseFacts
<1>2. w \in ByteSeq /\ h \in ByteSeq /\ i \in ByteSeq /\ e \in ByteSeq
  BY <1>1, AfterHeadBytes, HeadLineFacts, HeadEndFacts
<1>3. Head1("h", r.pad) = Cat(h, e) /\ Head1("i", 0) = Cat(i, e)
  BY <1>1, Head1Is
<1> HIDE DEF h, i, e, w
<1>4. Cat(h, e) \in ByteSeq /\ Cat(i, e) \in ByteSeq
  BY <1>2, CatBytes
<1>5. z \in ByteSeq /\ z = Cat(h, Cat(e, w))
  <2>1. Cat(Cat(h, e), w) \in ByteSeq
    BY <1>2, <1>4, CatBytes
  <2>2. Cat(Cat(h, e), w) = Cat(h, Cat(e, w))
    BY <1>2, CatBytes
  <2> QED BY <1>3, <2>1, <2>2
<1> HIDE DEF z
<1>6. \A m \in Nat : HeadsToCome(m, r) = Cat(Infos(m), z) /\ HeadsToCome(m, r) \in ByteSeq
  <2> TAKE m \in Nat
  <2>1. HeadsToCome(m, r) = Cat(Infos(m), z)
    BY DEF HeadsToCome, z, w
  <2>2. Infos(m) \in ByteSeq
    BY InfosBytes
  <2> QED BY <1>5, <2>1, <2>2, CatBytes
<1>7. ASSUME n = 0 PROVE HeadsToCome(n, r) = Cat(h, Cat(e, w))
  <2>1. Infos(n) = <<>>
    BY <1>7, InfosStep
  <2>2. Cat(<<>>, z) = z
    BY <1>5, CatBytes
  <2> QED BY <1>5, <1>6, <2>1, <2>2
<1>8. ASSUME n # 0 PROVE HeadsToCome(n, r) = Cat(i, Cat(e, HeadsToCome(n - 1, r)))
  <2> DEFINE f == Infos(n - 1)
  <2>1. n - 1 \in Nat
    BY <1>8
  <2>2. f \in ByteSeq
    BY <2>1, InfosBytes
  <2>3. Infos(n) = Cat(Cat(i, e), f)
    BY <1>3, <1>8, InfosStep
  <2>4. HeadsToCome(n - 1, r) = Cat(f, z) /\ HeadsToCome(n, r) = Cat(Cat(Cat(i, e), f), z)
    BY <1>6, <2>1, <2>3
  <2> HIDE DEF f
  <2>5. Cat(Cat(Cat(i, e), f), z) = Cat(Cat(i, e), Cat(f, z)) /\ Cat(f, z) \in ByteSeq
    <3>1. Cat(f, z) \in ByteSeq
      BY <1>5, <2>2, CatBytes
    <3>2. Cat(Cat(Cat(i, e), f), z) = Cat(Cat(i, e), Cat(f, z))
      <4>1. Cat(i, e) \in ByteSeq /\ f \in ByteSeq /\ z \in ByteSeq
        BY <1>4, <1>5, <2>2
      <4> QED BY <4>1, CatBytes
    <3> QED BY <3>1, <3>2
  <2>6. Cat(Cat(i, e), Cat(f, z)) = Cat(i, Cat(e, Cat(f, z)))
    BY <1>2, <2>5, CatBytes
  <2> QED BY <2>4, <2>5, <2>6
<1> QED BY <1>6, <1>7, <1>8 DEF h, i, e, w

(* read_header_section on a buffer that begins with a header section. *)
LEMMA HeadAdvance ==
  ASSUME NEW r \in Responses, NEW rest \in ByteSeq, NEW rd \in Readers,
         rd.at = "head", AtHead(rd, rest, r)
  PROVE  /\ Outcome(read_header_section(rd, r), rest, r)
         /\ rest = <<>> => read_header_section(rd, r) # rd
<1> DEFINE b == rd.buf
           n == r.infos - rd.infos
           new == read_header_section(rd, r)
           end == Find(b, HeadEnd)
<1>1. /\ rd.infos <= r.infos /\ rd.infos <= MaxInfos /\ rd.body = <<>>
      /\ Cat(b, rest) = HeadsToCome(n, r)
  BY DEF AtHead
<1>2. b \in ByteSeq /\ Len(b) \in Nat /\ rd.infos \in Nat /\ r.infos \in Nat /\ r.pad \in Nat
  BY ReaderFacts, ResponseFacts
<1>3. n \in Nat /\ MaxHead \in Nat /\ MaxInfos \in Nat
  BY <1>1, <1>2, ReaderBounds
<1>4. PICK start \in {"i", "h"}, pad \in Nat, z \in ByteSeq :
        /\ Cat(b, rest) = Cat(HeadLine(start, pad), Cat(HeadEnd, z))
        /\ start = "h" => n = 0 /\ pad = r.pad /\ z = AfterHeadWire(r)
        /\ start = "i" => n # 0 /\ pad = 0 /\ z = HeadsToCome(n - 1, r)
  <2> HIDE DEF n, b
  <2>1. CASE n = 0
    <3>1. Cat(b, rest) = Cat(HeadLine("h", r.pad), Cat(HeadEnd, AfterHeadWire(r)))
      BY <1>1, <1>3, <2>1, HeadsToComeStep
    <3>2. AfterHeadWire(r) \in ByteSeq
      BY AfterHeadBytes
    <3> QED BY <1>2, <2>1, <3>1, <3>2
  <2>2. CASE n # 0
    <3>1. Cat(b, rest) = Cat(HeadLine("i", 0), Cat(HeadEnd, HeadsToCome(n - 1, r)))
      BY <1>1, <1>3, <2>2, HeadsToComeStep
    <3>2. n - 1 \in Nat
      BY <1>3, <2>2
    <3>3. HeadsToCome(n - 1, r) \in ByteSeq
      BY <3>2, HeadsToComeStep
    <3>4. 0 \in Nat
      OBVIOUS
    <3> QED BY <2>2, <3>1, <3>3, <3>4
  <2> QED BY <2>1, <2>2
<1> DEFINE L == HeadLine(start, pad)
<1>5. L \in ByteSeq /\ Len(L) = 1 + pad /\ L[1] = start /\ \A i \in 1..Len(L) : L[i] # "r"
  BY HeadLineFacts
<1>6. HeadEnd \in ByteSeq /\ Len(HeadEnd) = 4 /\ HeadEnd[1] = "r" /\ Cat(HeadEnd, z) \in ByteSeq
  BY HeadEndFacts, CatBytes
<1> HIDE DEF L, b, n, end
<1>7. Cat(b, rest) = Cat(L, Cat(HeadEnd, z)) /\ z \in ByteSeq /\ pad \in Nat
  BY <1>4 DEF L
<1>8. end = IF Len(b) >= 5 + pad THEN 2 + pad ELSE 0
  <2> DEFINE q == HeadEnd
  <2>1. q \in ByteSeq /\ Len(q) > 0 /\ (\A i \in 1..Len(L) : L[i] # q[1])
        /\ Cat(b, rest) = Cat(L, Cat(q, z))
    BY <1>5, <1>6, <1>7
  <2>2. Len(L) + Len(q) = 5 + pad /\ Len(L) + 1 = 2 + pad
    BY <1>5, <1>6, <1>7
  <2> HIDE DEF q
  <2>3. Find(b, q) = IF Len(b) >= Len(L) + Len(q) THEN Len(L) + 1 ELSE 0
    <3>1. b \in ByteSeq /\ L \in ByteSeq /\ z \in ByteSeq
      BY <1>2, <1>5, <1>7
    <3> QED BY <2>1, <3>1, FindAfter, Zenon
  <2> QED BY <2>2, <2>3 DEF end, q
<1>9. ASSUME 5 + pad > MaxHead PROVE ~Acceptable(r)
  <2>1. CASE start = "h"
    <3>1. HeadLen(r) > MaxHead
      BY <1>4, <1>9, <2>1 DEF HeadLen
    <3> QED BY <1>2, <1>3, <3>1 DEF Acceptable, HeadLen
  <2>2. CASE start = "i"
    <3>1. r.infos > 0 /\ ~(5 <= MaxHead)
      BY <1>2, <1>3, <1>4, <1>9, <2>2 DEF n
    <3> QED BY <3>1 DEF Acceptable
  <2> QED BY <2>1, <2>2
<1>10. ASSUME new = Error(rd), ~Acceptable(r) PROVE Outcome(new, rest, r) /\ new # rd
  <2>1. new \in Readers /\ new.at = "error" /\ Finished(new) /\ new # rd
    BY <1>10, ErrorFacts
  <2> HIDE DEF new
  <2> QED BY <1>10, <2>1 DEF Outcome
<1> DEFINE past == Drop(b, end + 3)
           left == [rd EXCEPT !.buf = past]
<1>11. new = CASE end = 0 /\ Len(b) >= MaxHead -> Error(rd)
               [] end = 0 /\ Len(b) < MaxHead -> rd
               [] end > 0 /\ end + 3 > MaxHead -> Error(rd)
               [] end > 0 /\ end + 3 <= MaxHead ->
                    IF b[1] = "h" THEN AfterHead(left, r)
                    ELSE IF rd.infos + 1 > MaxInfos THEN Error(rd)
                    ELSE [left EXCEPT !.infos = @ + 1]
  BY DEF read_header_section, end, b, HeadEnd, Cat
<1>12. CASE Len(b) < 5 + pad
  <2>1. end = 0
    BY <1>2, <1>7, <1>8, <1>12
  <2>2. CASE Len(b) >= MaxHead
    <3>1. new = Error(rd)
      <4>1. /\ end = 0 /\ Len(b) >= MaxHead /\ ~(end = 0 /\ Len(b) < MaxHead)
            /\ ~(end > 0 /\ end + 3 > MaxHead) /\ ~(end > 0 /\ end + 3 <= MaxHead)
        BY <1>2, <1>3, <2>1, <2>2
      <4> HIDE DEF left, past, new
      <4> QED BY <1>11, <4>1, Zenon
    <3>2. 5 + pad > MaxHead
      BY <1>2, <1>3, <1>7, <1>12, <2>2
    <3> QED BY <1>9, <1>10, <3>1, <3>2
  <2>3. CASE ~(Len(b) >= MaxHead)
    <3>1. new = rd
      <4>1. ~(end = 0 /\ Len(b) >= MaxHead) /\ end = 0 /\ Len(b) < MaxHead /\ ~(end > 0)
        BY <1>2, <1>3, <2>1, <2>3
      <4> HIDE DEF left, past
      <4> QED BY <1>11, <4>1
    <3>2. rest # <<>>
      <4> SUFFICES ASSUME rest = <<>> PROVE FALSE
        OBVIOUS
      <4>1. b = Cat(L, Cat(HeadEnd, z))
        BY <1>2, <1>7, CatBytes
      <4>2. Len(Cat(HeadEnd, z)) = 4 + Len(z) /\ Len(z) \in Nat
        BY <1>6, <1>7, CatLen
      <4>3. Len(b) = Len(L) + Len(Cat(HeadEnd, z))
        BY <1>5, <1>6, <4>1, CatLen
      <4> QED BY <1>2, <1>5, <1>7, <1>12, <4>2, <4>3
    <3>3. Reads(rd, rest, r) /\ ~Finished(rd)
      BY DEF Reads, Finished
    <3> HIDE DEF new
    <3>4. Outcome(rd, rest, r)
      BY <3>3 DEF Outcome, Finished
    <3> QED BY <3>1, <3>2, <3>4 DEF new
  <2> QED BY <2>2, <2>3
<1>13. CASE ~(Len(b) < 5 + pad)
  <2>1. end = 2 + pad /\ end + 3 = 5 + pad /\ end > 0 /\ end # 0
    BY <1>2, <1>7, <1>8, <1>13
  <2>2. CASE 5 + pad > MaxHead
    <3>1. new = Error(rd)
      <4>1. /\ ~(end = 0 /\ Len(b) >= MaxHead) /\ ~(end = 0 /\ Len(b) < MaxHead)
            /\ end > 0 /\ end + 3 > MaxHead /\ ~(end > 0 /\ end + 3 <= MaxHead)
        BY <1>3, <1>7, <2>1, <2>2
      <4> HIDE DEF left, past, new
      <4> QED BY <1>11, <4>1, Zenon
    <3> QED BY <1>9, <1>10, <2>2, <3>1
  <2>3. CASE ~(5 + pad > MaxHead)
    <3>1. new = IF b[1] = "h" THEN AfterHead(left, r)
                ELSE IF rd.infos + 1 > MaxInfos THEN Error(rd)
                ELSE [left EXCEPT !.infos = @ + 1]
      <4>1. ~(end = 0) /\ ~(end + 3 > MaxHead) /\ end + 3 <= MaxHead /\ end > 0
        BY <1>3, <1>7, <2>1, <2>3
      <4> HIDE DEF left, past
      <4> QED BY <1>11, <4>1
    <3>2. b[1] = start
      <4>1. 1 \in 1..Len(b) /\ 1 <= Len(L)
        BY <1>2, <1>5, <1>7, <1>13
      <4>2. b[1] = L[1]
        BY <1>2, <1>5, <1>6, <1>7, <4>1, PrefixAgrees DEF ByteSeq
      <4> QED BY <1>5, <4>2
    <3>3. past \in ByteSeq /\ Cat(past, rest) = z
      <4> DEFINE x == Cat(L, HeadEnd)
      <4>1. x \in ByteSeq /\ Cat(x, z) = Cat(L, Cat(HeadEnd, z))
        BY <1>5, <1>6, <1>7, CatBytes
      <4>2. Len(x) = Len(L) + 4
        BY <1>5, <1>6, CatLen
      <4>3. Len(x) = 5 + pad
        BY <1>5, <1>7, <4>2
      <4> HIDE DEF x
      <4>4. Drop(b, Len(x)) \in ByteSeq /\ Cat(Drop(b, Len(x)), rest) = z
        <5>1. Len(x) <= Len(b) /\ Cat(b, rest) = Cat(x, z)
          BY <1>2, <1>7, <1>13, <4>1, <4>3
        <5> QED BY <1>2, <1>7, <4>1, <5>1, TakeBytes
      <4> QED BY <2>1, <4>3, <4>4
    <3> HIDE DEF past, new
    <3>4. /\ left \in Readers /\ left.at = "head" /\ left.buf = past /\ left.body = <<>>
          /\ left.infos = rd.infos
      BY <1>1, <3>3 DEF Readers
    <3> HIDE DEF left
    <3>5. CASE start = "h"
      <4>1. new = AfterHead(left, r)
        BY <3>1, <3>2, <3>5
      <4>2. Cat(left.buf, rest) = AfterHeadWire(r)
        BY <1>4, <3>3, <3>4, <3>5
      <4>3. HeadFits(r)
        BY <1>1, <1>2, <1>3, <1>4, <2>3, <3>5 DEF HeadFits, HeadLen, n
      <4>4. Outcome(new, rest, r) /\ new.at # "head"
        BY <3>4, <4>1, <4>2, <4>3, FramingChosen
      <4>5. new # rd
        BY <4>4
      <4> QED BY <4>4, <4>5 DEF new
    <3>6. CASE start = "i"
      <4>1. new = IF rd.infos + 1 > MaxInfos THEN Error(rd) ELSE [left EXCEPT !.infos = @ + 1]
        BY <3>1, <3>2, <3>6
      <4>2. n # 0 /\ z = HeadsToCome(n - 1, r)
        BY <1>4, <3>6
      <4>3. CASE rd.infos + 1 > MaxInfos
        <5>1. r.infos > MaxInfos
          BY <1>1, <1>2, <1>3, <4>2, <4>3 DEF n
        <5>2. ~Acceptable(r)
          BY <1>2, <1>3, <5>1 DEF Acceptable
        <5>3. new = Error(rd)
          BY <4>1, <4>3
        <5> QED BY <1>10, <5>2, <5>3 DEF new
      <4>4. CASE ~(rd.infos + 1 > MaxInfos)
        <5>1. new = [left EXCEPT !.infos = rd.infos + 1]
          BY <3>4, <4>1, <4>4
        <5>2. /\ new \in Readers /\ new.at = "head" /\ new.buf = past /\ new.body = <<>>
              /\ new.infos = rd.infos + 1
          BY <1>2, <3>4, <5>1 DEF Readers
        <5>3. r.infos - new.infos = n - 1 /\ new.infos <= r.infos /\ new.infos <= MaxInfos
          BY <1>1, <1>2, <1>3, <4>2, <4>4, <5>2 DEF n
        <5>4. AtHead(new, rest, r)
          BY <3>3, <4>2, <5>2, <5>3 DEF AtHead
        <5>5. Outcome(new, rest, r)
          BY <5>2, <5>4 DEF Outcome, Reads, Finished
        <5>6. new # rd
          BY <1>2, <5>2
        <5> QED BY <5>5, <5>6 DEF new
      <4> QED BY <4>3, <4>4
    <3> QED BY <3>5, <3>6
  <2> QED BY <2>2, <2>3
<1> QED BY <1>12, <1>13

(* Advance, at any place.  A reader that is not waiting for the end of the *)
(* connection needs more only if there is more.                            *)
LEMMA AdvanceOK ==
  ASSUME NEW r \in Responses, NEW rest \in ByteSeq, NEW rd \in Readers,
         ~Finished(rd), Reads(rd, rest, r)
  PROVE  /\ Outcome(Advance(rd, r), rest, r)
         /\ rest = <<>> /\ rd.at # "close" => Advance(rd, r) # rd
<1>1. CASE rd.at = "head"
  <2>1. Advance(rd, r) = read_header_section(rd, r) /\ AtHead(rd, rest, r)
    BY <1>1 DEF Advance, Reads
  <2> QED BY <1>1, <2>1, HeadAdvance
<1>2. CASE rd.at = "fixed"
  <2>1. Advance(rd, r) = read_fixed_body(rd) /\ AtFixed(rd, rest, r)
    BY <1>2 DEF Advance, Reads
  <2> QED BY <1>2, <2>1, FixedAdvance
<1>3. CASE rd.at = "size"
  <2>1. Advance(rd, r) = read_chunk_size(rd) /\ AtSize(rd, rest, r)
    BY <1>3 DEF Advance, Reads
  <2> QED BY <1>3, <2>1, SizeAdvance
<1>4. CASE rd.at = "data"
  <2>1. Advance(rd, r) = read_chunk_data(rd) /\ AtData(rd, rest, r)
    BY <1>4 DEF Advance, Reads
  <2> QED BY <1>4, <2>1, DataAdvance
<1>5. CASE rd.at = "crlf"
  <2>1. Advance(rd, r) = read_chunk_end(rd) /\ AtCrlf(rd, rest, r)
    BY <1>5 DEF Advance, Reads
  <2> QED BY <1>5, <2>1, CrlfAdvance
<1>6. CASE rd.at = "trailer"
  <2>1. Advance(rd, r) = read_trailers(rd) /\ AtTrailer(rd, rest, r)
    BY <1>6 DEF Advance, Reads
  <2> QED BY <1>6, <2>1, TrailerAdvance
<1>7. CASE rd.at = "close"
  <2>1. Advance(rd, r) = rd
    BY <1>7 DEF Advance
  <2> QED BY <1>7, <2>1 DEF Outcome, Finished
<1>8. rd.at \in Places \ {"ok", "error"}
  BY DEF Readers, Finished
<1> QED BY <1>1, <1>2, <1>3, <1>4, <1>5, <1>6, <1>7, <1>8 DEF Places

(* Receive, at any place: what was read goes where it belongs. *)
LEMMA ReceiveOK ==
  ASSUME NEW r \in Responses, NEW data \in ByteSeq, NEW rest \in ByteSeq, NEW rd \in Readers,
         ~Finished(rd), Reads(rd, Cat(data, rest), r)
  PROVE  Outcome(Receive(rd, data), rest, r)
<1> DEFINE new == Receive(rd, data)
<1>1. rd.buf \in ByteSeq /\ rd.body \in ByteSeq /\ rd.want \in Nat /\ rd.infos \in Nat
      /\ Len(rd.body) \in Nat
  BY ReaderFacts
<1>2. MaxBody \in Nat
  BY ReaderBounds
<1>3. /\ Cat(rd.buf, data) \in ByteSeq /\ Cat(rd.body, data) \in ByteSeq
      /\ Cat(Cat(rd.buf, data), rest) = Cat(rd.buf, Cat(data, rest))
      /\ Cat(Cat(rd.body, data), rest) = Cat(rd.body, Cat(data, rest))
  <2>1. \A x \in ByteSeq : Cat(x, data) \in ByteSeq /\ Cat(Cat(x, data), rest) = Cat(x, Cat(data, rest))
    BY CatBytes
  <2> QED BY <1>1, <2>1, Zenon
<1>4. Len(Cat(rd.body, data)) = Len(rd.body) + Len(data) /\ Len(data) \in Nat
  BY <1>1, CatLen
<1>5. rd.at \in Places \ {"ok", "error"}
  BY DEF Readers, Finished
<1>6. CASE rd.at = "fixed"
  <2>1. new = [rd EXCEPT !.body = Cat(rd.body, data)]
    BY <1>6 DEF Receive, Cat
  <2>2. AtFixed(rd, Cat(data, rest), r)
    BY <1>6 DEF Reads
  <2> HIDE DEF new
  <2>3. /\ new \in Readers /\ new.at = "fixed" /\ new.buf = rd.buf /\ new.want = rd.want
        /\ new.body = Cat(rd.body, data)
    BY <1>3, <1>6, <2>1 DEF Readers
  <2>4. AtFixed(new, rest, r)
    BY <1>3, <2>2, <2>3 DEF AtFixed
  <2>5. Outcome(new, rest, r)
    BY <2>3, <2>4 DEF Outcome, Reads, Finished
  <2> QED BY <2>5 DEF new
<1>7. CASE rd.at = "close"
  <2>1. AtClose(rd, Cat(data, rest), r)
    BY <1>7 DEF Reads
  <2>2. CASE Len(data) > MaxBody - Len(rd.body)
    <3>1. new = Error(rd)
      BY <1>7, <2>2 DEF Receive
    <3>2. r.framing = "close"
      BY <2>1 DEF AtClose
    <3> HIDE DEF new
    <3>3. new \in Readers /\ new.at = "error" /\ Finished(new)
      BY <3>1, ErrorFacts
    <3>4. Outcome(new, rest, r)
      BY <3>2, <3>3 DEF Outcome
    <3> QED BY <3>4 DEF new
  <2>3. CASE ~(Len(data) > MaxBody - Len(rd.body))
    <3>1. new = [rd EXCEPT !.body = Cat(rd.body, data)]
      BY <1>7, <2>3 DEF Receive, Cat
    <3>2. Len(Cat(rd.body, data)) <= MaxBody
      BY <1>1, <1>2, <1>4, <2>3
    <3> HIDE DEF new
    <3>3. /\ new \in Readers /\ new.at = "close" /\ new.buf = rd.buf
          /\ new.body = Cat(rd.body, data)
      BY <1>3, <1>7, <3>1 DEF Readers
    <3>4. AtClose(new, rest, r)
      BY <1>3, <2>1, <3>2, <3>3 DEF AtClose
    <3>5. Outcome(new, rest, r)
      BY <3>3, <3>4 DEF Outcome, Reads, Finished
    <3> QED BY <3>5 DEF new
  <2> QED BY <2>2, <2>3
<1>8. CASE rd.at \notin {"fixed", "close"}
  <2>1. new = [rd EXCEPT !.buf = Cat(rd.buf, data)]
    BY <1>8 DEF Receive, Cat
  <2> HIDE DEF new
  <2>2. /\ new \in Readers /\ new.at = rd.at /\ new.body = rd.body /\ new.want = rd.want
        /\ new.infos = rd.infos /\ new.buf = Cat(rd.buf, data)
    BY <1>3, <2>1 DEF Readers
  <2>3. Cat(new.buf, rest) = Cat(rd.buf, Cat(data, rest))
    BY <1>3, <2>2
  <2>4. Reads(new, rest, r)
    <3>1. CASE rd.at = "head"
      <4>1. AtHead(rd, Cat(data, rest), r)
        BY <3>1 DEF Reads
      <4>2. AtHead(new, rest, r)
        BY <2>2, <2>3, <4>1 DEF AtHead
      <4> QED BY <2>2, <3>1, <4>2 DEF Reads
    <3>2. CASE rd.at = "size"
      <4>1. AtSize(rd, Cat(data, rest), r)
        BY <3>2 DEF Reads
      <4>2. AtSize(new, rest, r)
        BY <2>2, <2>3, <4>1 DEF AtSize, AtChunk
      <4> QED BY <2>2, <3>2, <4>2 DEF Reads
    <3>3. CASE rd.at = "data"
      <4>1. AtData(rd, Cat(data, rest), r)
        BY <3>3 DEF Reads
      <4>2. AtData(new, rest, r)
        BY <2>2, <2>3, <4>1 DEF AtData, AtChunk
      <4> QED BY <2>2, <3>3, <4>2 DEF Reads
    <3>4. CASE rd.at = "crlf"
      <4>1. AtCrlf(rd, Cat(data, rest), r)
        BY <3>4 DEF Reads
      <4>2. AtCrlf(new, rest, r)
        BY <2>2, <2>3, <4>1 DEF AtCrlf, AtChunk
      <4> QED BY <2>2, <3>4, <4>2 DEF Reads
    <3>5. CASE rd.at = "trailer"
      <4>1. AtTrailer(rd, Cat(data, rest), r)
        BY <3>5 DEF Reads
      <4>2. AtTrailer(new, rest, r)
        BY <2>2, <2>3, <4>1 DEF AtTrailer, AtChunk
      <4> QED BY <2>2, <3>5, <4>2 DEF Reads
    <3> QED BY <1>5, <1>8, <3>1, <3>2, <3>3, <3>4, <3>5 DEF Places
  <2>5. ~Finished(new) /\ new.at # "ok" /\ new.at # "error"
    BY <1>5, <2>2 DEF Finished
  <2>6. Outcome(new, rest, r)
    BY <2>2, <2>4, <2>5 DEF Outcome
  <2> QED BY <2>6 DEF new
<1> QED BY <1>6, <1>7, <1>8

-----------------------------------------------------------------------------
(***************************************************************************)
(* The exchange.  The bytes of the response go from the service through    *)
(* the client to the server, and what the reader has and has not seen of   *)
(* them makes up the response.                                             *)
(***************************************************************************)
LEMMA WireBytes ==
  ASSUME NEW r \in Responses
  PROVE  /\ Wire(r) \in ByteSeq /\ Len(Wire(r)) \in Nat
         /\ Wire(r) = HeadsToCome(r.infos, r)
<1> DEFINE a == Infos(r.infos)
           h == Head1("h", r.pad)
           w == AfterHeadWire(r)
<1>1. r.infos \in Nat /\ r.pad \in Nat
  BY ResponseFacts
<1>2. a \in ByteSeq /\ w \in ByteSeq
  BY <1>1, InfosBytes, AfterHeadBytes
<1>3. h \in ByteSeq
  BY <1>1, Head1Bytes
<1>4. Wire(r) = Cat(Cat(a, h), w)
  BY DEF Wire, Cat
<1>5. HeadsToCome(r.infos, r) = Cat(a, Cat(h, w))
  BY DEF HeadsToCome
<1> HIDE DEF a, h, w
<1>6. Cat(Cat(a, h), w) = Cat(a, Cat(h, w))
  BY <1>2, <1>3, CatBytes
<1>7. HeadsToCome(r.infos, r) \in ByteSeq
  BY <1>1, HeadsToComeStep
<1> QED BY <1>4, <1>5, <1>6, <1>7, LenProperties DEF ByteSeq

(* What has not been read, before and after a read. *)
LEMMA ReadSplits ==
  ASSUME NEW w \in ByteSeq, NEW i \in Nat, NEW n \in Nat, i + n <= Len(w)
  PROVE  /\ SubSeq(w, i + 1, i + n) \in ByteSeq
         /\ After(w, i) \in ByteSeq /\ After(w, i + n) \in ByteSeq
         /\ After(w, i) = Cat(SubSeq(w, i + 1, i + n), After(w, i + n))
<1> DEFINE x == SubSeq(w, i + 1, i + n)
           y == SubSeq(w, i + n + 1, Len(w))
           z == SubSeq(w, i + 1, Len(w))
<1>1. w \in Seq(Bytes) /\ Len(w) \in Nat
  BY LenProperties DEF ByteSeq
<1>2. x \in Seq(Bytes) /\ Len(x) = n /\ \A k \in 1..n : x[k] = w[i + k]
  BY <1>1
<1>3. y \in Seq(Bytes) /\ Len(y) = Len(w) - (i + n) /\ \A k \in 1..Len(y) : y[k] = w[i + n + k]
  BY <1>1
<1>4. z \in Seq(Bytes) /\ Len(z) = Len(w) - i /\ \A k \in 1..Len(z) : z[k] = w[i + k]
  BY <1>1
<1> HIDE DEF x, y, z
<1>5. x \o y \in Seq(Bytes) /\ Len(x \o y) = Len(x) + Len(y)
      /\ \A k \in 1..(Len(x) + Len(y)) : (x \o y)[k] = IF k <= Len(x) THEN x[k] ELSE y[k - Len(x)]
  <2>1. x \in Seq(Bytes) /\ y \in Seq(Bytes)
    BY <1>2, <1>3
  <2> QED BY <2>1, ConcatProperties
<1>6. Len(x \o y) = Len(z)
  BY <1>1, <1>2, <1>3, <1>4, <1>5
<1>7. ASSUME NEW k \in 1..Len(z) PROVE (x \o y)[k] = z[k]
  <2>1. k \in 1..(Len(x) + Len(y)) /\ k \in Nat
    BY <1>1, <1>2, <1>3, <1>4
  <2>2. CASE k <= n
    BY <1>2, <1>4, <1>5, <2>1, <2>2
  <2>3. CASE ~(k <= n)
    <3>1. k - n \in 1..Len(y) /\ i + n + (k - n) = i + k
      BY <1>1, <1>2, <1>3, <2>1, <2>3
    <3>2. (x \o y)[k] = y[k - n]
      BY <1>2, <1>5, <2>1, <2>3
    <3>3. y[k - n] = w[i + k]
      BY <1>3, <3>1
    <3> QED BY <1>4, <3>2, <3>3
  <2> QED BY <2>2, <2>3
<1>8. x \o y = z
  BY <1>4, <1>5, <1>6, <1>7, SeqEqual
<1> QED BY <1>2, <1>3, <1>4, <1>8 DEF After, Cat, ByteSeq, x, y, z

LEMMA AfterFacts ==
  ASSUME NEW w \in ByteSeq
  PROVE  /\ After(w, 0) = w
         /\ \A i \in Nat : i <= Len(w) => After(w, i) \in ByteSeq /\ Len(After(w, i)) = Len(w) - i
<1>1. w \in Seq(Bytes) /\ Len(w) \in Nat
  BY LenProperties DEF ByteSeq
<1>2. After(w, 0) = w
  BY <1>1 DEF After
<1>3. ASSUME NEW i \in Nat, i <= Len(w)
      PROVE  After(w, i) \in ByteSeq /\ Len(After(w, i)) = Len(w) - i
  BY <1>1, <1>3 DEF After, ByteSeq
<1> QED BY <1>2, <1>3

(* The beginning of a sequence of which x is the beginning. *)
LEMMA FrontOf ==
  ASSUME NEW x \in ByteSeq, NEW y \in ByteSeq, NEW b, b = Cat(x, y)
  PROVE  SubSeq(b, 1, Len(x)) = x /\ Len(b) = Len(x) + Len(y) /\ (y = <<>> <=> Len(y) = 0)
<1>1. b \in ByteSeq /\ Cat(b, <<>>) = b
  BY CatBytes
<1>2. Len(b) = Len(x) + Len(y) /\ Len(x) \in Nat /\ Len(y) \in Nat
  BY CatLen
<1>3. <<>> \in ByteSeq /\ (y = <<>> <=> Len(y) = 0)
  BY EmptyBytes
<1>4. Cat(b, <<>>) = Cat(x, y) /\ Len(x) <= Len(b)
  BY <1>1, <1>2
<1> HIDE DEF ByteSeq
<1>5. SubSeq(b, 1, Len(x)) = x
  BY <1>1, <1>3, <1>4, TakeBytes
<1> QED BY <1>2, <1>3, <1>5

(* The numbers of bytes, and how the client's task and the service's       *)
(* connection go together.                                                 *)
PathInv ==
  /\ resp \in Responses
  /\ taken \in Nat /\ bytes_out \in Nat /\ made \in Nat
  /\ taken <= bytes_out /\ bytes_out <= made /\ made <= RespLen
  /\ bridge = "opens" => local = "none"
  /\ downDone => local = "closed" /\ bytes_out = made

(* The reader has not lost, doubled or invented a byte. *)
ReaderInv == reader \in Readers /\ (~Finished(reader) => Reads(reader, Rest, resp))

ExchangeInv == PathInv /\ ReaderInv /\ ExchangeFaithful

LEMMA RespLenFacts ==
  ASSUME resp \in Responses
  PROVE  RespLen \in Nat /\ Wire(resp) \in ByteSeq /\ Rest = After(Wire(resp), taken)
BY WireBytes DEF RespLen, Rest, After

LEMMA AsksBounded ==
  ASSUME NEW rd \in Readers, NEW a \in Nat, NEW n \in 1..Asks(rd, Least(2, a))
  PROVE  n \in Nat /\ n <= a
<1>1. rd.want \in Nat /\ Len(rd.body) \in Nat
  BY ReaderFacts
<1>2. Least(2, a) \in Nat /\ Least(2, a) <= a
  <2>1. CASE 2 < a
    BY <2>1 DEF Least
  <2>2. CASE ~(2 < a)
    BY <2>2 DEF Least
  <2> QED BY <2>1, <2>2
<1>3. Asks(rd, Least(2, a)) <= Least(2, a) /\ Asks(rd, Least(2, a)) \in Int
  BY <1>1, <1>2 DEF Asks
<1> QED BY <1>2, <1>3

LEMMA PathStep ==
  ASSUME PathInv, reader \in Readers, [Next]_vars
  PROVE  PathInv' /\ (Cut => Cut') /\ resp' = resp
<1>1. resp' = resp
  BY Zenon DEF Next, Server, UpPump, DownPump, Service, chosen, vars,
     ServerWrites, ServerWriteFails, ServerWritten, ServerParses, ServerReads, ServerReadsEnd,
     ServerReadTimeout, ServerReturns, VisitorHangsUp, ConnectLocal, ConnectLocalFails,
     ForwardUp, ForwardUpFails, UpSwallowed, UpEnds, ForwardDown, ForwardDownFails, DownEnds,
     BridgeAborted, BridgeEnds, ReplayStarts, ReplayAnswered, ReplayFails, ClearRequests,
     ServiceReads, ServiceWrites, ServiceCloses, ServiceSeesEnd, ServiceDies
<1>2. RespLen' = RespLen /\ RespLen \in Nat
  BY <1>1, RespLenFacts DEF RespLen, PathInv
<1>3. CASE UNCHANGED <<made, bytes_out, taken, local, bridge, downDone>>
  BY <1>1, <1>2, <1>3 DEF PathInv, Cut
<1>4. CASE ServerReads
  <2>1. PICK n \in 1..Asks(reader, Least(2, bytes_out - taken)) : taken' = taken + n
    BY <1>4 DEF ServerReads
  <2>2. bytes_out - taken \in Nat
    BY DEF PathInv
  <2>3. n \in Nat /\ n <= bytes_out - taken
    BY <2>1, <2>2, AsksBounded
  <2>4. UNCHANGED <<made, bytes_out, local, bridge, downDone>>
    BY <1>4 DEF ServerReads
  <2> QED BY <1>1, <1>2, <2>1, <2>3, <2>4 DEF PathInv, Cut
<1>5. CASE ForwardDown
  BY <1>1, <1>2, <1>5 DEF ForwardDown, PathInv, Cut
<1>6. CASE DownEnds
  BY <1>1, <1>2, <1>6 DEF DownEnds, path, PathInv, Cut
<1>7. CASE ServiceWrites
  BY <1>1, <1>2, <1>7 DEF ServiceWrites, PathInv, Cut
<1>8. CASE ConnectLocal
  BY <1>1, <1>2, <1>8 DEF ConnectLocal, path, PathInv, Cut
<1>9. CASE ConnectLocalFails \/ ForwardUpFails \/ ForwardDownFails \/ BridgeAborted
  <2>1. Fail /\ UNCHANGED <<made, bytes_out, taken, downDone>>
    BY <1>9 DEF ConnectLocalFails, ForwardUpFails, ForwardDownFails, BridgeAborted, path
  <2> QED BY <1>1, <1>2, <2>1 DEF Fail, PathInv, Cut
<1>10. CASE BridgeEnds
  BY <1>1, <1>2, <1>10 DEF BridgeEnds, path, PathInv, Cut
<1>11. CASE ServiceCloses \/ ServiceSeesEnd \/ ServiceDies
  <2>1. local = "open" /\ local' = "closed" /\ UNCHANGED <<made, bytes_out, taken, bridge, downDone>>
    BY <1>11 DEF ServiceCloses, ServiceSeesEnd, ServiceDies, path
  <2> QED BY <1>1, <1>2, <2>1 DEF PathInv, Cut
<1>12. CASE \/ ServerWrites \/ ServerWriteFails \/ ServerWritten \/ ServerParses \/ ServerReadsEnd
            \/ ServerReadTimeout \/ ServerReturns \/ VisitorHangsUp \/ ForwardUp \/ UpSwallowed
            \/ UpEnds \/ ServiceReads
  BY <1>3, <1>12 DEF ServerWrites, ServerWriteFails, ServerWritten, ServerParses, ServerReadsEnd,
     ServerReadTimeout, ServerReturns, VisitorHangsUp, ForwardUp, UpSwallowed, UpEnds, ServiceReads,
     path
<1>13. CASE \/ \E i \in DOMAIN captures : ReplayStarts(i)
            \/ ReplayAnswered \/ ReplayFails \/ ClearRequests \/ UNCHANGED vars
  BY <1>3, <1>13 DEF ReplayStarts, ReplayAnswered, ReplayFails, ClearRequests, path, vars
<1> QED
  BY <1>4, <1>5, <1>6, <1>7, <1>8, <1>9, <1>10, <1>11, <1>12, <1>13
  DEF Next, Server, UpPump, DownPump, Service

(* A reader that went right is faithful, whether or not there was a cut. *)
LEMMA OutcomeFaithful ==
  ASSUME NEW r \in Responses, NEW rest \in ByteSeq, NEW rd, Outcome(rd, rest, r)
  PROVE  /\ rd.at = "ok" =>
              /\ Acceptable(r)
              /\ rd.body = (IF r.framing = "nobody" THEN <<>> ELSE SubSeq(Body(r), 1, Len(rd.body)))
              /\ Len(rd.body) < Len(Body(r)) => r.framing = "nobody"
         /\ rd.at = "error" => ~Acceptable(r) \/ r.framing = "close"
<1>1. Body(r) \in ByteSeq /\ Len(Body(r)) \in Nat
  BY ResponseFacts
<1>2. SubSeq(Body(r), 1, Len(Body(r))) = Body(r)
  <2>1. Cat(Body(r), <<>>) = Body(r) /\ <<>> \in ByteSeq
    BY <1>1, CatBytes, EmptyBytes
  <2> QED BY <1>1, <2>1, FrontOf
<1>3. ~(Len(Body(r)) < Len(Body(r)))
  BY <1>1
<1> QED BY <1>2, <1>3 DEF Outcome, Complete

(* Steps that leave the reader and what it has not read alone. *)
LEMMA QuietStep ==
  ASSUME ExchangeInv, Cut => Cut', UNCHANGED <<resp, reader, taken>>
  PROVE  ReaderInv' /\ ExchangeFaithful'
<1>1. Rest' = Rest
  BY DEF Rest
<1>2. ReaderInv'
  BY <1>1 DEF ExchangeInv, ReaderInv
<1>3. ExchangeFaithful'
  BY DEF ExchangeInv, ExchangeFaithful
<1> QED BY <1>2, <1>3

(* Steps that end the reader with an error. *)
LEMMA ErrorStep ==
  ASSUME reader \in Readers, reader' = Error(reader), UNCHANGED resp,
         Cut' \/ resp.framing = "close"
  PROVE  ReaderInv' /\ ExchangeFaithful'
<1>1. reader' \in Readers /\ reader'.at = "error" /\ Finished(reader')
  BY ErrorFacts
<1>2. ReaderInv'
  BY <1>1 DEF ReaderInv
<1>3. ExchangeFaithful'
  BY <1>1 DEF ExchangeFaithful
<1> QED BY <1>2, <1>3

(* Steps after which the reader has gone right. *)
LEMMA OutcomeStep ==
  ASSUME resp \in Responses, UNCHANGED resp, Rest' \in ByteSeq, Outcome(reader', Rest', resp)
  PROVE  ReaderInv' /\ ExchangeFaithful'
<1>1. ReaderInv'
  BY DEF Outcome, ReaderInv
<1> DEFINE rd == reader'
           b == Rest'
<1>2. b \in ByteSeq /\ Outcome(rd, b, resp)
  OBVIOUS
<1> HIDE DEF rd, b
<1>3. /\ rd.at = "ok" =>
           /\ Acceptable(resp)
           /\ rd.body = (IF resp.framing = "nobody" THEN <<>>
                         ELSE SubSeq(Body(resp), 1, Len(rd.body)))
           /\ Len(rd.body) < Len(Body(resp)) => resp.framing = "nobody"
      /\ rd.at = "error" => ~Acceptable(resp) \/ resp.framing = "close"
  BY <1>2, OutcomeFaithful
<1>4. ExchangeFaithful'
  BY <1>3, Zenon DEF ExchangeFaithful, rd
<1> QED BY <1>1, <1>4

LEMMA RestBytes ==
  ASSUME PathInv
  PROVE  Rest \in ByteSeq /\ (Rest = <<>> <=> taken = RespLen)
<1>1. Wire(resp) \in ByteSeq /\ Rest = After(Wire(resp), taken) /\ taken \in Nat
      /\ taken <= Len(Wire(resp)) /\ Len(Wire(resp)) \in Nat
  BY RespLenFacts DEF PathInv, RespLen
<1>2. Rest \in ByteSeq /\ Len(Rest) = Len(Wire(resp)) - taken
  BY <1>1, AfterFacts
<1>3. Len(<<>>) = 0 /\ \A x \in ByteSeq : Len(x) = 0 => x = <<>>
  BY EmptyBytes
<1>4. Len(Rest) = 0 <=> taken = Len(Wire(resp))
  BY <1>1, <1>2
<1> QED BY <1>2, <1>3, <1>4 DEF RespLen

LEMMA ServerParsesOK ==
  ASSUME ExchangeInv, ServerParses
  PROVE  ReaderInv' /\ ExchangeFaithful'
<1>1. UNCHANGED <<resp, taken>> /\ reader' = Advance(reader, resp) /\ ~Finished(reader)
  BY DEF ServerParses, chosen, path
<1>2. Rest' = Rest /\ Rest \in ByteSeq /\ resp \in Responses
  BY <1>1, RestBytes DEF Rest, ExchangeInv, PathInv
<1>3. reader \in Readers /\ Reads(reader, Rest, resp)
  BY <1>1 DEF ExchangeInv, ReaderInv
<1>4. Outcome(reader', Rest', resp)
  BY <1>1, <1>2, <1>3, AdvanceOK
<1> QED BY <1>1, <1>2, <1>4, OutcomeStep

LEMMA ServerReadsOK ==
  ASSUME ExchangeInv, PathInv', ServerReads
  PROVE  ReaderInv' /\ ExchangeFaithful'
<1>1. PICK n \in 1..Asks(reader, Least(2, bytes_out - taken)) :
        /\ reader' = Receive(reader, SubSeq(Wire(resp), taken + 1, taken + n))
        /\ taken' = taken + n
  BY DEF ServerReads
<1> DEFINE w == Wire(resp)
           data == SubSeq(w, taken + 1, taken + n)
<1>2. UNCHANGED resp /\ ~Finished(reader)
  BY DEF ServerReads, chosen, NeedsMore
<1>3. reader \in Readers /\ Reads(reader, Rest, resp)
  BY <1>2 DEF ExchangeInv, ReaderInv
<1>4. w \in ByteSeq /\ Rest = After(w, taken) /\ taken \in Nat /\ bytes_out \in Nat
      /\ taken <= bytes_out /\ bytes_out <= Len(w) /\ Len(w) \in Nat /\ resp \in Responses
  <2>1. resp \in Responses /\ taken \in Nat /\ bytes_out \in Nat /\ made \in Nat
        /\ taken <= bytes_out /\ bytes_out <= made /\ made <= RespLen
    BY DEF ExchangeInv, PathInv
  <2>2. RespLen = Len(w) /\ RespLen \in Nat /\ w \in ByteSeq /\ Rest = After(w, taken)
    BY <2>1, RespLenFacts DEF RespLen
  <2> HIDE DEF w
  <2> QED BY <2>1, <2>2
<1> HIDE DEF w
<1>5. n \in Nat /\ taken + n <= Len(w)
  <2>1. bytes_out - taken \in Nat
    BY <1>4
  <2>2. n \in Nat /\ n <= bytes_out - taken
    BY <1>3, <2>1, AsksBounded
  <2> QED BY <1>4, <2>2
<1>6. Rest' = After(w, taken + n)
  BY <1>1, <1>2 DEF Rest, After, w
<1>7. data \in ByteSeq /\ Rest' \in ByteSeq /\ Rest = Cat(data, Rest')
  BY <1>4, <1>5, <1>6, ReadSplits
<1>8. reader' = Receive(reader, data)
  BY <1>1 DEF w
<1> HIDE DEF data
<1>9. Outcome(reader', Rest', resp)
  <2> DEFINE b == Rest'
  <2>1. b \in ByteSeq /\ Reads(reader, Cat(data, b), resp)
    BY <1>3, <1>7
  <2> HIDE DEF b
  <2>2. Outcome(Receive(reader, data), b, resp)
    BY <1>2, <1>3, <1>4, <1>7, <2>1, ReceiveOK
  <2> QED BY <1>8, <2>2 DEF b
<1> QED BY <1>2, <1>4, <1>7, <1>9, OutcomeStep

(* The end of the stream.  The client's task has failed, or its pump has   *)
(* forwarded all that the service sent: if that is less than the response, *)
(* the response was cut, and if it is all, only a response that ends with  *)
(* the connection can be what the reader waits for.                        *)
LEMMA ServerReadsEndOK ==
  ASSUME ExchangeInv, ServerReadsEnd
  PROVE  ReaderInv' /\ ExchangeFaithful'
<1>1. /\ UNCHANGED <<resp, taken, bridge, local, made>> /\ reader' = ReceiveEnd(reader)
      /\ ~Finished(reader) /\ Advance(reader, resp) = reader
      /\ taken = bytes_out /\ (downDone \/ bridge = "failed")
  BY DEF ServerReadsEnd, chosen, path, NeedsMore
<1>2. Rest \in ByteSeq /\ (Rest = <<>> <=> taken = RespLen) /\ resp \in Responses
  BY RestBytes DEF ExchangeInv, PathInv
<1>3. reader \in Readers /\ Reads(reader, Rest, resp)
  BY <1>1 DEF ExchangeInv, ReaderInv
<1>4. Cut' = Cut
  BY <1>1 DEF Cut, RespLen
<1>5. Rest # <<>> => Cut
  <2>1. RespLen \in Nat
    BY <1>2, RespLenFacts
  <2> QED BY <1>1, <1>2, <2>1 DEF Cut, ExchangeInv, PathInv
<1>6. CASE reader.at = "close"
  <2>1. AtClose(reader, Rest, resp)
    BY <1>3, <1>6 DEF Reads
  <2>2. reader' = [reader EXCEPT !.at = "ok"]
    BY <1>1, <1>6 DEF ReceiveEnd
  <2>3. reader' \in Readers /\ reader'.at = "ok" /\ reader'.body = reader.body
    BY <1>3, <2>2 DEF Readers, Places
  <2>4. ReaderInv'
    BY <2>3 DEF ReaderInv, Finished
  <2> DEFINE x == reader.body
             y == Rest
  <2>5. x \in ByteSeq /\ Len(x) \in Nat /\ y \in ByteSeq /\ Body(resp) = Cat(x, y)
    BY <1>2, <1>3, <2>1, ReaderFacts DEF AtClose
  <2>6. resp.framing = "close" /\ HeadFits(resp) /\ Len(x) <= MaxBody
    BY <2>1 DEF AtClose
  <2> HIDE DEF x, y
  <2>7. SubSeq(Body(resp), 1, Len(x)) = x /\ Len(Body(resp)) = Len(x) + Len(y)
        /\ (y = <<>> <=> Len(y) = 0)
    BY <2>5, FrontOf
  <2>8. y = <<>> => Acceptable(resp)
    <3>1. resp.pad \in Nat /\ MaxHead \in Nat
      BY <1>2, ResponseFacts, ReaderBounds
    <3> QED BY <2>5, <2>6, <2>7, <3>1 DEF Acceptable, HeadFits, HeadLen
  <2>9. Len(x) < Len(Body(resp)) => y # <<>>
    BY <2>5, <2>7
  <2>10. y # <<>> => Cut'
    BY <1>4, <1>5 DEF y
  <2>11. ExchangeFaithful'
    <3>1. reader'.body = x
      BY <2>3 DEF x
    <3>2. resp' = resp
      BY <1>1
    <3> QED BY <2>3, <2>6, <2>7, <2>8, <2>9, <2>10, <3>1, <3>2 DEF ExchangeFaithful
  <2> QED BY <2>4, <2>11
<1>7. CASE reader.at # "close"
  <2>1. reader' = Error(reader)
    BY <1>1, <1>7 DEF ReceiveEnd
  <2>2. Rest # <<>>
    BY <1>1, <1>2, <1>3, <1>7, AdvanceOK
  <2> QED BY <1>1, <1>3, <1>4, <1>5, <2>1, <2>2, ErrorStep
<1> QED BY <1>6, <1>7

LEMMA ExchangeStep ==
  ASSUME ExchangeInv, [Next]_vars
  PROVE  ExchangeInv'
<1>1. PathInv' /\ (Cut => Cut') /\ resp' = resp
  BY PathStep DEF ExchangeInv, ReaderInv
<1>2. reader \in Readers
  BY DEF ExchangeInv, ReaderInv
<1> SUFFICES ReaderInv' /\ ExchangeFaithful'
  BY <1>1 DEF ExchangeInv
<1>3. CASE UNCHANGED <<reader, taken>>
  BY <1>1, <1>3, QuietStep
<1>4. CASE ServerParses
  BY <1>4, ServerParsesOK
<1>5. CASE ServerReads
  BY <1>1, <1>5, ServerReadsOK
<1>6. CASE ServerReadsEnd
  BY <1>6, ServerReadsEndOK
<1>7. CASE ServerWriteFails
  <2>1. reader' = Error(reader) /\ Cut'
    BY <1>7 DEF ServerWriteFails, Cut
  <2> QED BY <1>1, <1>2, <2>1, ErrorStep
<1>8. CASE ServerReadTimeout
  <2>1. reader' = Error(reader) /\ reader.at = "close"
    BY <1>8 DEF ServerReadTimeout
  <2>2. AtClose(reader, Rest, resp)
    BY <2>1 DEF ExchangeInv, ReaderInv, Reads, Finished
  <2>3. resp.framing = "close"
    BY <2>2 DEF AtClose
  <2> QED BY <1>1, <1>2, <2>1, <2>3, ErrorStep
<1>9. CASE \/ ServerWrites \/ ServerWritten \/ ServerReturns \/ VisitorHangsUp \/ ConnectLocal
           \/ ConnectLocalFails \/ UpPump \/ DownPump \/ BridgeAborted \/ BridgeEnds
  BY <1>3, <1>9 DEF ServerWrites, ServerWritten, ServerReturns, VisitorHangsUp, ConnectLocal,
     ConnectLocalFails, UpPump, ForwardUp, ForwardUpFails, UpSwallowed, UpEnds, DownPump,
     ForwardDown, ForwardDownFails, DownEnds, BridgeAborted, BridgeEnds, path
<1>10. CASE \/ \E i \in DOMAIN captures : ReplayStarts(i)
            \/ ReplayAnswered \/ ReplayFails \/ ClearRequests
            \/ Service \/ ServiceCloses \/ ServiceSeesEnd \/ ServiceDies \/ UNCHANGED vars
  BY <1>3, <1>10 DEF ReplayStarts, ReplayAnswered, ReplayFails, ClearRequests, Service,
     ServiceReads, ServiceWrites, ServiceCloses, ServiceSeesEnd, ServiceDies, path, vars
<1> QED BY <1>4, <1>5, <1>6, <1>7, <1>8, <1>9, <1>10 DEF Next, Server

LEMMA ExchangeStarts ==
  ASSUME Init
  PROVE  ExchangeInv
<1>1. /\ resp \in Responses /\ reader = NewReader /\ taken = 0 /\ bytes_out = 0 /\ made = 0
      /\ local = "none" /\ bridge = "opens" /\ downDone = FALSE
  BY DEF Init
<1>2. RespLen \in Nat /\ Wire(resp) \in ByteSeq /\ Rest = After(Wire(resp), 0)
  BY <1>1, RespLenFacts
<1>3. Rest = Wire(resp) /\ Rest \in ByteSeq
  BY <1>2, AfterFacts
<1>4. PathInv
  BY <1>1, <1>2 DEF PathInv
<1>5. reader \in Readers /\ reader.at = "head" /\ reader.buf = <<>> /\ reader.body = <<>>
      /\ reader.infos = 0
  BY <1>1, EmptyBytes DEF NewReader, Readers, Places
<1>6. AtHead(reader, Rest, resp)
  <2>1. Cat(<<>>, Rest) = HeadsToCome(resp.infos, resp)
    BY <1>1, <1>3, CatBytes, WireBytes
  <2>2. resp.infos \in Nat /\ MaxInfos \in Nat /\ resp.infos - 0 = resp.infos
    BY <1>1, ResponseFacts, ReaderBounds
  <2> QED BY <1>5, <2>1, <2>2 DEF AtHead
<1>7. ReaderInv
  BY <1>5, <1>6 DEF ReaderInv, Reads
<1>8. ExchangeFaithful
  BY <1>5 DEF ExchangeFaithful
<1> QED BY <1>4, <1>7, <1>8 DEF ExchangeInv

(* A response that the server accepts is the one the service sent, and one *)
(* within the limits is refused only if it was cut short or came too       *)
(* slowly, for every response, however the stream is cut into reads and    *)
(* whatever fails on the way (proxy.rs read_http_response).                *)
THEOREM ExchangeIsFaithful == Spec => []ExchangeFaithful
<1>1. ExchangeInv => ExchangeFaithful
  BY DEF ExchangeInv
<1>2. Init => ExchangeInv
  BY ExchangeStarts
<1>3. ExchangeInv /\ [Next]_vars => ExchangeInv'
  BY ExchangeStep
<1> QED BY <1>1, <1>2, <1>3, PTL DEF Spec

-----------------------------------------------------------------------------
(***************************************************************************)
(* What the client's UI keeps of the request.                              *)
(***************************************************************************)
Capture == [body : Nat, truncated : BOOLEAN]

Honest(c) == c.body = Least(req.body, MaxCap) /\ c.truncated = (req.body > MaxCap)

(* The captures that there may be, once the client's task is over. *)
Promised == req.head <= Allowance /\ bytes_in = ReqLen
Good == {c \in Capture : Promised => Honest(c)}

(* Nothing is kept before the last byte has been forwarded, and what is    *)
(* being replayed is not cut.                                              *)
CaptureInv ==
  /\ req \in Requests /\ sent \in Nat /\ bytes_in \in Nat
  /\ bridge \in {"opens", "runs"} => captures = <<>> /\ replay = <<>>
  /\ captures \in Seq(Good)
  /\ replay \in Seq({c \in Good : ~c.truncated})

LEMMA RequestFacts ==
  ASSUME req \in Requests
  PROVE  /\ req.head \in Nat /\ req.body \in Nat
         /\ ReqLen \in Nat /\ ReqLen = req.head + req.body
BY PathInputs DEF ReqLen

LEMMA StoreType ==
  ASSUME NEW S, captures \in Seq(S), NEW c \in S, StoreCapture(c)
  PROVE  captures' \in Seq(S)
<1>1. Len(captures) \in Nat /\ MaxCaptures \in Nat \ {0}
  BY PathBounds, LenProperties
<1>2. CASE Len(captures) >= MaxCaptures
  <2>1. captures # <<>>
    BY <1>1, <1>2
  <2>2. Tail(captures) \in Seq(S)
    BY <2>1
  <2>3. captures' = Append(Tail(captures), c)
    BY <1>2 DEF StoreCapture
  <2> QED BY <2>2, <2>3
<1>3. CASE ~(Len(captures) >= MaxCaptures)
  <2>1. captures' = Append(captures, c)
    BY <1>3 DEF StoreCapture
  <2> QED BY <2>1
<1> QED BY <1>2, <1>3

(* bridge_with_capture, parse_request_for_capture: what is kept of a       *)
(* request whose headers are within the allowance is its body, cut at the  *)
(* limit and flagged when it is.                                           *)
LEMMA RequestCaptureGood ==
  ASSUME req \in Requests, bytes_in \in Nat
  PROVE  RequestCapture \in Good
<1> DEFINE n == Captured
           h == req.head
           b == req.body
           found == n >= h
<1>1. h \in Nat /\ b \in Nat /\ MaxCap \in Nat /\ Allowance \in Nat /\ ReqLen = h + b
  BY RequestFacts, PathBounds
<1>2. \A x, y \in Nat : /\ Least(x, y) \in Nat /\ Least(x, y) <= x /\ Least(x, y) <= y
                        /\ (x <= y => Least(x, y) = x) /\ (y <= x => Least(x, y) = y)
  BY DEF Least
<1>3. n = Least(bytes_in, MaxCap + Allowance) /\ n \in Nat /\ n <= bytes_in
  BY <1>1, <1>2 DEF Captured, CaptureLimit
<1> DEFINE size == IF found THEN Least(n - h, MaxCap) ELSE 0
           cut == found /\ bytes_in - h > MaxCap
<1>4. RequestCapture = [body |-> size, truncated |-> cut]
  BY DEF RequestCapture
<1> HIDE DEF n, h, b
<1>5. size \in Nat
  BY <1>1, <1>2, <1>3
<1>6. cut \in BOOLEAN
  OBVIOUS
<1>7. ASSUME Promised PROVE size = Least(b, MaxCap) /\ (cut <=> b > MaxCap)
  <2>1. bytes_in = h + b /\ h <= Allowance
    BY <1>1, <1>7 DEF Promised, h, b
  <2>2. CASE bytes_in <= MaxCap + Allowance
    <3>1. n = h + b
      BY <1>1, <1>2, <1>3, <2>1, <2>2
    <3>2. found /\ n - h = b /\ bytes_in - h = b
      BY <1>1, <2>1, <3>1
    <3> QED BY <3>2
  <2>3. CASE ~(bytes_in <= MaxCap + Allowance)
    <3>1. n = MaxCap + Allowance
      BY <1>1, <1>2, <1>3, <2>3
    <3>2. found /\ n - h \in Nat /\ n - h >= MaxCap /\ bytes_in - h = b /\ b >= MaxCap
      BY <1>1, <2>1, <2>3, <3>1
    <3>3. Least(n - h, MaxCap) = MaxCap /\ Least(b, MaxCap) = MaxCap
      BY <1>1, <1>2, <3>2
    <3> QED BY <3>2, <3>3
  <2> QED BY <2>2, <2>3
<1> HIDE DEF size, cut
<1>8. RequestCapture \in Capture /\ RequestCapture.body = size /\ RequestCapture.truncated = cut
  BY <1>4, <1>5, <1>6 DEF Capture
<1>9. Promised => cut = (b > MaxCap)
  BY <1>6, <1>7
<1> QED BY <1>7, <1>8, <1>9 DEF Good, Honest, b

LEMMA CaptureStep ==
  ASSUME CaptureInv, [Next]_vars
  PROVE  CaptureInv'
<1> DEFINE Whole == {c \in Good : ~c.truncated}
<1>1. /\ req \in Requests /\ sent \in Nat /\ bytes_in \in Nat
      /\ bridge \in {"opens", "runs"} => captures = <<>> /\ replay = <<>>
      /\ captures \in Seq(Good) /\ replay \in Seq(Whole)
  BY DEF CaptureInv
<1>2. req' = req
  BY Zenon DEF Next, Server, UpPump, DownPump, Service, chosen, vars,
     ServerWrites, ServerWriteFails, ServerWritten, ServerParses, ServerReads, ServerReadsEnd,
     ServerReadTimeout, ServerReturns, VisitorHangsUp, ConnectLocal, ConnectLocalFails,
     ForwardUp, ForwardUpFails, UpSwallowed, UpEnds, ForwardDown, ForwardDownFails, DownEnds,
     BridgeAborted, BridgeEnds, ReplayStarts, ReplayAnswered, ReplayFails, ClearRequests,
     ServiceReads, ServiceWrites, ServiceCloses, ServiceSeesEnd, ServiceDies
<1>3. bytes_in' = bytes_in => Good' = Good /\ Whole' = Whole
  BY <1>2 DEF Good, Promised, Honest, ReqLen
<1>4. ASSUME UNCHANGED <<sent, bytes_in>>, captures' \in Seq(Good), replay' \in Seq(Whole),
             bridge' \in {"opens", "runs"} => captures' = <<>> /\ replay' = <<>>
      PROVE  CaptureInv'
  <2> HIDE DEF Whole
  <2>1. captures' \in Seq(Good') /\ replay' \in Seq(Whole')
    BY <1>3, <1>4
  <2> QED BY <1>1, <1>2, <1>4, <2>1 DEF CaptureInv, Whole
<1>5. CASE UNCHANGED <<sent, bytes_in, captures, replay, bridge>>
  BY <1>1, <1>4, <1>5
<1>6. CASE ServerWrites
  <2>1. sent' \in Nat /\ UNCHANGED <<bytes_in, captures, replay, bridge>>
    BY <1>1, <1>6 DEF ServerWrites, ui
  <2>2. captures' \in Seq(Good') /\ replay' \in Seq(Whole')
    BY <1>1, <1>3, <2>1
  <2> QED BY <1>1, <1>2, <2>1, <2>2 DEF CaptureInv
<1>7. CASE ForwardUp \/ UpSwallowed
  <2>1. bytes_in' \in Nat /\ bridge = "runs" /\ UNCHANGED <<sent, captures, replay, bridge>>
    BY <1>1, <1>7 DEF ForwardUp, UpSwallowed, ui
  <2>2. captures' = <<>> /\ replay' = <<>>
    BY <1>1, <2>1
  <2> QED BY <1>1, <1>2, <2>1, <2>2 DEF CaptureInv
<1>8. CASE ConnectLocal
  <2>1. bridge = "opens" /\ UNCHANGED <<sent, bytes_in, captures, replay>>
    BY <1>8 DEF ConnectLocal, path, ui
  <2> QED BY <1>1, <1>4, <2>1
<1>9. CASE ConnectLocalFails \/ ForwardUpFails \/ ForwardDownFails \/ BridgeAborted
  <2>1. bridge' = "failed" /\ UNCHANGED <<sent, bytes_in, captures, replay>>
    BY <1>9 DEF ConnectLocalFails, ForwardUpFails, ForwardDownFails, BridgeAborted, Fail, path, ui
  <2> QED BY <1>1, <1>4, <2>1
<1>10. CASE BridgeEnds
  <2>1. bridge' = "over" /\ UNCHANGED <<sent, bytes_in, replay>>
        /\ (captures' = captures \/ StoreCapture(RequestCapture))
    BY <1>10 DEF BridgeEnds, path
  <2>2. captures' \in Seq(Good)
    <3>1. RequestCapture \in Good
      BY <1>1, RequestCaptureGood
    <3> HIDE DEF Whole
    <3>2. CASE StoreCapture(RequestCapture)
      BY <1>1, <3>1, <3>2, StoreType
    <3> QED BY <1>1, <2>1, <3>2
  <2> QED BY <1>1, <1>4, <2>1, <2>2
<1>11. CASE \E i \in DOMAIN captures : ReplayStarts(i)
  <2>1. PICK i \in DOMAIN captures : ReplayStarts(i)
    BY <1>11
  <2>2. /\ UNCHANGED <<sent, bytes_in, captures, bridge>> /\ replay' = <<captures[i]>>
        /\ ~captures[i].truncated
    BY <2>1 DEF ReplayStarts, path
  <2>3. captures # <<>>
    BY <2>1
  <2>4. captures[i] \in Whole
    BY <1>1, <2>1, <2>2
  <2> HIDE DEF Whole
  <2>5. replay' \in Seq(Whole)
    BY <2>2, <2>4
  <2> QED BY <1>1, <1>4, <2>2, <2>3, <2>5
<1>12. CASE ReplayAnswered
  <2> DEFINE c == replay[1]
             d == [c EXCEPT !.truncated = FALSE]
  <2>1. UNCHANGED <<sent, bytes_in, bridge>> /\ replay # <<>> /\ replay' = <<>> /\ StoreCapture(d)
    BY <1>12 DEF ReplayAnswered, path
  <2>2. c \in Good /\ ~c.truncated
    <3>1. c \in Whole
      <4> HIDE DEF Whole
      <4> QED BY <1>1, <2>1
    <3> QED BY <3>1
  <2>3. d = c
    <3>1. c \in Capture
      BY <2>2 DEF Good
    <3>2. c.truncated = FALSE
      BY <2>2, <3>1, Zenon DEF Capture
    <3> HIDE DEF c
    <3> QED BY <3>1, <3>2 DEF Capture
  <2> HIDE DEF c, d, Whole
  <2>4. captures' \in Seq(Good)
    BY <1>1, <2>1, <2>2, <2>3, StoreType
  <2>5. replay' \in Seq(Whole) /\ bridge' \notin {"opens", "runs"}
    BY <1>1, <2>1
  <2> QED BY <1>4, <2>1, <2>4, <2>5
<1>13. CASE ReplayFails
  <2>1. UNCHANGED <<sent, bytes_in, captures, bridge>> /\ replay' = <<>>
    BY <1>13 DEF ReplayFails, path
  <2> QED BY <1>1, <1>4, <2>1
<1>14. CASE ClearRequests
  <2>1. UNCHANGED <<sent, bytes_in, replay, bridge>> /\ captures' = <<>>
    BY <1>14 DEF ClearRequests, path
  <2> QED BY <1>1, <1>4, <2>1
<1>15. CASE \/ ServerWriteFails \/ ServerWritten \/ ServerParses \/ ServerReads \/ ServerReadsEnd
            \/ ServerReadTimeout \/ ServerReturns \/ VisitorHangsUp \/ UpEnds
            \/ ForwardDown \/ DownEnds
  BY <1>5, <1>15 DEF ServerWriteFails, ServerWritten, ServerParses, ServerReads, ServerReadsEnd,
     ServerReadTimeout, ServerReturns, VisitorHangsUp, UpEnds, ForwardDown, DownEnds, path, ui
<1>16. CASE Service \/ ServiceCloses \/ ServiceSeesEnd \/ ServiceDies \/ UNCHANGED vars
  BY <1>5, <1>16 DEF Service, ServiceReads, ServiceWrites, ServiceCloses, ServiceSeesEnd,
     ServiceDies, path, ui, vars
<1> QED
  BY <1>6, <1>7, <1>8, <1>9, <1>10, <1>11, <1>12, <1>13, <1>14, <1>15, <1>16
  DEF Next, Server, UpPump, DownPump

(* What the UI keeps of a request that was forwarded whole, of the         *)
(* exchange and of every replay, is the body up to the limit, and it is    *)
(* flagged exactly when it is cut, so that a replay repeats the whole body *)
(* (local_proxy.rs bridge_with_capture, inspect.rs replay_request).        *)
THEOREM CapturesStayHonest == Spec => []CapturesAreHonest
<1>1. CaptureInv => CapturesAreHonest
  <2> SUFFICES ASSUME CaptureInv, Promised, NEW i \in DOMAIN captures
               PROVE  Honest(captures[i])
    BY DEF CapturesAreHonest, Promised, Honest
  <2>1. captures[i] \in Good
    BY DEF CaptureInv
  <2> QED BY <2>1 DEF Good
<1>2. Init => CaptureInv
  BY DEF Init, CaptureInv
<1>3. CaptureInv /\ [Next]_vars => CaptureInv'
  BY CaptureStep
<1> QED BY <1>1, <1>2, <1>3, PTL DEF Spec

-----------------------------------------------------------------------------
(***************************************************************************)
(* Nobody waits for somebody who waits for him.                            *)
(***************************************************************************)

(* The request on its way, and who is still there. *)
UpInv ==
  /\ req \in Requests
  /\ sent \in Nat /\ bytes_in \in Nat /\ heard \in Nat
  /\ heard <= bytes_in /\ bytes_in <= sent /\ sent <= ReqLen
  /\ server \in {"writes", "reads", "gone"}
  /\ server = "reads" => sent = ReqLen
  /\ bridge = "runs" => local \in {"open", "closed"}

LEMMA UpStep ==
  ASSUME UpInv, [Next]_vars
  PROVE  UpInv'
<1>1. req' = req
  BY Zenon DEF Next, Server, UpPump, DownPump, Service, chosen, vars,
     ServerWrites, ServerWriteFails, ServerWritten, ServerParses, ServerReads, ServerReadsEnd,
     ServerReadTimeout, ServerReturns, VisitorHangsUp, ConnectLocal, ConnectLocalFails,
     ForwardUp, ForwardUpFails, UpSwallowed, UpEnds, ForwardDown, ForwardDownFails, DownEnds,
     BridgeAborted, BridgeEnds, ReplayStarts, ReplayAnswered, ReplayFails, ClearRequests,
     ServiceReads, ServiceWrites, ServiceCloses, ServiceSeesEnd, ServiceDies
<1>2. ReqLen' = ReqLen /\ ReqLen \in Nat
  BY <1>1, RequestFacts DEF ReqLen, UpInv
<1> USE DEF UpInv
<1>3. CASE UNCHANGED <<sent, bytes_in, heard, server, bridge, local>>
  BY <1>1, <1>2, <1>3
<1>4. CASE ServerWrites
  BY <1>1, <1>2, <1>4 DEF ServerWrites
<1>5. CASE ServerWriteFails \/ ServerWritten \/ ServerReturns \/ VisitorHangsUp
  BY <1>1, <1>2, <1>5 DEF ServerWriteFails, ServerWritten, ServerReturns, VisitorHangsUp, path
<1>6. CASE ForwardUp
  BY <1>1, <1>2, <1>6 DEF ForwardUp
<1>7. CASE UpSwallowed
  BY <1>1, <1>2, <1>7 DEF UpSwallowed
<1>8. CASE ServiceReads
  BY <1>1, <1>2, <1>8 DEF ServiceReads
<1>9. CASE ConnectLocal \/ BridgeEnds
  BY <1>1, <1>2, <1>9 DEF ConnectLocal, BridgeEnds, path
<1>10. CASE ConnectLocalFails \/ ForwardUpFails \/ ForwardDownFails \/ BridgeAborted
  <2>1. bridge' = "failed" /\ UNCHANGED <<sent, bytes_in, heard, server>>
    BY <1>10 DEF ConnectLocalFails, ForwardUpFails, ForwardDownFails, BridgeAborted, Fail, path
  <2> QED BY <1>1, <1>2, <2>1
<1>11. CASE ServiceCloses \/ ServiceSeesEnd \/ ServiceDies
  <2>1. local' = "closed" /\ UNCHANGED <<sent, bytes_in, heard, server, bridge>>
    BY <1>11 DEF ServiceCloses, ServiceSeesEnd, ServiceDies, path
  <2> QED BY <1>1, <1>2, <2>1
<1>12. CASE \/ ServerParses \/ ServerReads \/ ServerReadsEnd \/ ServerReadTimeout
            \/ UpEnds \/ ForwardDown \/ DownEnds \/ ServiceWrites
  BY <1>3, <1>12 DEF ServerParses, ServerReads, ServerReadsEnd, ServerReadTimeout,
     UpEnds, ForwardDown, DownEnds, ServiceWrites, path
<1>13. CASE \/ \E i \in DOMAIN captures : ReplayStarts(i)
            \/ ReplayAnswered \/ ReplayFails \/ ClearRequests \/ UNCHANGED vars
  BY <1>3, <1>13 DEF ReplayStarts, ReplayAnswered, ReplayFails, ClearRequests, path, vars
<1> HIDE DEF UpInv
<1> QED
  BY <1>4, <1>5, <1>6, <1>7, <1>8, <1>9, <1>10, <1>11, <1>12, <1>13
  DEF Next, Server, UpPump, DownPump, Service

(* A server that writes waits for the pump, the pump for the service, and  *)
(* the service reads.  A server that reads waits for the way down; when    *)
(* that is empty, the service has the whole request and either writes or   *)
(* has written everything, and then the reader has it.                     *)
LEMMA NotAllWait ==
  ASSUME ExchangeInv, UpInv
  PROVE  SomebodyGoesOn
<1> SUFFICES ASSUME service # "stubborn", bridge = "runs", server # "gone",
                    ~ServerCanGoOn, ~UpCanGoOn, ~DownCanGoOn, ~ServiceCanGoOn
             PROVE  FALSE
  BY DEF SomebodyGoesOn
<1>1. /\ sent \in Nat /\ bytes_in \in Nat /\ heard \in Nat
      /\ heard <= bytes_in /\ bytes_in <= sent /\ sent <= ReqLen
      /\ local \in {"open", "closed"} /\ server \in {"writes", "reads"}
      /\ server = "reads" => sent = ReqLen
  BY DEF UpInv
<1>2. req.head \in Nat /\ req.body \in Nat /\ ReqLen \in Nat /\ req.head <= ReqLen
      /\ Room \in Nat /\ Room > 0
  BY RequestFacts, PathBounds DEF UpInv
<1>3. /\ taken \in Nat /\ bytes_out \in Nat /\ made \in Nat /\ RespLen \in Nat
      /\ taken <= bytes_out /\ bytes_out <= made /\ made <= RespLen /\ resp \in Responses
  BY RespLenFacts DEF ExchangeInv, PathInv
<1>4. bytes_in < sent => heard < bytes_in /\ local = "open"
  BY <1>1, <1>2 DEF UpCanGoOn
<1>5. bytes_in = sent
  BY <1>1, <1>4 DEF ServiceCanGoOn
<1>6. server = "reads"
  BY <1>1, <1>2, <1>5 DEF ServerCanGoOn
<1>7. NeedsMore(reader, resp) /\ taken = bytes_out /\ ~downDone /\ reader.at # "close"
  BY <1>3, <1>6 DEF ServerCanGoOn
<1>8. local = "open" /\ bytes_out = made
  BY <1>1, <1>2, <1>3, <1>7 DEF DownCanGoOn
<1>9. heard = ReqLen
  BY <1>1, <1>5, <1>6, <1>8 DEF ServiceCanGoOn
<1>10. made = RespLen
  BY <1>2, <1>3, <1>8, <1>9 DEF ServiceCanGoOn
<1>11. Rest = <<>> /\ Rest \in ByteSeq
  BY <1>7, <1>8, <1>10, RestBytes DEF ExchangeInv
<1>12. ~Finished(reader) /\ Advance(reader, resp) = reader
  BY <1>7 DEF NeedsMore
<1>13. reader \in Readers /\ Reads(reader, Rest, resp)
  BY <1>12 DEF ExchangeInv, ReaderInv
<1> QED BY <1>3, <1>7, <1>11, <1>12, <1>13, AdvanceOK

(* An exchange does not come to a halt halfway, for every size of request, *)
(* response and buffers: the server, a pump or the service can go on       *)
(* (local_proxy.rs bridge_with_capture, proxy.rs read_http_response).      *)
THEOREM ExchangeGoesOn == Spec => []SomebodyGoesOn
<1>1. ExchangeInv /\ UpInv => SomebodyGoesOn
  BY NotAllWait
<1>2. Init => ExchangeInv /\ UpInv
  <2> SUFFICES ASSUME Init PROVE ExchangeInv /\ UpInv
    OBVIOUS
  <2>1. req \in Requests
    BY DEF Init
  <2>2. ReqLen \in Nat
    BY <2>1, RequestFacts
  <2>3. UpInv
    BY <2>2 DEF Init, UpInv
  <2> QED BY <2>3, ExchangeStarts
<1>3. ExchangeInv /\ UpInv /\ [Next]_vars => ExchangeInv' /\ UpInv'
  BY ExchangeStep, UpStep
<1> QED BY <1>1, <1>2, <1>3, PTL DEF Spec

=============================================================================
