--------------------------- MODULE TransportProofs ---------------------------
(***************************************************************************)
(* Proofs about Transport for every set of callers, every channel size and *)
(* any number of messages without bytes.                                   *)
(***************************************************************************)
EXTENDS Transport, SequenceFacts

-----------------------------------------------------------------------------
(* The bytes of streams and of messages. *)

LEMMA FrameType ==
  ASSUME NEW c \in Callers
  PROVE  Frame(c) \in Seq(Bytes) /\ Len(Frame(c)) = 2
BY DEF Frame, Bytes

LEMMA FramesType ==
  ASSUME NEW w \in Seq(Callers)
  PROVE  [i \in DOMAIN w |-> Frame(w[i])] \in Seq(Seq(Bytes))
<1> DEFINE F == [i \in 1..Len(w) |-> Frame(w[i])]
           B == Seq(Bytes)
<1>1. DOMAIN w = 1..Len(w) /\ Len(w) \in Nat
  OBVIOUS
<1>2. \A i \in 1..Len(w) : Frame(w[i]) \in B
  BY FrameType
<1> HIDE DEF B
<1>3. F \in [1..Len(w) -> B]
  BY <1>2
<1>4. F \in Seq(B)
  BY <1>1, <1>3, SeqDef
<1> QED BY <1>1, <1>4 DEF B

LEMMA DataType ==
  ASSUME NEW m \in Seq(Messages)
  PROVE  [i \in DOMAIN m |-> m[i].data] \in Seq(Seq(Bytes))
<1> DEFINE F == [i \in 1..Len(m) |-> m[i].data]
           B == Seq(Bytes)
<1>1. DOMAIN m = 1..Len(m) /\ Len(m) \in Nat
  OBVIOUS
<1>2. ASSUME NEW i \in 1..Len(m) PROVE m[i].data \in B
  <2>1. m[i] \in Messages
    BY ElementOfSeq
  <2> QED BY <2>1 DEF Messages
<1> HIDE DEF B
<1>3. F \in [1..Len(m) -> B]
  BY <1>2
<1>4. F \in Seq(B)
  BY <1>1, <1>3, SeqDef
<1> QED BY <1>1, <1>4 DEF B

(* BytesOf(v \o w), BytesOf(<<>>) and BytesOf(<<c>>). *)
LEMMA BytesOfType ==
  ASSUME NEW w \in Seq(Callers)
  PROVE  BytesOf(w) \in Seq(Bytes)
<1> DEFINE F == [i \in DOMAIN w |-> Frame(w[i])]
<1>1. F \in Seq(Seq(Bytes))
  BY FramesType
<1> HIDE DEF F
<1>2. FlattenSeq(F) \in Seq(Bytes)
  BY <1>1, FlattenType
<1> QED BY <1>2 DEF BytesOf, F

LEMMA BytesOfConcat ==
  ASSUME NEW v \in Seq(Callers), NEW w \in Seq(Callers)
  PROVE  BytesOf(v \o w) = BytesOf(v) \o BytesOf(w)
<1> DEFINE F(u) == [i \in DOMAIN u |-> Frame(u[i])]
<1>1. F(v) \in Seq(Seq(Bytes)) /\ F(w) \in Seq(Seq(Bytes))
  BY FramesType
<1>2. F(v \o w) = F(v) \o F(w)
  <2> DEFINE u == v \o w
             k == Len(v)
             l == Len(w)
  <2>1. /\ u \in Seq(Callers) /\ Len(u) = k + l /\ k \in Nat /\ l \in Nat
        /\ DOMAIN u = 1..(k + l) /\ DOMAIN v = 1..k /\ DOMAIN w = 1..l
    BY ConcatProperties, LenProperties
  <2>2. \A i \in 1..(k + l) : u[i] = IF i <= k THEN v[i] ELSE w[i - k]
    BY ConcatProperties
  <2> HIDE DEF u, k, l
  <2>3. F(u) = [i \in 1..(k + l) |-> Frame(u[i])]
    BY <2>1
  <2>4. F(v) = [i \in 1..k |-> Frame(v[i])] /\ F(w) = [i \in 1..l |-> Frame(w[i])]
    BY <2>1
  <2>5. Len(F(v)) = k /\ Len(F(w)) = l
    BY <2>1, <2>4
  <2> DEFINE B == Seq(Bytes)
  <2>6. F(u) \in Seq(B) /\ F(v) \in Seq(B) /\ F(w) \in Seq(B) /\ Len(F(u)) = k + l
    <3>1. F(u) \in Seq(B)
      BY <2>1, FramesType
    <3> QED BY <1>1, <2>1, <2>3, <3>1
  <2>7. ASSUME NEW i \in 1..(k + l)
        PROVE  F(u)[i] = IF i <= k THEN F(v)[i] ELSE F(w)[i - k]
    BY <2>1, <2>2, <2>3, <2>4
  <2> HIDE DEF B, F
  <2>8. /\ F(v) \o F(w) \in Seq(B) /\ Len(F(v) \o F(w)) = k + l
        /\ \A i \in 1..(k + l) : (F(v) \o F(w))[i] = IF i <= k THEN F(v)[i] ELSE F(w)[i - k]
    BY <2>5, <2>6, ConcatProperties
  <2>9. F(u) = F(v) \o F(w)
    BY <2>6, <2>7, <2>8, SeqEqual
  <2> QED BY <2>9 DEF u
<1> HIDE DEF F
<1>3. FlattenSeq(F(v) \o F(w)) = FlattenSeq(F(v)) \o FlattenSeq(F(w))
  BY <1>1, FlattenConcat
<1>4. \A u : BytesOf(u) = FlattenSeq(F(u))
  BY DEF BytesOf, F
<1> QED BY <1>2, <1>3, <1>4

LEMMA BytesOfEmpty == BytesOf(<<>>) = <<>>
<1>1. [i \in DOMAIN <<>> |-> Frame(<<>>[i])] = <<>>
  OBVIOUS
<1> QED BY <1>1, FlattenEmpty DEF BytesOf

LEMMA BytesOfOne ==
  ASSUME NEW c \in Callers
  PROVE  BytesOf(<<c>>) = Frame(c)
<1>1. [i \in DOMAIN <<c>> |-> Frame(<<c>>[i])] = <<Frame(c)>>
  OBVIOUS
<1>2. FlattenSeq(<<Frame(c)>>) = Frame(c)
  BY FrameType, FlattenOne
<1> QED BY <1>1, <1>2 DEF BytesOf

LEMMA PayloadType ==
  ASSUME NEW m \in Seq(Messages)
  PROVE  Payload(m) \in Seq(Bytes)
<1> DEFINE F == [i \in DOMAIN m |-> m[i].data]
<1>1. F \in Seq(Seq(Bytes))
  BY DataType
<1> HIDE DEF F
<1>2. FlattenSeq(F) \in Seq(Bytes)
  BY <1>1, FlattenType
<1> QED BY <1>2 DEF Payload, F

LEMMA PayloadConcat ==
  ASSUME NEW m \in Seq(Messages), NEW n \in Seq(Messages)
  PROVE  Payload(m \o n) = Payload(m) \o Payload(n)
<1> DEFINE F(u) == [i \in DOMAIN u |-> u[i].data]
<1>1. F(m) \in Seq(Seq(Bytes)) /\ F(n) \in Seq(Seq(Bytes))
  BY DataType
<1>2. F(m \o n) = F(m) \o F(n)
  <2> DEFINE u == m \o n
             k == Len(m)
             l == Len(n)
  <2>1. /\ u \in Seq(Messages) /\ Len(u) = k + l /\ k \in Nat /\ l \in Nat
        /\ DOMAIN u = 1..(k + l) /\ DOMAIN m = 1..k /\ DOMAIN n = 1..l
    BY ConcatProperties, LenProperties
  <2>2. \A i \in 1..(k + l) : u[i] = IF i <= k THEN m[i] ELSE n[i - k]
    BY ConcatProperties
  <2> HIDE DEF u, k, l
  <2>3. F(u) = [i \in 1..(k + l) |-> u[i].data]
    BY <2>1
  <2>4. F(m) = [i \in 1..k |-> m[i].data] /\ F(n) = [i \in 1..l |-> n[i].data]
    BY <2>1
  <2>5. Len(F(m)) = k /\ Len(F(n)) = l
    BY <2>1, <2>4
  <2> DEFINE B == Seq(Bytes)
  <2>6. F(u) \in Seq(B) /\ F(m) \in Seq(B) /\ F(n) \in Seq(B) /\ Len(F(u)) = k + l
    <3>1. F(u) \in Seq(B)
      BY <2>1, DataType
    <3> QED BY <1>1, <2>1, <2>3, <3>1
  <2>7. ASSUME NEW i \in 1..(k + l)
        PROVE  F(u)[i] = IF i <= k THEN F(m)[i] ELSE F(n)[i - k]
    BY <2>1, <2>2, <2>3, <2>4
  <2> HIDE DEF B, F
  <2>8. /\ F(m) \o F(n) \in Seq(B) /\ Len(F(m) \o F(n)) = k + l
        /\ \A i \in 1..(k + l) : (F(m) \o F(n))[i] = IF i <= k THEN F(m)[i] ELSE F(n)[i - k]
    BY <2>5, <2>6, ConcatProperties
  <2>9. F(u) = F(m) \o F(n)
    BY <2>6, <2>7, <2>8, SeqEqual
  <2> QED BY <2>9 DEF u
<1> HIDE DEF F
<1>3. FlattenSeq(F(m) \o F(n)) = FlattenSeq(F(m)) \o FlattenSeq(F(n))
  BY <1>1, FlattenConcat
<1>4. \A u : Payload(u) = FlattenSeq(F(u))
  BY DEF Payload, F
<1> QED BY <1>2, <1>3, <1>4

LEMMA PayloadEmpty == Payload(<<>>) = <<>>
<1>1. [i \in DOMAIN <<>> |-> <<>>[i].data] = <<>>
  OBVIOUS
<1> QED BY <1>1, FlattenEmpty DEF Payload

LEMMA PayloadOne ==
  ASSUME NEW m \in Messages
  PROVE  Payload(<<m>>) = m.data
<1>1. [i \in DOMAIN <<m>> |-> <<m>>[i].data] = <<m.data>>
  OBVIOUS
<1>2. m.data \in Seq(Bytes)
  BY DEF Messages
<1>3. FlattenSeq(<<m.data>>) = m.data
  BY <1>2, FlattenOne
<1> QED BY <1>1, <1>3 DEF Payload

-----------------------------------------------------------------------------
(* The algebra of concatenation on bytes and on streams. *)

ByteSeq == Seq(Bytes)
CallerSeq == Seq(Callers)

LEMMA CatBytes ==
  \A x, y, z \in ByteSeq : Cat(x, y) \in ByteSeq /\ Cat(Cat(x, y), z) = Cat(x, Cat(y, z))
<1> SUFFICES ASSUME NEW x \in Seq(Bytes), NEW y \in Seq(Bytes), NEW z \in Seq(Bytes)
             PROVE  Cat(x, y) \in Seq(Bytes) /\ Cat(Cat(x, y), z) = Cat(x, Cat(y, z))
  BY DEF ByteSeq
<1>1. Cat(x, y) \in Seq(Bytes)
  BY ConcatProperties DEF Cat
<1> QED BY <1>1, CatAssociative

LEMMA CatCallers ==
  \A x, y, z \in CallerSeq :
    Cat(x, y) \in CallerSeq /\ Cat(Cat(x, y), z) = Cat(x, Cat(y, z))
<1> SUFFICES ASSUME NEW x \in Seq(Callers), NEW y \in Seq(Callers), NEW z \in Seq(Callers)
             PROVE  Cat(x, y) \in Seq(Callers) /\ Cat(Cat(x, y), z) = Cat(x, Cat(y, z))
  BY DEF CallerSeq
<1>1. Cat(x, y) \in Seq(Callers)
  BY ConcatProperties DEF Cat
<1> QED BY <1>1, CatAssociative

LEMMA CatEmpty ==
  /\ <<>> \in ByteSeq /\ <<>> \in CallerSeq
  /\ \A x \in ByteSeq \cup CallerSeq : Cat(x, <<>>) = x /\ Cat(<<>>, x) = x
BY ConcatEmptySeq, EmptySeq DEF Cat, ByteSeq, CallerSeq

LEMMA CatCancel ==
  \A x, y, z \in ByteSeq : Cat(x, y) = Cat(x, z) => y = z
<1> SUFFICES ASSUME NEW x \in Seq(Bytes), NEW y \in Seq(Bytes), NEW z \in Seq(Bytes),
                    x \o y = x \o z
             PROVE  y = z
  BY DEF Cat, ByteSeq
<1> QED BY ConcatSimplifications

(* Sequences that agree and whose heads have the same length have the same *)
(* head.                                                                   *)
LEMMA SameHead ==
  ASSUME NEW x \in ByteSeq, NEW y \in ByteSeq, NEW u \in ByteSeq, NEW v \in ByteSeq,
         Len(x) = Len(y), Cat(x, u) = Cat(y, v)
  PROVE  x = y
<1>1. /\ x \in Seq(Bytes) /\ y \in Seq(Bytes) /\ u \in Seq(Bytes) /\ v \in Seq(Bytes)
      /\ x \o u = y \o v
  BY DEF ByteSeq, Cat
<1>2. /\ Len(x) \in Nat /\ Len(y) \in Nat /\ Len(u) \in Nat /\ Len(v) \in Nat
  BY <1>1, LenProperties
<1>3. \A i \in 1..Len(x) : (x \o u)[i] = x[i]
  BY <1>1, <1>2, ConcatProperties
<1>4. \A i \in 1..Len(y) : (y \o v)[i] = y[i]
  BY <1>1, <1>2, ConcatProperties
<1> DEFINE p == x \o u
<1>5. \A i \in 1..Len(x) : x[i] = p[i] /\ y[i] = p[i]
  BY <1>1, <1>3, <1>4
<1> HIDE DEF p
<1>6. \A i \in 1..Len(x) : x[i] = y[i]
  BY <1>5
<1> QED BY <1>1, <1>6, SeqEqual

LEMMA CatLen ==
  ASSUME NEW x \in ByteSeq, NEW y \in ByteSeq
  PROVE  Len(Cat(x, y)) = Len(x) + Len(y) /\ Len(x) \in Nat /\ Len(y) \in Nat
BY ConcatProperties, LenProperties DEF ByteSeq, Cat

LEMMA FrameBytes ==
  ASSUME NEW c \in Callers
  PROVE  Frame(c) \in ByteSeq /\ <<c>> \in CallerSeq /\ BytesOf(<<c>>) = Frame(c)
BY FrameType, BytesOfOne DEF ByteSeq, CallerSeq

LEMMA BytesOfCat ==
  \A v, w \in CallerSeq :
    BytesOf(v) \in ByteSeq /\ BytesOf(Cat(v, w)) = Cat(BytesOf(v), BytesOf(w))
BY BytesOfType, BytesOfConcat DEF ByteSeq, CallerSeq, Cat

LEMMA AppendCat ==
  ASSUME NEW w \in CallerSeq, NEW c \in Callers
  PROVE  Append(w, c) = Cat(w, <<c>>) /\ Append(w, c) \in CallerSeq
BY AppendIsConcat, AppendProperties DEF CallerSeq, Cat

LEMMA HeadCat ==
  ASSUME NEW w \in CallerSeq, w # <<>>
  PROVE  Head(w) \in Callers /\ Tail(w) \in CallerSeq /\ w = Cat(<<Head(w)>>, Tail(w))
BY DEF CallerSeq, Cat

-----------------------------------------------------------------------------
(* The order of streams and bytes on one way through the transport, for a  *)
(* receiver that has the streams A, with the bytes T on their way to it    *)
(* and the bytes O waiting to be sent, of a sender that wrote W.           *)

AheadOf(A, W) == \E r \in CallerSeq : Cat(A, r) = W

Arriving(A, T, W) == \E r \in ByteSeq : Cat(BytesOf(A), Cat(T, r)) = BytesOf(W)

Complete(A, T, O, W) == Cat(BytesOf(A), Cat(T, O)) = BytesOf(W)

(* A first write puts a stream and its frame behind all others. *)
LEMMA OrderWrite ==
  ASSUME NEW A \in CallerSeq, NEW T \in ByteSeq, NEW O \in ByteSeq,
         NEW W \in CallerSeq, NEW c \in Callers
  PROVE  /\ AheadOf(A, W) => AheadOf(A, Append(W, c))
         /\ Arriving(A, T, W) => Arriving(A, T, Append(W, c))
         /\ Complete(A, T, O, W) => Complete(A, T, Cat(O, Frame(c)), Append(W, c))
<1>1. Append(W, c) = Cat(W, <<c>>)
  BY AppendCat
<1>2. BytesOf(Append(W, c)) = Cat(BytesOf(W), Frame(c))
  BY <1>1, FrameBytes, BytesOfCat
<1>3. ASSUME NEW r \in ByteSeq, Cat(BytesOf(A), Cat(T, r)) = BytesOf(W)
      PROVE  Cat(BytesOf(A), Cat(T, Cat(r, Frame(c)))) = BytesOf(Append(W, c))
  <2> DEFINE a == BytesOf(A)
             f == Frame(c)
             y == Cat(T, r)
  <2>1. a \in ByteSeq /\ f \in ByteSeq /\ y \in ByteSeq
    BY CatBytes, FrameBytes, BytesOfCat
  <2>2. Cat(Cat(a, y), f) = Cat(a, Cat(y, f))
    <3> HIDE DEF a, f, y
    <3> QED BY <2>1, CatBytes
  <2>3. Cat(y, f) = Cat(T, Cat(r, f))
    <3> HIDE DEF f
    <3> QED BY <2>1, CatBytes
  <2> QED BY <1>2, <1>3, <2>2, <2>3
<1>4. ASSUME AheadOf(A, W) PROVE AheadOf(A, Append(W, c))
  BY <1>1, <1>4, CatCallers, FrameBytes DEF AheadOf
<1>5. ASSUME Arriving(A, T, W) PROVE Arriving(A, T, Append(W, c))
  BY <1>3, <1>5, CatBytes, FrameBytes DEF Arriving
<1>6. ASSUME Complete(A, T, O, W) PROVE Complete(A, T, Cat(O, Frame(c)), Append(W, c))
  BY <1>3, <1>6 DEF Complete
<1> QED BY <1>4, <1>5, <1>6

(* Bytes of the outbox go to the end of what is on its way. *)
LEMMA OrderSend ==
  ASSUME NEW A \in CallerSeq, NEW T \in ByteSeq, NEW f \in ByteSeq,
         NEW O \in ByteSeq, NEW W \in CallerSeq, Complete(A, T, Cat(f, O), W)
  PROVE  Complete(A, Cat(T, f), O, W) /\ Arriving(A, Cat(T, f), W)
<1>1. Cat(Cat(T, f), O) = Cat(T, Cat(f, O))
  BY CatBytes
<1>2. Cat(BytesOf(A), Cat(T, Cat(f, O))) = BytesOf(W)
  BY DEF Complete
<1>3. Cat(BytesOf(A), Cat(Cat(T, f), O)) = BytesOf(W)
  BY <1>1, <1>2
<1> QED BY <1>3 DEF Complete, Arriving

(* What has not been read may be lost: the rest is still in order. *)
LEMMA OrderCut ==
  ASSUME NEW A \in CallerSeq, NEW T \in ByteSeq, NEW t \in ByteSeq,
         NEW W \in CallerSeq, Arriving(A, Cat(T, t), W)
  PROVE  Arriving(A, T, W)
<1>1. PICK r \in ByteSeq : Cat(BytesOf(A), Cat(Cat(T, t), r)) = BytesOf(W)
  BY DEF Arriving
<1>2. Cat(Cat(T, t), r) = Cat(T, Cat(t, r)) /\ Cat(t, r) \in ByteSeq
  BY <1>1, CatBytes
<1> QED BY <1>1, <1>2 DEF Arriving

(* Two bytes in front are the frame of the next stream the sender wrote. *)
LEMMA NextFrame ==
  ASSUME NEW A \in CallerSeq, NEW W \in CallerSeq, NEW d \in ByteSeq,
         NEW R \in ByteSeq, Len(d) = 2, AheadOf(A, W),
         Cat(BytesOf(A), Cat(d, R)) = BytesOf(W)
  PROVE  /\ d[1][1] \in Callers /\ d = Frame(d[1][1])
         /\ AheadOf(Cat(A, <<d[1][1]>>), W)
<1>1. PICK r \in CallerSeq : Cat(A, r) = W
  BY DEF AheadOf
<1>2. Cat(d, R) = BytesOf(r)
  <2>1. BytesOf(A) \in ByteSeq /\ BytesOf(r) \in ByteSeq /\ Cat(d, R) \in ByteSeq
    BY <1>1, CatBytes, BytesOfCat
  <2>2. Cat(BytesOf(A), BytesOf(r)) = BytesOf(W)
    BY <1>1, BytesOfCat
  <2> QED BY <2>1, <2>2, CatCancel
<1>3. r # <<>>
  <2>1. Len(Cat(d, R)) # 0
    BY CatLen
  <2> QED BY <1>2, <2>1, BytesOfEmpty
<1> DEFINE c == Head(r)
           t == Tail(r)
<1>4. c \in Callers /\ t \in CallerSeq /\ r = Cat(<<c>>, t)
  BY <1>1, <1>3, HeadCat
<1> HIDE DEF c, t
<1>5. Cat(d, R) = Cat(Frame(c), BytesOf(t)) /\ BytesOf(t) \in ByteSeq
  BY <1>2, <1>4, FrameBytes, BytesOfCat
<1>6. d = Frame(c)
  <2>1. Frame(c) \in ByteSeq /\ Len(Frame(c)) = 2
    BY <1>4, FrameBytes, FrameType
  <2> QED BY <1>5, <2>1, SameHead
<1>7. d[1][1] = c
  BY <1>6 DEF Frame
<1>8. AheadOf(Cat(A, <<c>>), W)
  BY <1>1, <1>4, CatCallers, FrameBytes DEF AheadOf
<1> QED BY <1>4, <1>6, <1>7, <1>8

(* It is taken off and makes one stream. *)
LEMMA OrderTake ==
  ASSUME NEW A \in CallerSeq, NEW d \in ByteSeq, NEW T \in ByteSeq,
         NEW O \in ByteSeq, NEW W \in CallerSeq, Len(d) = 2,
         AheadOf(A, W), Arriving(A, Cat(d, T), W)
  PROVE  /\ d[1][1] \in Callers
         /\ AheadOf(Cat(A, <<d[1][1]>>), W)
         /\ Arriving(Cat(A, <<d[1][1]>>), T, W)
         /\ Complete(A, Cat(d, T), O, W) => Complete(Cat(A, <<d[1][1]>>), T, O, W)
<1> DEFINE c == d[1][1]
<1>1. PICK r \in ByteSeq : Cat(BytesOf(A), Cat(Cat(d, T), r)) = BytesOf(W)
  BY DEF Arriving
<1>2. Cat(Cat(d, T), r) = Cat(d, Cat(T, r)) /\ Cat(T, r) \in ByteSeq
  BY <1>1, CatBytes
<1>3. c \in Callers /\ d = Frame(c) /\ AheadOf(Cat(A, <<c>>), W)
  BY <1>1, <1>2, NextFrame
<1> HIDE DEF c
<1>4. ASSUME NEW s \in ByteSeq
      PROVE  Cat(BytesOf(A), Cat(Cat(d, T), s)) = Cat(BytesOf(Cat(A, <<c>>)), Cat(T, s))
  <2>1. BytesOf(Cat(A, <<c>>)) = Cat(BytesOf(A), d) /\ BytesOf(A) \in ByteSeq
    BY <1>3, FrameBytes, BytesOfCat
  <2> DEFINE a == BytesOf(A)
             y == Cat(T, s)
  <2>2. Cat(Cat(d, T), s) = Cat(d, y) /\ y \in ByteSeq /\ a \in ByteSeq
    BY <2>1, CatBytes
  <2>3. Cat(a, Cat(d, y)) = Cat(Cat(a, d), y)
    <3> HIDE DEF a, y
    <3> QED BY <2>2, CatBytes
  <2> QED BY <2>1, <2>2, <2>3
<1>5. Arriving(Cat(A, <<c>>), T, W)
  BY <1>1, <1>4 DEF Arriving
<1>6. Complete(A, Cat(d, T), O, W) => Complete(Cat(A, <<c>>), T, O, W)
  BY <1>4 DEF Complete
<1> QED BY <1>3, <1>5, <1>6 DEF c

(* Streams that were not handed on may be lost: the rest is a prefix. *)
LEMMA OrderDrop ==
  ASSUME NEW A \in CallerSeq, NEW h \in CallerSeq, NEW W \in CallerSeq,
         AheadOf(Cat(A, h), W)
  PROVE  AheadOf(A, W)
<1>1. PICK r \in CallerSeq : Cat(Cat(A, h), r) = W
  BY DEF AheadOf
<1>2. Cat(Cat(A, h), r) = Cat(A, Cat(h, r)) /\ Cat(h, r) \in CallerSeq
  BY <1>1, CatCallers
<1> QED BY <1>1, <1>2 DEF AheadOf

-----------------------------------------------------------------------------
(* Types.  That a frame is written whole needs that yamux holds whole      *)
(* frames, so the two are proved together.                                 *)

OutboxWhole == \A s \in Side : \E u \in CallerSeq : outbox[s] = BytesOf(u)

(* The first frame of an outbox and the rest of it. *)
LEMMA FrontFrame ==
  ASSUME NEW u \in CallerSeq, BytesOf(u) # <<>>
  PROVE  LET o == BytesOf(u) IN
         \E c \in Callers, t \in CallerSeq :
           /\ SubSeq(o, 1, 2) = Frame(c) /\ SubSeq(o, 3, Len(o)) = BytesOf(t)
           /\ o = Cat(Frame(c), BytesOf(t))
<1> DEFINE c == Head(u)
           t == Tail(u)
<1>1. u # <<>>
  BY BytesOfEmpty
<1>2. c \in Callers /\ t \in CallerSeq /\ u = Cat(<<c>>, t)
  BY <1>1, HeadCat
<1> HIDE DEF c, t
<1> DEFINE f == Frame(c)
           e == BytesOf(t)
<1>3. f \in Seq(Bytes) /\ Len(f) = 2 /\ e \in Seq(Bytes)
  BY <1>2, FrameType, BytesOfCat DEF ByteSeq
<1>4. BytesOf(u) = Cat(f, e)
  BY <1>2, BytesOfCat, FrameBytes
<1> HIDE DEF f, e
<1>5. SubSeq(f \o e, 1, 2) = f /\ SubSeq(f \o e, 3, Len(f \o e)) = e
  <2>1. SubSeq(f \o e, 1, 2) = f
    <3>1. SubSeq(f \o e, 1, 2) = SubSeq(f, 1, 2)
      <4>1. 1 \in 1..Len(f) /\ 2 \in 1..Len(f)
        BY <1>3
      <4> QED BY <1>3, <4>1, SubSeqOfConcat1
    <3>2. SubSeq(f, 1, 2) = f
      BY <1>3, SubSeqFull
    <3> QED BY <3>1, <3>2
  <2>2. Len(f \o e) = 2 + Len(e) /\ Len(e) \in Nat
    <3>1. Len(f \o e) = Len(f) + Len(e)
      BY <1>3, ConcatProperties
    <3>2. Len(e) \in Nat
      BY <1>3, LenProperties
    <3> QED BY <1>3, <3>1, <3>2
  <2>3. CASE e = <<>>
    <3>1. Len(e) = 0
      BY <2>3
    <3>2. SubSeq(f \o e, 3, 2) = <<>>
      BY SubSeqEmpty
    <3> QED BY <2>1, <2>2, <2>3, <3>1, <3>2
  <2>4. CASE e # <<>>
    <3>1. Len(e) # 0
      BY <1>3, <2>4, EmptySeq
    <3>2. SubSeq(f \o e, 3, 2 + Len(e)) = SubSeq(e, 1, Len(e))
      <4>1. 3 \in (Len(f) + 1)..(Len(f) + Len(e)) /\ 2 + Len(e) \in (Len(f) + 1)..(Len(f) + Len(e))
        BY <1>3, <2>2, <3>1
      <4>2. SubSeq(f \o e, 3, 2 + Len(e)) = SubSeq(e, 3 - Len(f), (2 + Len(e)) - Len(f))
        BY <1>3, <4>1, SubSeqOfConcat2
      <4>3. 3 - Len(f) = 1 /\ (2 + Len(e)) - Len(f) = Len(e)
        BY <1>3, <2>2
      <4> QED BY <4>2, <4>3
    <3>3. SubSeq(e, 1, Len(e)) = e
      BY <1>3, SubSeqFull
    <3> QED BY <2>1, <2>2, <3>2, <3>3
  <2> QED BY <2>3, <2>4
<1>6. SubSeq(Cat(f, e), 1, 2) = f /\ SubSeq(Cat(f, e), 3, Len(Cat(f, e))) = e
  BY <1>5 DEF Cat
<1> QED BY <1>2, <1>4, <1>6 DEF f, e

LEMMA FinishTypes ==
  ASSUME TypeOK, NEW s \in Side, Finish(s), ended' \in BOOLEAN
  PROVE  TypeOK'
<1>1. call' \in [Callers -> {"idle", "sends", "waits", "open", "used", "failed", "dropped"}]
  BY DEF TypeOK, Finish
<1>2. UNCHANGED <<acceptor, inq, got, bytes>> /\ link' = "broken"
  BY DEF Finish
<1>3. /\ driver' \in [Side -> {"top", "poll", "send", "done"}]
      /\ pending' \in [Side -> Callers \cup {None}]
      /\ openq' \in [Side -> Seq(Callers)] /\ held' \in [Side -> Seq(Callers)]
  BY DEF TypeOK, Finish
<1> QED BY <1>1, <1>2, <1>3 DEF TypeOK, bytes

(* What WsCompat reads are bytes. *)
LEMMA TakeTypes ==
  ASSUME TypeOK, NEW s \in Side, NEW d \in Seq(Bytes), NEW n \in Room(s, d), Take(s, d, n)
  PROVE  decoded' \in [Side -> Seq(Bytes)] /\ ws' \in [Side -> Reads]
<1>1. n \in Nat /\ n <= Len(d) /\ Len(d) \in Nat /\ n \in 1..Len(d)
  BY DEF Room, TypeOK
<1>2. SubSeq(d, 1, n) \in Seq(Bytes) /\ SubSeq(d, n + 1, Len(d)) \in Seq(Bytes)
  BY <1>1
<1>3. decoded' \in [Side -> Seq(Bytes)]
  BY <1>2 DEF Take, TypeOK
<1>4. [ws[s] EXCEPT !.buf = SubSeq(d, n + 1, Len(d))] \in Reads
  BY <1>2 DEF TypeOK, Reads
<1>5. ws' = [ws EXCEPT ![s] = [ws[s] EXCEPT !.buf = SubSeq(d, n + 1, Len(d))]]
  BY DEF Take
<1>6. ws' \in [Side -> Reads]
  BY <1>4, <1>5 DEF TypeOK
<1> QED BY <1>3, <1>6

LEMMA MessageTypes ==
  /\ Control \in Messages /\ CloseMsg \in Messages
  /\ \A d \in Seq(Bytes) : Binary(d) \in Messages
BY DEF Control, CloseMsg, Binary, Messages

(* Every step of the transport keeps every variable in its type. *)
LEMMA TypeStep == TypeOK /\ OutboxWhole /\ [Next]_vars => TypeOK' /\ OutboxWhole'
<1> SUFFICES ASSUME TypeOK, OutboxWhole, [Next]_vars PROVE TypeOK' /\ OutboxWhole'
  OBVIOUS
<1>0. \A c \in Callers : SideOf(c) \in Side
  BY DEF SideOf, Side
<1>1. ASSUME NEW c \in Callers,
             open_stream(c) \/ SendRequestFails(c) \/ CallerDropped(c) PROVE TypeOK'
  BY <1>1 DEF TypeOK, open_stream, SendRequestFails, CallerDropped, queues, bytes
<1>2. ASSUME NEW c \in Callers, SendRequest(c) PROVE TypeOK'
  BY <1>0, <1>2 DEF TypeOK, SendRequest, queues, bytes
<1>3. ASSUME NEW c \in Callers, FirstWrite(c) PROVE TypeOK'
  <2> DEFINE s == SideOf(c)
  <2>1. s \in Side /\ Frame(c) \in Seq(Bytes)
    BY <1>0, FrameType
  <2>2. /\ call' \in [Callers -> {"idle", "sends", "waits", "open", "used", "failed", "dropped"}]
        /\ written' \in [Side -> Seq(Callers)]
    BY <1>3, <2>1 DEF TypeOK, FirstWrite
  <2>3. outbox[s] \o Frame(c) \in Seq(Bytes)
    BY <2>1, ConcatProperties DEF TypeOK
  <2>4. outbox' = [outbox EXCEPT ![s] = outbox[s] \o Frame(c)]
    BY <1>3 DEF FirstWrite
  <2>5. outbox' \in [Side -> Seq(Bytes)]
    BY <2>3, <2>4 DEF TypeOK
  <2> QED BY <1>3, <2>2, <2>5 DEF TypeOK, FirstWrite, queues
<1>4. ASSUME NEW s \in Side, ReadBuffered(s) PROVE TypeOK'
  <2>1. ws[s].buf \in Seq(Bytes)
    BY DEF TypeOK, Reads
  <2>2. decoded' \in [Side -> Seq(Bytes)] /\ ws' \in [Side -> Reads]
    BY <1>4, <2>1, TakeTypes DEF ReadBuffered
  <2> QED BY <1>4, <2>2 DEF TypeOK, ReadBuffered, queues
<1>5. ASSUME NEW s \in Side, ReadMessage(s) PROVE TypeOK'
  <2>1. net[s] \in Seq(Messages) /\ net[s] # <<>>
    BY <1>5 DEF TypeOK, ReadMessage
  <2>2. Head(net[s]) \in Messages /\ Tail(net[s]) \in Seq(Messages)
    BY <2>1, HeadTailProperties
  <2>3. Head(net[s]).data \in Seq(Bytes)
    BY <2>2 DEF Messages
  <2>4. decoded' \in [Side -> Seq(Bytes)] /\ ws' \in [Side -> Reads]
    BY <1>5, <2>3, TakeTypes DEF ReadMessage
  <2>5. net' \in [Side -> Seq(Messages)]
    BY <1>5, <2>2 DEF TypeOK, ReadMessage
  <2> QED BY <1>5, <2>4, <2>5 DEF TypeOK, ReadMessage, queues
<1>6. ASSUME NEW s \in Side, SkipMessage(s) PROVE TypeOK'
  <2>1. Tail(net[s]) \in Seq(Messages)
    BY <1>6, HeadTailProperties DEF TypeOK, SkipMessage
  <2>2. net' \in [Side -> Seq(Messages)]
    BY <1>6, <2>1 DEF TypeOK, SkipMessage
  <2> QED BY <1>6, <2>2 DEF TypeOK, SkipMessage, queues
<1>7. ASSUME NEW s \in Side, ReadClose(s) PROVE TypeOK'
  <2>1. [ws[s] EXCEPT !.closed = TRUE] \in Reads
    BY DEF TypeOK, Reads
  <2>2. ws' = [ws EXCEPT ![s] = [ws[s] EXCEPT !.closed = TRUE]]
    BY <1>7 DEF ReadClose
  <2>3. ws' \in [Side -> Reads]
    BY <2>1, <2>2 DEF TypeOK
  <2>4. net' \in [Side -> Seq(Messages)]
    BY <1>7 DEF TypeOK, ReadClose
  <2> QED BY <1>7, <2>3, <2>4 DEF TypeOK, ReadClose, queues
<1>8. ASSUME NEW s \in Side, WriteFrame(s) PROVE TypeOK'
  <2> DEFINE p == Peer(s)
             f == SubSeq(outbox[s], 1, 2)
  <2>1. PICK u \in CallerSeq : outbox[s] = BytesOf(u)
    BY DEF OutboxWhole
  <2>2. PICK c \in Callers, t \in CallerSeq :
          f = Frame(c) /\ SubSeq(outbox[s], 3, Len(outbox[s])) = BytesOf(t)
    BY <1>8, <2>1, FrontFrame DEF WriteFrame
  <2>3. f \in Seq(Bytes) /\ f[1] \in Bytes /\ f[2] \in Bytes /\ BytesOf(t) \in Seq(Bytes)
    <3>1. Frame(c)[1] \in Bytes /\ Frame(c)[2] \in Bytes
      BY <2>2 DEF Frame, Bytes
    <3> QED BY <2>2, <3>1, FrameType, BytesOfType DEF CallerSeq
  <2>4. outbox' \in [Side -> Seq(Bytes)]
    BY <1>8, <2>2, <2>3 DEF TypeOK, WriteFrame
  <2>5. Binary(f) \in Messages /\ Binary(<<f[1]>>) \in Messages /\ Binary(<<f[2]>>) \in Messages
    <3>1. <<f[1]>> \in Seq(Bytes) /\ <<f[2]>> \in Seq(Bytes)
      BY <2>3
    <3> QED BY <2>3, <3>1, MessageTypes
  <2>6. net' \in [Side -> Seq(Messages)]
    <3>1. p \in Side /\ net[p] \in Seq(Messages)
      BY DEF Peer, Side, TypeOK
    <3>2. \/ net' = [net EXCEPT ![p] = Append(net[p], Binary(f))]
          \/ net' = [net EXCEPT ![p] = net[p] \o <<Binary(<<f[1]>>), Binary(<<f[2]>>)>>]
      BY <1>8 DEF WriteFrame
    <3> HIDE DEF p, f
    <3>3. Append(net[p], Binary(f)) \in Seq(Messages)
      BY <2>5, <3>1, AppendProperties
    <3>4. <<Binary(<<f[1]>>), Binary(<<f[2]>>)>> \in Seq(Messages)
      BY <2>5
    <3>5. net[p] \o <<Binary(<<f[1]>>), Binary(<<f[2]>>)>> \in Seq(Messages)
      BY <3>1, <3>4, ConcatProperties
    <3> QED BY <3>1, <3>2, <3>3, <3>5 DEF TypeOK
  <2> QED BY <1>8, <2>4, <2>6 DEF TypeOK, WriteFrame, queues
<1>9. ASSUME NEW s \in Side, TryRecv(s) PROVE TypeOK'
  <2>1. driver' \in [Side -> {"top", "poll", "send", "done"}]
    BY <1>9 DEF TypeOK, TryRecv
  <2>2. pending' \in [Side -> Callers \cup {None}] /\ openq' \in [Side -> Seq(Callers)]
    <3>1. CASE openq[s] # <<>>
      <4>1. Head(openq[s]) \in Callers /\ Tail(openq[s]) \in Seq(Callers)
        BY <3>1, HeadTailProperties DEF TypeOK
      <4> QED BY <1>9, <4>1 DEF TypeOK, TryRecv
    <3>2. CASE openq[s] = <<>>
      BY <1>9, <3>2 DEF TypeOK, TryRecv
    <3> QED BY <3>1, <3>2
  <2> QED BY <1>9, <2>1, <2>2 DEF TypeOK, TryRecv, bytes
<1>10. ASSUME NEW s \in Side, DiscardInbound(s) PROVE decoded' \in [Side -> Seq(Bytes)]
  BY <1>10 DEF DiscardInbound, TypeOK
<1>11. ASSUME NEW s \in Side, PollOutbound(s) PROVE TypeOK'
  <2>1. pending[s] \in Callers
    BY <1>11 DEF TypeOK, PollOutbound
  <2>2. call' \in [Callers -> {"idle", "sends", "waits", "open", "used", "failed", "dropped"}]
    BY <1>11, <2>1 DEF TypeOK, PollOutbound
  <2>3. decoded' \in [Side -> Seq(Bytes)]
    BY <1>10, <1>11 DEF PollOutbound
  <2>4. /\ pending' \in [Side -> Callers \cup {None}]
        /\ driver' \in [Side -> {"top", "poll", "send", "done"}]
    BY <1>11 DEF TypeOK, PollOutbound
  <2> QED BY <1>11, <2>2, <2>3, <2>4 DEF TypeOK, PollOutbound, queues
<1>12. ASSUME NEW s \in Side, PollRequest(s) PROVE TypeOK'
  <2>1. decoded' \in [Side -> Seq(Bytes)]
    BY <1>10, <1>12 DEF PollRequest
  <2>2. /\ pending' \in [Side -> Callers \cup {None}]
        /\ driver' \in [Side -> {"top", "poll", "send", "done"}]
        /\ openq' \in [Side -> Seq(Callers)]
    BY <1>12 DEF TypeOK, PollRequest
  <2> QED BY <1>12, <2>1, <2>2 DEF TypeOK, PollRequest
<1>13. ASSUME NEW s \in Side, PollInbound(s) PROVE TypeOK'
  <2>1. decoded[s][1] \in Bytes
    <3>1. decoded[s] \in Seq(Bytes) /\ 1 \in 1..Len(decoded[s])
      BY <1>13 DEF TypeOK, PollInbound, Inbound
    <3> QED BY <3>1, ElementOfSeq
  <2>2. decoded[s][1][1] \in Callers
    BY <2>1 DEF Bytes
  <2>3. held' \in [Side -> Seq(Callers)]
    BY <1>13, <2>2 DEF TypeOK, PollInbound
  <2>4. /\ decoded' \in [Side -> Seq(Bytes)]
        /\ driver' \in [Side -> {"top", "poll", "send", "done"}]
    BY <1>13 DEF TypeOK, PollInbound
  <2> QED BY <1>13, <2>3, <2>4 DEF TypeOK, PollInbound
<1>14. ASSUME NEW s \in Side, SendInbound(s) PROVE TypeOK'
  BY <1>14 DEF TypeOK, SendInbound, bytes
<1>15. ASSUME NEW s \in Side, PollEnd(s) \/ SendInboundFails(s) \/ Abort(s) PROVE TypeOK'
  <2>1. ended' \in BOOLEAN
    BY <1>15 DEF TypeOK, PollEnd, SendInboundFails, Abort
  <2> QED BY <1>15, <2>1, FinishTypes DEF PollEnd, SendInboundFails, Abort
<1>16. ASSUME NEW s \in Side, Accept(s) PROVE TypeOK'
  BY <1>16 DEF TypeOK, Accept, bytes
<1>17. ASSUME NEW s \in Side, StopAccepting(s) PROVE TypeOK'
  BY <1>17 DEF TypeOK, StopAccepting, queues, bytes
<1>18. ASSUME NEW s \in Side, Noise(s) \/ CloseArrives(s) PROVE TypeOK'
  <2>1. net[s] \in Seq(Messages) /\ <<>> \in Seq(Bytes)
    BY DEF TypeOK
  <2>2. \A m \in Messages : Append(net[s], m) \in Seq(Messages)
    BY <2>1, AppendProperties
  <2>3. \E m \in Messages : net' = [net EXCEPT ![s] = Append(net[s], m)]
    BY <1>18, <2>1, MessageTypes DEF Noise, CloseArrives
  <2>4. net' \in [Side -> Seq(Messages)]
    BY <2>2, <2>3 DEF TypeOK
  <2>5. noise' \in Nat /\ ended' \in BOOLEAN
    <3>1. noise' = noise + 1 /\ noise \in Nat
      BY <1>18 DEF TypeOK, Noise, CloseArrives
    <3>2. ended' = ended \/ ended' = TRUE
      BY <1>18, Zenon DEF Noise, CloseArrives
    <3>3. ended' \in BOOLEAN
      BY <3>2, Zenon DEF TypeOK
    <3> QED BY <3>1, <3>3
  <2> QED BY <1>18, <2>4, <2>5 DEF TypeOK, Noise, CloseArrives, queues
<1>19. ASSUME Break PROVE TypeOK'
  <2>1. link' \in {"up", "broken"} /\ ended' \in BOOLEAN
    BY <1>19, Zenon DEF Break
  <2> QED BY <1>19, <2>1 DEF TypeOK, Break, queues, bytes
<1>20. ASSUME UNCHANGED vars PROVE TypeOK'
  <2>1. ended' \in BOOLEAN
    BY <1>20, Zenon DEF TypeOK, vars
  <2> QED BY <1>20, <2>1 DEF TypeOK, vars, queues, bytes
<1>21. TypeOK'
  BY <1>1, <1>2, <1>3, <1>4, <1>5, <1>6, <1>7, <1>8, <1>9, <1>11, <1>12, <1>13, <1>14,
     <1>15, <1>16, <1>17, <1>18, <1>19, <1>20
  DEF Next, Read, Drive
<1>22. ASSUME UNCHANGED outbox PROVE OutboxWhole'
  BY <1>22 DEF OutboxWhole
<1>23. ASSUME NEW c \in Callers, FirstWrite(c) PROVE OutboxWhole'
  <2> DEFINE s == SideOf(c)
  <2>1. s \in Side /\ outbox' = [outbox EXCEPT ![s] = Cat(outbox[s], Frame(c))]
    BY <1>0, <1>23 DEF FirstWrite, Cat
  <2>2. PICK u \in CallerSeq : outbox[s] = BytesOf(u)
    BY <2>1 DEF OutboxWhole
  <2>3. Cat(u, <<c>>) \in CallerSeq /\ BytesOf(Cat(u, <<c>>)) = Cat(outbox[s], Frame(c))
    BY <2>2, CatCallers, BytesOfCat, FrameBytes
  <2>4. outbox'[s] = BytesOf(Cat(u, <<c>>))
    BY <2>1, <2>3 DEF TypeOK
  <2>5. \A q \in Side \ {s} : outbox'[q] = outbox[q]
    BY <2>1 DEF TypeOK
  <2> QED BY <2>3, <2>4, <2>5 DEF OutboxWhole
<1>24. ASSUME NEW s \in Side, WriteFrame(s) PROVE OutboxWhole'
  <2>1. PICK u \in CallerSeq : outbox[s] = BytesOf(u)
    BY DEF OutboxWhole
  <2>2. PICK c \in Callers, t \in CallerSeq : SubSeq(outbox[s], 3, Len(outbox[s])) = BytesOf(t)
    BY <1>24, <2>1, FrontFrame DEF WriteFrame
  <2>3. outbox' = [outbox EXCEPT ![s] = BytesOf(t)]
    BY <1>24, <2>2 DEF WriteFrame
  <2>4. outbox'[s] = BytesOf(t) /\ \A q \in Side \ {s} : outbox'[q] = outbox[q]
    BY <2>3 DEF TypeOK
  <2> QED BY <2>2, <2>4 DEF OutboxWhole
<1>25. OutboxWhole'
  <2>1. ASSUME NEW c \in Callers,
               \/ open_stream(c) \/ SendRequest(c) \/ SendRequestFails(c) \/ CallerDropped(c)
        PROVE  UNCHANGED outbox
    BY <2>1 DEF open_stream, SendRequest, SendRequestFails, CallerDropped, bytes
  <2>2. ASSUME NEW s \in Side, Read(s) \/ Drive(s) \/ Abort(s) PROVE UNCHANGED outbox
    BY <2>2
    DEF Read, Drive, Abort, ReadBuffered, ReadMessage, SkipMessage, ReadClose, TryRecv,
        PollOutbound, PollRequest, PollInbound, SendInbound, PollEnd, SendInboundFails,
        Finish, bytes
  <2>3. ASSUME NEW s \in Side, Accept(s) \/ StopAccepting(s) \/ Noise(s) \/ CloseArrives(s)
        PROVE  UNCHANGED outbox
    BY <2>3 DEF Accept, StopAccepting, Noise, CloseArrives, bytes
  <2>4. Break \/ UNCHANGED vars => UNCHANGED outbox
    BY DEF Break, vars, bytes
  <2> QED BY <1>22, <1>23, <1>24, <2>1, <2>2, <2>3, <2>4 DEF Next
<1> QED BY <1>21, <1>25

-----------------------------------------------------------------------------
(* The invariant: each way through the transport is in order. *)

Accepted(p) == Cat(Cat(got[p], inq[p]), held[p])
Transit(p) == Cat(decoded[p], Cat(ws[p].buf, Payload(net[p])))

(* What the receiver p has is a prefix of what its peer wrote; as long as  *)
(* its driver runs, the bytes on their way follow it; and as long as       *)
(* nothing closes that way, nothing is missing.                            *)
WayOK(p) ==
  /\ AheadOf(Accepted(p), written[Peer(p)])
  /\ driver[p] # "done" => Arriving(Accepted(p), Transit(p), written[Peer(p)])
  /\ link = "up" /\ NotClosing(p) =>
       Complete(Accepted(p), Transit(p), outbox[Peer(p)], written[Peer(p)])

(* Whatever closes a way is recorded as an end. *)
EndIsKnown ==
  ~ended => /\ link = "up"
            /\ \A s \in Side : NotClosing(s) /\ acceptor[s] = "running" /\ driver[s] # "done"

HeldInv == \A s \in Side : driver[s] # "send" => held[s] = <<>>

ServerOpensNothing ==
  pending["server"] = None /\ openq["server"] = <<>> /\ written["server"] = <<>>

OrderInv ==
  /\ \A p \in Side : WayOK(p)
  /\ EndIsKnown /\ HeldInv /\ ServerOpensNothing

LEMMA Sides ==
  /\ \A s \in Side : Peer(s) \in Side /\ Peer(s) # s /\ Peer(Peer(s)) = s
  /\ \A s, p \in Side : p # s => Peer(p) = s
  /\ \A c \in Callers : SideOf(c) = "client"
  /\ "client" \in Side /\ "server" \in Side
BY OnlyClientOpens DEF Side, Peer, SideOf, Callers

(* The types as seen by the algebra of concatenation. *)
LEMMA WayTypes ==
  ASSUME TypeOK, NEW p \in Side
  PROVE  /\ got[p] \in CallerSeq /\ inq[p] \in CallerSeq /\ held[p] \in CallerSeq
         /\ written[p] \in CallerSeq /\ Accepted(p) \in CallerSeq
         /\ outbox[p] \in ByteSeq /\ decoded[p] \in ByteSeq /\ ws[p].buf \in ByteSeq
         /\ net[p] \in Seq(Messages) /\ Payload(net[p]) \in ByteSeq
         /\ Transit(p) \in ByteSeq
<1>1. /\ got[p] \in CallerSeq /\ inq[p] \in CallerSeq /\ held[p] \in CallerSeq
      /\ written[p] \in CallerSeq
      /\ outbox[p] \in ByteSeq /\ decoded[p] \in ByteSeq
      /\ net[p] \in Seq(Messages)
  BY DEF TypeOK, CallerSeq, ByteSeq
<1>2. ws[p].buf \in ByteSeq
  BY DEF TypeOK, Reads, ByteSeq
<1>3. Payload(net[p]) \in ByteSeq
  BY <1>1, PayloadType DEF ByteSeq
<1> QED BY <1>1, <1>2, <1>3, CatBytes, CatCallers DEF Accepted, Transit

(* A way that a step does not touch stays as it is. *)
LEMMA WaySame ==
  ASSUME NEW p \in Side, WayOK(p),
         got'[p] = got[p], inq'[p] = inq[p], held'[p] = held[p],
         decoded'[p] = decoded[p], ws'[p] = ws[p], net'[p] = net[p],
         outbox'[Peer(p)] = outbox[Peer(p)], written'[Peer(p)] = written[Peer(p)],
         driver'[p] # "done" => driver[p] # "done",
         link' = "up" => link = "up"
  PROVE  WayOK(p)'
<1>1. Accepted(p)' = Accepted(p) /\ Transit(p)' = Transit(p)
  BY DEF Accepted, Transit
<1>2. NotClosing(p)' = NotClosing(p)
  BY DEF NotClosing
<1> QED BY <1>1, <1>2 DEF WayOK

(* Bytes that move from one place on the way to the next one. *)
LEMMA WayMoves ==
  ASSUME NEW p \in Side, WayOK(p),
         Accepted(p)' = Accepted(p), Transit(p)' = Transit(p),
         outbox'[Peer(p)] = outbox[Peer(p)], written'[Peer(p)] = written[Peer(p)],
         driver'[p] # "done" => driver[p] # "done",
         link' = "up" => link = "up", NotClosing(p)' => NotClosing(p)
  PROVE  WayOK(p)'
BY DEF WayOK

LEMMA Shift ==
  \A b, x, y, r \in ByteSeq : Cat(Cat(b, x), Cat(y, r)) = Cat(b, Cat(Cat(x, y), r))
<1> SUFFICES ASSUME NEW b \in ByteSeq, NEW x \in ByteSeq, NEW y \in ByteSeq, NEW r \in ByteSeq
             PROVE  Cat(Cat(b, x), Cat(y, r)) = Cat(b, Cat(Cat(x, y), r))
  OBVIOUS
<1>1. Cat(y, r) \in ByteSeq
  BY CatBytes
<1>2. Cat(Cat(b, x), Cat(y, r)) = Cat(b, Cat(x, Cat(y, r)))
  BY <1>1, CatBytes
<1> QED BY <1>2, CatBytes

LEMMA PayloadHead ==
  ASSUME NEW m \in Seq(Messages), m # <<>>
  PROVE  /\ Head(m) \in Messages /\ Head(m).data \in ByteSeq
         /\ Tail(m) \in Seq(Messages) /\ Payload(Tail(m)) \in ByteSeq
         /\ Payload(m) = Cat(Head(m).data, Payload(Tail(m)))
<1> DEFINE h == Head(m)
           t == Tail(m)
<1>1. h \in Messages /\ t \in Seq(Messages)
  BY HeadTailProperties
<1>2. m = <<h>> \o t
  OBVIOUS
<1> HIDE DEF h, t
<1>3. <<h>> \in Seq(Messages)
  BY <1>1
<1>4. Payload(m) = Payload(<<h>>) \o Payload(t)
  BY <1>1, <1>2, <1>3, PayloadConcat
<1>5. Payload(<<h>>) = h.data /\ Payload(t) \in ByteSeq
  BY <1>1, PayloadOne, PayloadType DEF ByteSeq
<1>6. h.data \in ByteSeq
  BY <1>1 DEF Messages, ByteSeq
<1> QED BY <1>1, <1>4, <1>5, <1>6 DEF Cat, h, t

LEMMA PayloadAppend ==
  ASSUME NEW m \in Seq(Messages), NEW x \in Messages
  PROVE  Payload(Append(m, x)) = Cat(Payload(m), x.data)
<1>1. Append(m, x) = m \o <<x>> /\ <<x>> \in Seq(Messages)
  BY AppendIsConcat
<1>2. Payload(m \o <<x>>) = Payload(m) \o Payload(<<x>>)
  BY <1>1, PayloadConcat
<1> QED BY <1>1, <1>2, PayloadOne DEF Cat

(* poll_read moves the first n bytes and keeps the others. *)
LEMMA TakeMoves ==
  ASSUME TypeOK, NEW s \in Side, NEW d \in ByteSeq, NEW n \in Room(s, d), Take(s, d, n)
  PROVE  /\ \A r \in ByteSeq : Cat(decoded'[s], Cat(ws'[s].buf, r)) = Cat(decoded[s], Cat(d, r))
         /\ ws'[s].closed = ws[s].closed
         /\ \A p \in Side \ {s} : decoded'[p] = decoded[p] /\ ws'[p] = ws[p]
<1> DEFINE x == SubSeq(d, 1, n)
           y == SubSeq(d, n + 1, Len(d))
<1>1. d \in Seq(Bytes) /\ Len(d) \in Nat /\ n \in 1..Len(d)
  BY DEF Room, ByteSeq, TypeOK
<1>2. x \in Seq(Bytes) /\ y \in Seq(Bytes)
  BY <1>1
<1>3. x \o y = d
  <2>1. 1 \in 1..(Len(d) + 1) /\ n \in (1 - 1)..Len(d) /\ Len(d) \in n..Len(d)
    BY <1>1
  <2>2. x \o y = SubSeq(d, 1, Len(d))
    BY <1>1, <2>1, ConcatAdjacentSubSeq
  <2> QED BY <1>1, <2>2, SubSeqFull
<1> HIDE DEF x, y
<1>4. Cat(x, y) = d /\ x \in ByteSeq /\ y \in ByteSeq
  BY <1>2, <1>3 DEF Cat, ByteSeq
<1>5. /\ decoded' = [decoded EXCEPT ![s] = decoded[s] \o x]
      /\ ws' = [ws EXCEPT ![s] = [ws[s] EXCEPT !.buf = y]]
  BY DEF Take, x, y
<1>6. decoded'[s] = decoded[s] \o x /\ \A p \in Side \ {s} : decoded'[p] = decoded[p]
  BY <1>5 DEF TypeOK
<1>7. ws'[s] = [ws[s] EXCEPT !.buf = y] /\ \A p \in Side \ {s} : ws'[p] = ws[p]
  BY <1>5 DEF TypeOK
<1>8. ws[s] \in Reads
  BY DEF TypeOK
<1>9. ws'[s].buf = y
  BY <1>7, <1>8 DEF Reads
<1>10. ws'[s].closed = ws[s].closed
  BY <1>7, <1>8 DEF Reads
<1>11. decoded'[s] = Cat(decoded[s], x)
  BY <1>6 DEF Cat
<1>12. \A r \in ByteSeq : Cat(decoded'[s], Cat(ws'[s].buf, r)) = Cat(decoded[s], Cat(d, r))
  <2>1. decoded[s] \in ByteSeq
    BY WayTypes
  <2> SUFFICES ASSUME NEW r \in ByteSeq
               PROVE  Cat(Cat(decoded[s], x), Cat(y, r)) = Cat(decoded[s], Cat(d, r))
    BY <1>9, <1>11
  <2> QED BY <1>4, <2>1, Shift
<1> QED BY <1>6, <1>7, <1>10, <1>12

-----------------------------------------------------------------------------
(* The facts around the order: what the driver holds, what the server      *)
(* leaves alone and what ends the connection.                              *)

LEMMA HeldStep == TypeOK /\ HeldInv /\ [Next]_vars => HeldInv'
<1> SUFFICES ASSUME TypeOK, HeldInv, [Next]_vars PROVE HeldInv'
  OBVIOUS
<1>1. ASSUME UNCHANGED <<held, driver>> PROVE HeldInv'
  BY <1>1 DEF HeldInv
<1>2. ASSUME NEW s \in Side, Drive(s) \/ Abort(s) PROVE HeldInv'
  <2>1. ASSUME TryRecv(s) \/ PollOutbound(s) \/ PollRequest(s)
        PROVE  held' = held /\ driver[s] # "send"
    BY <2>1 DEF TryRecv, PollOutbound, PollRequest, queues
  <2>2. ASSUME PollInbound(s) PROVE driver'[s] = "send"
    BY <2>2 DEF PollInbound, TypeOK
  <2>3. ASSUME Finish(s) \/ SendInbound(s) PROVE held'[s] = <<>>
    BY <2>3 DEF Finish, SendInbound, TypeOK
  <2>4. \A q \in Side \ {s} : held'[q] = held[q] /\ driver'[q] = driver[q]
    <3>1. ASSUME Finish(s) \/ SendInbound(s) \/ PollInbound(s)
          PROVE  \A q \in Side \ {s} : held'[q] = held[q] /\ driver'[q] = driver[q]
      BY <3>1 DEF Finish, SendInbound, PollInbound, TypeOK
    <3>2. ASSUME TryRecv(s) \/ PollOutbound(s) \/ PollRequest(s)
          PROVE  \A q \in Side \ {s} : held'[q] = held[q] /\ driver'[q] = driver[q]
      <4>1. \E x : driver' = [driver EXCEPT ![s] = x]
        BY <3>2 DEF TryRecv, PollOutbound, PollRequest
      <4> QED BY <2>1, <3>2, <4>1 DEF TypeOK
    <3> QED BY <1>2, <3>1, <3>2 DEF Drive, Abort, PollEnd, SendInboundFails
  <2>5. driver'[s] = "send" \/ held'[s] = <<>>
    BY <1>2, <2>1, <2>2, <2>3 DEF HeldInv, Drive, Abort, PollEnd, SendInboundFails
  <2> QED BY <2>4, <2>5 DEF HeldInv
<1>3. ASSUME NEW c \in Callers,
             \/ open_stream(c) \/ SendRequest(c) \/ SendRequestFails(c)
             \/ CallerDropped(c) \/ FirstWrite(c)
      PROVE  UNCHANGED <<held, driver>>
  BY <1>3 DEF open_stream, SendRequest, SendRequestFails, CallerDropped, FirstWrite, queues
<1>4. ASSUME NEW s \in Side,
             \/ Read(s) \/ WriteFrame(s) \/ Accept(s) \/ StopAccepting(s) \/ Noise(s)
             \/ CloseArrives(s)
      PROVE  UNCHANGED <<held, driver>>
  BY <1>4 DEF Read, ReadBuffered, ReadMessage, SkipMessage, ReadClose, WriteFrame, Accept,
       StopAccepting, Noise, CloseArrives, queues
<1>5. Break \/ UNCHANGED vars => UNCHANGED <<held, driver>>
  BY DEF Break, vars, queues
<1> QED BY <1>1, <1>2, <1>3, <1>4, <1>5 DEF Next

LEMMA ServerStep == TypeOK /\ ServerOpensNothing /\ [Next]_vars => ServerOpensNothing'
<1> SUFFICES ASSUME TypeOK, ServerOpensNothing, [Next]_vars PROVE ServerOpensNothing'
  OBVIOUS
<1>1. ASSUME NEW c \in Callers,
             \/ open_stream(c) \/ SendRequest(c) \/ SendRequestFails(c)
             \/ CallerDropped(c) \/ FirstWrite(c)
      PROVE  ServerOpensNothing'
  <2>1. SideOf(c) = "client" /\ "client" # "server" /\ "server" \in Side
    BY Sides
  <2>2. pending' = pending
    BY <1>1 DEF open_stream, SendRequest, SendRequestFails, CallerDropped, FirstWrite
  <2>3. openq'["server"] = openq["server"]
    <3>1. openq' = openq \/ \E q : openq' = [openq EXCEPT !["client"] = q]
      BY <1>1, <2>1 DEF open_stream, SendRequest, SendRequestFails, CallerDropped,
           FirstWrite, queues
    <3> QED BY <2>1, <3>1 DEF TypeOK
  <2>4. written'["server"] = written["server"]
    <3>1. written' = written \/ \E q : written' = [written EXCEPT !["client"] = q]
      BY <1>1, <2>1 DEF open_stream, SendRequest, SendRequestFails, CallerDropped,
           FirstWrite, bytes
    <3> QED BY <2>1, <3>1 DEF TypeOK
  <2> QED BY <2>2, <2>3, <2>4 DEF ServerOpensNothing
<1>2. ASSUME NEW s \in Side, Drive(s) \/ Abort(s) PROVE ServerOpensNothing'
  <2>1. written' = written
    BY <1>2 DEF Drive, Abort, TryRecv, PollOutbound, PollRequest, PollInbound, SendInbound,
         PollEnd, SendInboundFails, Finish, bytes
  <2>0. ASSUME s # "server", written' = written,
               pending' = pending \/ \E x : pending' = [pending EXCEPT ![s] = x],
               openq' = openq \/ \E x : openq' = [openq EXCEPT ![s] = x]
        PROVE  ServerOpensNothing'
    <3>1. "server" \in Side
      BY Sides
    <3>2. pending'["server"] = pending["server"]
      BY <2>0, <3>1 DEF TypeOK
    <3>3. openq'["server"] = openq["server"]
      BY <2>0, <3>1 DEF TypeOK
    <3> QED BY <2>0, <3>2, <3>3 DEF ServerOpensNothing
  <2>2. ASSUME TryRecv(s) PROVE ServerOpensNothing'
    <3>1. CASE s = "server"
      BY <2>1, <2>2, <3>1, Zenon DEF ServerOpensNothing, TryRecv
    <3>2. CASE s # "server"
      <4>1. /\ pending' = pending \/ \E x : pending' = [pending EXCEPT ![s] = x]
            /\ openq' = openq \/ \E x : openq' = [openq EXCEPT ![s] = x]
        BY <2>2 DEF TryRecv
      <4> QED BY <2>0, <2>1, <3>2, <4>1
    <3> QED BY <3>1, <3>2
  <2>3. ASSUME PollOutbound(s) \/ PollRequest(s) PROVE ServerOpensNothing'
    <3>1. s # "server"
      BY <2>3, Zenon DEF ServerOpensNothing, PollOutbound, PollRequest
    <3>2. /\ \E x : pending' = [pending EXCEPT ![s] = x]
          /\ openq' = openq \/ \E x : openq' = [openq EXCEPT ![s] = x]
      BY <2>3 DEF PollOutbound, PollRequest, queues
    <3> QED BY <2>0, <2>1, <3>1, <3>2
  <2>4. ASSUME PollInbound(s) \/ SendInbound(s) PROVE ServerOpensNothing'
    BY <2>1, <2>4 DEF ServerOpensNothing, PollInbound, SendInbound
  <2>5. ASSUME Finish(s) PROVE ServerOpensNothing'
    BY <2>1, <2>5, Sides DEF ServerOpensNothing, TypeOK, Finish
  <2> QED BY <1>2, <2>2, <2>3, <2>4, <2>5 DEF Drive, Abort, PollEnd, SendInboundFails
<1>3. ASSUME NEW s \in Side,
             \/ Read(s) \/ WriteFrame(s) \/ Accept(s) \/ StopAccepting(s) \/ Noise(s)
             \/ CloseArrives(s)
      PROVE  UNCHANGED <<pending, openq, written>>
  BY <1>3 DEF Read, ReadBuffered, ReadMessage, SkipMessage, ReadClose, WriteFrame, Accept,
       StopAccepting, Noise, CloseArrives, queues, bytes
<1>4. Break \/ UNCHANGED vars => UNCHANGED <<pending, openq, written>>
  BY DEF Break, vars, queues, bytes
<1>5. UNCHANGED <<pending, openq, written>> => ServerOpensNothing'
  BY DEF ServerOpensNothing
<1> QED BY <1>1, <1>2, <1>3, <1>4, <1>5 DEF Next

(* As long as nothing is recorded as an end, no step is one that ends. *)
LEMMA StillGoing ==
  ASSUME [Next]_vars, ~ended'
  PROVE  /\ ~ended /\ ~Break
         /\ \A s \in Side : ~Abort(s) /\ ~StopAccepting(s) /\ ~CloseArrives(s)
<1>1. ~Break /\ \A s \in Side : ~Abort(s) /\ ~StopAccepting(s) /\ ~CloseArrives(s)
  BY Zenon DEF Break, Abort, StopAccepting, CloseArrives
<1>2. ASSUME NEW c \in Callers,
             \/ open_stream(c) \/ SendRequest(c) \/ SendRequestFails(c)
             \/ CallerDropped(c) \/ FirstWrite(c)
      PROVE  ended' = ended
  BY <1>2, Zenon DEF open_stream, SendRequest, SendRequestFails, CallerDropped, FirstWrite
<1>3. ASSUME NEW s \in Side, Read(s) \/ WriteFrame(s) \/ Accept(s) \/ Noise(s)
      PROVE  ended' = ended
  BY <1>3, Zenon DEF Read, ReadBuffered, ReadMessage, SkipMessage, ReadClose, WriteFrame,
       Accept, Noise
<1>4. ASSUME NEW s \in Side, Drive(s) PROVE ended' = ended
  BY <1>4, Zenon DEF Drive, TryRecv, PollOutbound, PollRequest, PollInbound, SendInbound,
       PollEnd, SendInboundFails
<1>5. UNCHANGED vars => ended' = ended
  BY Zenon DEF vars
<1>6. ended' = ended
  BY <1>1, <1>2, <1>3, <1>4, <1>5, Zenon DEF Next
<1> QED BY <1>1, <1>6, Zenon

LEMMA EndStep == TypeOK /\ EndIsKnown /\ [Next]_vars => EndIsKnown'
<1> SUFFICES ASSUME TypeOK, EndIsKnown, [Next]_vars, ~ended'
             PROVE  link' = "up" /\ \A s \in Side : /\ NotClosing(s)'
                                                    /\ acceptor'[s] = "running"
                                                    /\ driver'[s] # "done"
  BY Zenon DEF EndIsKnown
<1>1. /\ ~ended /\ ~Break
      /\ \A s \in Side : ~Abort(s) /\ ~StopAccepting(s) /\ ~CloseArrives(s)
  BY StillGoing
<1>2. link = "up" /\ \A s \in Side : NotClosing(s) /\ acceptor[s] = "running" /\ driver[s] # "done"
  BY <1>1, Zenon DEF EndIsKnown
<1>3. \A s \in Side : ~PollEnd(s) /\ ~SendInboundFails(s) /\ ~ReadClose(s)
  <2> SUFFICES ASSUME NEW s \in Side
               PROVE  ~PollEnd(s) /\ ~SendInboundFails(s) /\ ~ReadClose(s)
    OBVIOUS
  <2>1. ~PollEnd(s)
    BY <1>2, Zenon DEF PollEnd, Dead, NotClosing
  <2>2. ~SendInboundFails(s)
    BY <1>2 DEF SendInboundFails
  <2>3. ASSUME ReadClose(s) PROVE FALSE
    <3>1. net[s] \in Seq(Messages) /\ net[s] # <<>> /\ Head(net[s]) = CloseMsg
      BY <2>3 DEF TypeOK, ReadClose
    <3>2. 1 \in DOMAIN net[s] /\ net[s][1] = CloseMsg
      BY <3>1
    <3> QED BY <1>2, <3>2 DEF NotClosing
  <2> QED BY <2>1, <2>2, <2>3
<1>4. ASSUME UNCHANGED <<link, acceptor, ws, net>>,
             \A s \in Side : driver'[s] = "done" => driver[s] = "done"
      PROVE  link' = "up" /\ \A s \in Side : /\ NotClosing(s)'
                                             /\ acceptor'[s] = "running"
                                             /\ driver'[s] # "done"
  BY <1>2, <1>4, Zenon DEF NotClosing
<1>5. ASSUME UNCHANGED <<link, acceptor, driver>>,
             \A s \in Side : ws'[s].closed = ws[s].closed,
             \A s \in Side : \A i \in DOMAIN net'[s] : net'[s][i] # CloseMsg
      PROVE  link' = "up" /\ \A s \in Side : /\ NotClosing(s)'
                                             /\ acceptor'[s] = "running"
                                             /\ driver'[s] # "done"
  BY <1>2, <1>5, Zenon DEF NotClosing
<1>6. \A s \in Side : net[s] \in Seq(Messages) /\ \A i \in DOMAIN net[s] : net[s][i] # CloseMsg
  BY <1>2 DEF TypeOK, NotClosing
<1>7. ASSUME NEW s \in Side, net' = [net EXCEPT ![s] = Tail(@)], net[s] # <<>>
      PROVE  \A q \in Side : \A i \in DOMAIN net'[q] : net'[q][i] # CloseMsg
  <2>1. net'[s] = Tail(net[s]) /\ \A q \in Side \ {s} : net'[q] = net[q]
    BY <1>7 DEF TypeOK
  <2>2. \A i \in DOMAIN Tail(net[s]) : Tail(net[s])[i] # CloseMsg
    BY <1>6, <1>7
  <2> QED BY <1>6, <2>1, <2>2
<1>8. ASSUME NEW s \in Side, NEW m, m # CloseMsg, net' = [net EXCEPT ![s] = Append(@, m)]
      PROVE  \A q \in Side : \A i \in DOMAIN net'[q] : net'[q][i] # CloseMsg
  <2>1. net'[s] = Append(net[s], m) /\ \A q \in Side \ {s} : net'[q] = net[q]
    BY <1>8 DEF TypeOK
  <2>2. \A i \in DOMAIN Append(net[s], m) : Append(net[s], m)[i] # CloseMsg
    BY <1>6, <1>8
  <2> QED BY <1>6, <2>1, <2>2
<1>9. /\ Control # CloseMsg
      /\ \A d : Binary(d) # CloseMsg
  BY DEF Control, CloseMsg, Binary
<1>10. ASSUME NEW s \in Side, ReadBuffered(s) \/ ReadMessage(s)
       PROVE  \A q \in Side : ws'[q].closed = ws[q].closed
  <2>1. \E d \in ByteSeq : \E n \in Room(s, d) : Take(s, d, n)
    <3>1. CASE ReadBuffered(s)
      BY <3>1, WayTypes DEF ReadBuffered
    <3>2. CASE ReadMessage(s)
      BY <3>2, WayTypes, PayloadHead DEF ReadMessage
    <3> QED BY <1>10, <3>1, <3>2
  <2>2. ws'[s].closed = ws[s].closed /\ \A q \in Side \ {s} : ws'[q] = ws[q]
    BY <2>1, TakeMoves
  <2> QED BY <2>2, Zenon
<1>11. ASSUME NEW s \in Side, ReadBuffered(s) \/ ReadMessage(s) \/ SkipMessage(s)
       PROVE  \A q \in Side : \A i \in DOMAIN net'[q] : net'[q][i] # CloseMsg
  <2>1. CASE ReadBuffered(s)
    BY <1>6, <2>1 DEF ReadBuffered
  <2>2. CASE ReadMessage(s) \/ SkipMessage(s)
    BY <1>7, <2>2 DEF ReadMessage, SkipMessage
  <2> QED BY <1>11, <2>1, <2>2
<1>12. ASSUME NEW s \in Side, WriteFrame(s)
       PROVE  \A q \in Side : \A i \in DOMAIN net'[q] : net'[q][i] # CloseMsg
  <2> DEFINE p == Peer(s)
             f == SubSeq(outbox[s], 1, 2)
             x == Binary(f)
             y == Binary(<<f[1]>>)
             z == Binary(<<f[2]>>)
  <2>0. p \in Side /\ net[p] \in Seq(Messages)
    BY Sides DEF TypeOK
  <2>1. x # CloseMsg /\ y # CloseMsg /\ z # CloseMsg
    BY <1>9
  <2>2. \/ net' = [net EXCEPT ![p] = Append(@, x)]
        \/ net' = [net EXCEPT ![p] = @ \o <<y, z>>]
    BY <1>12 DEF WriteFrame
  <2> HIDE DEF p, x, y, z
  <2>3. CASE net' = [net EXCEPT ![p] = Append(@, x)]
    BY <1>8, <2>0, <2>1, <2>3
  <2>4. CASE net' = [net EXCEPT ![p] = @ \o <<y, z>>]
    <3>1. net'[p] = net[p] \o <<y, z>> /\ \A q \in Side \ {p} : net'[q] = net[q]
      BY <2>0, <2>4 DEF TypeOK
    <3>2. \A i \in DOMAIN (net[p] \o <<y, z>>) : (net[p] \o <<y, z>>)[i] # CloseMsg
      BY <1>6, <2>0, <2>1
    <3> QED BY <1>6, <2>0, <3>1, <3>2
  <2> QED BY <2>2, <2>3, <2>4
<1>13. ASSUME NEW s \in Side, Noise(s)
       PROVE  \A q \in Side : \A i \in DOMAIN net'[q] : net'[q][i] # CloseMsg
  BY <1>8, <1>9, <1>13 DEF Noise
<1> DEFINE Kept == link' = "up" /\ \A s \in Side : /\ NotClosing(s)'
                                                  /\ acceptor'[s] = "running"
                                                  /\ driver'[s] # "done"
<1>14. ASSUME NEW s \in Side, ReadBuffered(s) \/ ReadMessage(s) PROVE Kept
  <2>1. UNCHANGED <<link, acceptor, driver>>
    BY <1>14 DEF ReadBuffered, ReadMessage
  <2> QED BY <1>5, <1>10, <1>11, <1>14, <2>1
<1>15. ASSUME NEW s \in Side, SkipMessage(s) \/ WriteFrame(s) \/ Noise(s) PROVE Kept
  <2>1. UNCHANGED <<link, acceptor, driver, ws>>
    BY <1>15 DEF SkipMessage, WriteFrame, Noise
  <2>2. \A q \in Side : ws'[q].closed = ws[q].closed
    BY <2>1, Zenon
  <2> QED BY <1>5, <1>11, <1>12, <1>13, <1>15, <2>1, <2>2
<1>16. ASSUME NEW s \in Side,
              \/ TryRecv(s) \/ PollOutbound(s) \/ PollRequest(s) \/ PollInbound(s)
              \/ SendInbound(s) \/ Accept(s)
       PROVE Kept
  <2>1. UNCHANGED <<link, acceptor, ws, net>>
    BY <1>16 DEF TryRecv, PollOutbound, PollRequest, PollInbound, SendInbound, Accept, bytes
  <2>2. \A q \in Side : driver'[q] = "done" => driver[q] = "done"
    BY <1>16 DEF TypeOK, TryRecv, PollOutbound, PollRequest, PollInbound, SendInbound, Accept
  <2> QED BY <1>4, <2>1, <2>2
<1>17. ASSUME NEW c \in Callers,
              \/ open_stream(c) \/ SendRequest(c) \/ SendRequestFails(c)
              \/ CallerDropped(c) \/ FirstWrite(c)
       PROVE Kept
  <2>1. UNCHANGED <<link, acceptor, ws, net, driver>>
    BY <1>17 DEF open_stream, SendRequest, SendRequestFails, CallerDropped, FirstWrite, bytes
  <2> QED BY <1>4, <2>1
<1>18. ASSUME UNCHANGED vars PROVE Kept
  <2>1. UNCHANGED <<link, acceptor, ws, net, driver>>
    BY <1>18 DEF vars, bytes
  <2> QED BY <1>4, <2>1
<1> HIDE DEF Kept
<1>19. Kept
  BY <1>1, <1>3, <1>14, <1>15, <1>16, <1>17, <1>18 DEF Next, Read, Drive
<1> QED BY <1>19 DEF Kept

-----------------------------------------------------------------------------
(* Each step keeps each way in order. *)

LEMMA WriteKeepsOrder ==
  ASSUME TypeOK, \A p \in Side : WayOK(p), NEW c \in Callers, FirstWrite(c)
  PROVE  \A p \in Side : WayOK(p)'
<1>1. /\ "client" \in Side /\ "server" \in Side /\ Side = {"client", "server"}
      /\ Peer("client") = "server" /\ Peer("server") = "client"
  BY DEF Side, Peer
<1>2. UNCHANGED <<driver, link, got, inq, held, decoded, ws, net>>
  BY DEF FirstWrite, queues
<1>3. /\ outbox' = [outbox EXCEPT !["client"] = Cat(outbox["client"], Frame(c))]
      /\ written' = [written EXCEPT !["client"] = Append(written["client"], c)]
  BY Sides DEF FirstWrite, Cat
<1>4. outbox'["client"] = Cat(outbox["client"], Frame(c)) /\ outbox'["server"] = outbox["server"]
  BY <1>1, <1>3 DEF TypeOK
<1>5. written'["client"] = Append(written["client"], c) /\ written'["server"] = written["server"]
  BY <1>1, <1>3 DEF TypeOK
<1>6. WayOK("client")'
  BY <1>1, <1>2, <1>4, <1>5, WaySame
<1>7. WayOK("server")'
  <2> DEFINE A == Accepted("server")
             T == Transit("server")
             O == outbox["client"]
             W == written["client"]
  <2>1. A \in CallerSeq /\ T \in ByteSeq /\ O \in ByteSeq /\ W \in CallerSeq
    BY <1>1, WayTypes
  <2>2. Accepted("server")' = A /\ Transit("server")' = T
    BY <1>2 DEF Accepted, Transit
  <2>3. NotClosing("server")' = NotClosing("server")
    BY <1>2 DEF NotClosing
  <2>4. /\ AheadOf(A, W)
        /\ driver["server"] # "done" => Arriving(A, T, W)
        /\ link = "up" /\ NotClosing("server") => Complete(A, T, O, W)
    BY <1>1 DEF WayOK
  <2>5. WayOK("server")' <=>
          /\ AheadOf(A, written'["client"])
          /\ driver'["server"] # "done" => Arriving(A, T, written'["client"])
          /\ link' = "up" /\ NotClosing("server")' =>
               Complete(A, T, outbox'["client"], written'["client"])
    BY <1>1, <2>2 DEF WayOK
  <2> HIDE DEF A, T, O, W
  <2>6. /\ AheadOf(A, W) => AheadOf(A, Append(W, c))
        /\ Arriving(A, T, W) => Arriving(A, T, Append(W, c))
        /\ Complete(A, T, O, W) => Complete(A, T, Cat(O, Frame(c)), Append(W, c))
    BY <2>1, OrderWrite
  <2>7. written'["client"] = Append(W, c) /\ outbox'["client"] = Cat(O, Frame(c))
    BY <1>4, <1>5 DEF W, O
  <2> QED BY <1>2, <2>3, <2>4, <2>5, <2>6, <2>7
<1> QED BY <1>1, <1>6, <1>7

LEMMA NoCloseInFront ==
  ASSUME NEW m \in Seq(Messages), m # <<>>, Head(m) # CloseMsg,
         \A i \in DOMAIN Tail(m) : Tail(m)[i] # CloseMsg
  PROVE  \A i \in DOMAIN m : m[i] # CloseMsg
<1> SUFFICES ASSUME NEW i \in 1..Len(m) PROVE m[i] # CloseMsg
  OBVIOUS
<1>1. CASE i = 1
  BY <1>1
<1>2. CASE i # 1
  <2>1. i - 1 \in DOMAIN Tail(m) /\ Tail(m)[i - 1] = m[i]
    BY <1>2
  <2> QED BY <2>1
<1> QED BY <1>1, <1>2

LEMMA ReadKeepsOrder ==
  ASSUME TypeOK, \A p \in Side : WayOK(p), NEW s \in Side,
         ReadBuffered(s) \/ ReadMessage(s) \/ SkipMessage(s)
  PROVE  \A p \in Side : WayOK(p)'
<1>1. UNCHANGED <<driver, link, got, inq, held, outbox, written>>
  BY DEF ReadBuffered, ReadMessage, SkipMessage, queues
<1>2. Accepted(s)' = Accepted(s)
  BY <1>1 DEF Accepted
<1>3. /\ got[s] \in CallerSeq /\ decoded[s] \in ByteSeq /\ ws[s].buf \in ByteSeq
      /\ net[s] \in Seq(Messages) /\ Payload(net[s]) \in ByteSeq
  BY WayTypes
<1>4. /\ Transit(s)' = Cat(decoded'[s], Cat(ws'[s].buf, Payload(net'[s])))
      /\ Transit(s) = Cat(decoded[s], Cat(ws[s].buf, Payload(net[s])))
  BY DEF Transit
<1>5. ASSUME Transit(s)' = Transit(s), NotClosing(s)' => NotClosing(s),
             \A p \in Side \ {s} : decoded'[p] = decoded[p] /\ ws'[p] = ws[p] /\ net'[p] = net[p]
      PROVE  \A p \in Side : WayOK(p)'
  <2>1. WayOK(s)'
    BY <1>1, <1>2, <1>5, WayMoves
  <2>2. \A p \in Side \ {s} : WayOK(p)'
    BY <1>1, <1>5, WaySame
  <2> QED BY <2>1, <2>2
<1>6. ASSUME net[s] # <<>>, net' = [net EXCEPT ![s] = Tail(@)], Head(net[s]) # CloseMsg,
             ws'[s].closed = ws[s].closed
      PROVE  /\ NotClosing(s)' => NotClosing(s)
             /\ net'[s] = Tail(net[s])
             /\ \A p \in Side \ {s} : net'[p] = net[p]
  <2>1. net'[s] = Tail(net[s]) /\ \A p \in Side \ {s} : net'[p] = net[p]
    BY <1>6 DEF TypeOK
  <2>2. ASSUME NotClosing(s)' PROVE \A i \in DOMAIN net[s] : net[s][i] # CloseMsg
    BY <1>3, <1>6, <2>1, <2>2, NoCloseInFront DEF NotClosing
  <2>3. NotClosing(s)' => ~ws[s].closed
    BY <1>6, Zenon DEF NotClosing
  <2> QED BY <2>1, <2>2, <2>3 DEF NotClosing
<1>7. CASE ReadBuffered(s)
  <2> DEFINE d == ws[s].buf
             r == Payload(net[s])
  <2>1. PICK n \in Room(s, d) : Take(s, d, n)
    BY <1>7 DEF ReadBuffered
  <2>2. net' = net
    BY <1>7 DEF ReadBuffered
  <2> HIDE DEF d
  <2>3. d \in ByteSeq
    BY <1>3 DEF d
  <2>4. /\ \A x \in ByteSeq : Cat(decoded'[s], Cat(ws'[s].buf, x)) = Cat(decoded[s], Cat(d, x))
        /\ ws'[s].closed = ws[s].closed
        /\ \A p \in Side \ {s} : decoded'[p] = decoded[p] /\ ws'[p] = ws[p]
    BY <2>1, <2>3, TakeMoves
  <2>5. Transit(s)' = Transit(s)
    BY <1>3, <1>4, <2>2, <2>4 DEF d
  <2>6. NotClosing(s)' => NotClosing(s)
    BY <2>2, <2>4, Zenon DEF NotClosing
  <2> QED BY <1>5, <2>2, <2>4, <2>5, <2>6
<1>8. CASE ReadMessage(s)
  <2> DEFINE d == Head(net[s]).data
             r == Payload(Tail(net[s]))
  <2>1. PICK n \in Room(s, d) : Take(s, d, n)
    BY <1>8 DEF ReadMessage
  <2>2. net[s] # <<>> /\ net' = [net EXCEPT ![s] = Tail(@)] /\ d # <<>> /\ ws[s].buf = <<>>
    BY <1>8 DEF ReadMessage
  <2>3. Head(net[s]) # CloseMsg
    BY <2>2 DEF CloseMsg
  <2>4. d \in ByteSeq /\ r \in ByteSeq /\ Payload(net[s]) = Cat(d, r)
    BY <1>3, <2>2, PayloadHead
  <2> HIDE DEF d
  <2>5. /\ \A x \in ByteSeq : Cat(decoded'[s], Cat(ws'[s].buf, x)) = Cat(decoded[s], Cat(d, x))
        /\ ws'[s].closed = ws[s].closed
        /\ \A p \in Side \ {s} : decoded'[p] = decoded[p] /\ ws'[p] = ws[p]
    BY <2>1, <2>4, TakeMoves
  <2>6. /\ NotClosing(s)' => NotClosing(s)
        /\ net'[s] = Tail(net[s])
        /\ \A p \in Side \ {s} : net'[p] = net[p]
    BY <1>6, <2>2, <2>3, <2>5
  <2> HIDE DEF r
  <2>7. Transit(s)' = Cat(decoded[s], Cat(d, r))
    BY <1>4, <2>4, <2>5, <2>6 DEF r
  <2>8. Transit(s) = Cat(decoded[s], Cat(d, r))
    BY <1>4, <2>2, <2>4, CatBytes, CatEmpty
  <2> QED BY <1>5, <2>5, <2>6, <2>7, <2>8
<1>9. CASE SkipMessage(s)
  <2> DEFINE r == Payload(Tail(net[s]))
  <2>1. /\ net[s] # <<>> /\ net' = [net EXCEPT ![s] = Tail(@)] /\ Head(net[s]).data = <<>>
        /\ Head(net[s]) # CloseMsg /\ ws' = ws /\ decoded' = decoded
    BY <1>9 DEF SkipMessage
  <2>2. r \in ByteSeq /\ Payload(net[s]) = Cat(<<>>, r)
    BY <1>3, <2>1, PayloadHead
  <2>3. ws'[s].closed = ws[s].closed
    BY <2>1, Zenon
  <2>4. /\ NotClosing(s)' => NotClosing(s)
        /\ net'[s] = Tail(net[s])
        /\ \A p \in Side \ {s} : net'[p] = net[p]
    BY <1>6, <2>1, <2>3
  <2>5. Payload(net'[s]) = Payload(net[s])
    <3>1. Payload(net'[s]) = r
      BY <2>4
    <3> HIDE DEF r
    <3> QED BY <2>2, <3>1, CatEmpty
  <2>6. Transit(s)' = Transit(s)
    BY <1>4, <2>1, <2>5
  <2> QED BY <1>5, <2>1, <2>4, <2>6
<1> QED BY <1>7, <1>8, <1>9

(* A Close drops the rest of what was on its way. *)
LEMMA CloseKeepsOrder ==
  ASSUME TypeOK, \A p \in Side : WayOK(p), NEW s \in Side, ReadClose(s)
  PROVE  \A p \in Side : WayOK(p)'
<1>1. UNCHANGED <<driver, link, got, inq, held, outbox, written, decoded>>
  BY DEF ReadClose, queues
<1>2. /\ net' = [net EXCEPT ![s] = <<>>]
      /\ ws' = [ws EXCEPT ![s] = [ws[s] EXCEPT !.closed = TRUE]]
  BY DEF ReadClose
<1>3. net'[s] = <<>> /\ \A p \in Side \ {s} : net'[p] = net[p]
  BY <1>2 DEF TypeOK
<1>4. ws'[s] = [ws[s] EXCEPT !.closed = TRUE] /\ \A p \in Side \ {s} : ws'[p] = ws[p]
  BY <1>2 DEF TypeOK
<1>5. ws[s] \in Reads
  BY DEF TypeOK
<1>6. ws'[s].buf = ws[s].buf
  BY <1>4, <1>5 DEF Reads
<1>7. ws'[s].closed
  BY <1>4, <1>5 DEF Reads
<1>8. ~NotClosing(s)'
  BY <1>7, Zenon DEF NotClosing
<1>9. \A p \in Side \ {s} : WayOK(p)'
  BY <1>1, <1>3, <1>4, WaySame
<1>10. WayOK(s)'
  <2> DEFINE A == Accepted(s)
             W == written[Peer(s)]
             x == decoded[s]
             b == ws[s].buf
             m == Payload(net[s])
  <2>1. A \in CallerSeq /\ x \in ByteSeq /\ b \in ByteSeq /\ m \in ByteSeq
    BY WayTypes
  <2>2. W \in CallerSeq
    BY Sides, WayTypes
  <2>3. Accepted(s)' = A /\ written'[Peer(s)] = W
    BY <1>1 DEF Accepted
  <2>4. Transit(s)' = Cat(x, b)
    <3>1. Transit(s)' = Cat(x, Cat(b, Payload(<<>>)))
      BY <1>1, <1>3, <1>6 DEF Transit
    <3>2. Payload(<<>>) = <<>>
      BY PayloadEmpty
    <3> HIDE DEF x, b
    <3> QED BY <2>1, <3>1, <3>2, CatEmpty
  <2>5. Transit(s) = Cat(x, Cat(b, m))
    BY DEF Transit
  <2>6. /\ AheadOf(A, W)
        /\ driver[s] # "done" => Arriving(A, Transit(s), W)
    BY DEF WayOK
  <2> HIDE DEF A, W, x, b, m
  <2>7. Arriving(A, Transit(s), W) => Arriving(A, Cat(x, b), W)
    <3>1. Transit(s) = Cat(Cat(x, b), m) /\ Cat(x, b) \in ByteSeq
      BY <2>1, <2>5, CatBytes
    <3> QED BY <2>1, <2>2, <3>1, OrderCut
  <2> QED BY <1>1, <1>8, <2>3, <2>4, <2>6, <2>7 DEF WayOK
<1> QED BY <1>9, <1>10

(* A frame goes from the outbox to the network, whole or in two messages. *)
LEMMA FrameKeepsOrder ==
  ASSUME TypeOK, OutboxWhole, \A p \in Side : WayOK(p), NEW s \in Side, WriteFrame(s)
  PROVE  \A p \in Side : WayOK(p)'
<1> DEFINE q == Peer(s)
           f == SubSeq(outbox[s], 1, 2)
           o == SubSeq(outbox[s], 3, Len(outbox[s]))
<1>1. /\ UNCHANGED <<driver, link, got, inq, held, decoded, ws, written>>
      /\ ~Dead(s) /\ NotClosing(q) /\ outbox[s] # <<>>
      /\ outbox' = [outbox EXCEPT ![s] = o]
      /\ \/ net' = [net EXCEPT ![q] = Append(@, Binary(f))]
         \/ net' = [net EXCEPT ![q] = @ \o <<Binary(<<f[1]>>), Binary(<<f[2]>>)>>]
  BY DEF WriteFrame, queues
<1>2. PICK u \in CallerSeq : outbox[s] = BytesOf(u)
  BY DEF OutboxWhole
<1>3. PICK c \in Callers, t \in CallerSeq :
        f = Frame(c) /\ o = BytesOf(t) /\ outbox[s] = Cat(Frame(c), BytesOf(t))
  BY <1>1, <1>2, FrontFrame
<1>4. f \in ByteSeq /\ o \in ByteSeq /\ outbox[s] = Cat(f, o)
  BY <1>3, FrameBytes, BytesOfCat
<1>5. q \in Side /\ q # s /\ Peer(q) = s /\ \A p \in Side : p # q => p = s
  BY DEF Side, Peer
<1>6. Binary(f) \in Messages /\ Binary(f).data = f
  BY <1>4, MessageTypes DEF ByteSeq, Binary
<1>7. LET y == <<f[1]>>
          z == <<f[2]>>
      IN  /\ y \in ByteSeq /\ z \in ByteSeq /\ Cat(y, z) = f
          /\ Binary(y) \in Messages /\ Binary(y).data = y
          /\ Binary(z) \in Messages /\ Binary(z).data = z
  <2>1. f[1] \in Bytes /\ f[2] \in Bytes /\ f = <<f[1], f[2]>>
    <3>1. /\ Frame(c)[1] \in Bytes /\ Frame(c)[2] \in Bytes
          /\ Frame(c) = <<Frame(c)[1], Frame(c)[2]>>
      BY <1>3 DEF Frame, Bytes
    <3> QED BY <1>3, <3>1
  <2> DEFINE y == <<f[1]>>
             z == <<f[2]>>
  <2>2. y \in Seq(Bytes) /\ z \in Seq(Bytes) /\ y \o z = f
    <3> HIDE DEF f
    <3> QED BY <2>1
  <2>3. /\ Binary(y) \in Messages /\ Binary(y).data = y
        /\ Binary(z) \in Messages /\ Binary(z).data = z
    <3> HIDE DEF y, z
    <3> QED BY <2>2, MessageTypes DEF Binary
  <2> QED BY <2>2, <2>3 DEF ByteSeq, Cat
<1>8. link = "up"
  BY <1>1 DEF Dead, TypeOK
<1> HIDE DEF q, f, o
<1>9. net[q] \in Seq(Messages) /\ Payload(net[q]) \in ByteSeq
  BY <1>5, WayTypes
<1>10. Payload(net'[q]) = Cat(Payload(net[q]), f)
  <2>1. CASE net' = [net EXCEPT ![q] = Append(@, Binary(f))]
    <3>1. net'[q] = Append(net[q], Binary(f))
      BY <1>5, <2>1 DEF TypeOK
    <3> QED BY <1>6, <1>9, <3>1, PayloadAppend
  <2>2. CASE net' = [net EXCEPT ![q] = @ \o <<Binary(<<f[1]>>), Binary(<<f[2]>>)>>]
    <3> DEFINE y == <<f[1]>>
               z == <<f[2]>>
               b == Binary(y)
               d == Binary(z)
    <3>1. /\ y \in ByteSeq /\ z \in ByteSeq /\ Cat(y, z) = f
          /\ b \in Messages /\ b.data = y /\ d \in Messages /\ d.data = z
      BY <1>7
    <3>2. net'[q] = net[q] \o <<b, d>>
      BY <1>5, <2>2 DEF TypeOK
    <3> HIDE DEF y, z, b, d
    <3>3. /\ net[q] \o <<b, d>> = Append(Append(net[q], b), d)
          /\ Append(net[q], b) \in Seq(Messages)
      BY <1>9, <3>1
    <3>4. Payload(Append(net[q], b)) = Cat(Payload(net[q]), y)
      BY <1>9, <3>1, PayloadAppend
    <3>5. Payload(net'[q]) = Cat(Cat(Payload(net[q]), y), z)
      BY <3>1, <3>2, <3>3, <3>4, PayloadAppend
    <3> QED BY <1>9, <3>1, <3>5, CatBytes
  <2> QED BY <1>1, <2>1, <2>2
<1>11. net'[s] = net[s]
  BY <1>1, <1>5 DEF TypeOK
<1>12. outbox'[s] = o /\ outbox'[q] = outbox[q]
  BY <1>1, <1>5 DEF TypeOK
<1>13. WayOK(s)'
  BY <1>1, <1>11, <1>12, WaySame DEF q
<1>14. WayOK(q)'
  <2> DEFINE A == Accepted(q)
             T == Transit(q)
             W == written[s]
  <2>1. A \in CallerSeq /\ T \in ByteSeq /\ W \in CallerSeq
    BY <1>5, WayTypes
  <2>2. Accepted(q)' = A /\ written'[s] = W
    BY <1>1 DEF Accepted
  <2>3. Transit(q)' = Cat(T, f)
    <3>1. Transit(q)' = Cat(decoded[q], Cat(ws[q].buf, Cat(Payload(net[q]), f)))
      BY <1>1, <1>10 DEF Transit
    <3> DEFINE x == decoded[q]
               b == ws[q].buf
               m == Payload(net[q])
    <3>2. x \in ByteSeq /\ b \in ByteSeq /\ m \in ByteSeq /\ f \in ByteSeq
      BY <1>4, <1>5, <1>9, WayTypes
    <3>3. T = Cat(x, Cat(b, m)) /\ Transit(q)' = Cat(x, Cat(b, Cat(m, f)))
      BY <3>1 DEF Transit
    <3> HIDE DEF x, b, m, T
    <3>4. Cat(b, Cat(m, f)) = Cat(Cat(b, m), f) /\ Cat(b, m) \in ByteSeq
      BY <3>2, CatBytes
    <3>5. Cat(x, Cat(Cat(b, m), f)) = Cat(Cat(x, Cat(b, m)), f)
      BY <3>2, <3>4, CatBytes
    <3> QED BY <3>3, <3>4, <3>5
  <2>4. AheadOf(A, W) /\ Complete(A, T, outbox[s], W)
    BY <1>1, <1>5, <1>8 DEF WayOK
  <2> HIDE DEF A, T, W
  <2>5. Complete(A, Cat(T, f), o, W) /\ Arriving(A, Cat(T, f), W)
    BY <1>4, <2>1, <2>4, OrderSend
  <2> QED BY <1>5, <1>12, <2>2, <2>3, <2>4, <2>5 DEF WayOK
<1> QED BY <1>5, <1>13, <1>14

(* On the client nothing ever arrives, so asking for an inbound stream     *)
(* before the requests of its callers loses none.                          *)
LEMMA NothingToDiscard ==
  ASSUME TypeOK, WayOK("client"), ServerOpensNothing, driver["client"] # "done"
  PROVE  ~Inbound("client")
<1> DEFINE A == BytesOf(Accepted("client"))
           x == decoded["client"]
           y == Cat(ws["client"].buf, Payload(net["client"]))
<1>0. "client" \in Side /\ Peer("client") = "server"
  BY DEF Side, Peer
<1>1. PICK r \in ByteSeq : Cat(A, Cat(Cat(x, y), r)) = BytesOf(<<>>)
  BY <1>0 DEF WayOK, Arriving, ServerOpensNothing, Transit
<1>2. A \in ByteSeq /\ x \in ByteSeq /\ y \in ByteSeq
  BY <1>0, WayTypes, BytesOfCat, CatBytes
<1> HIDE DEF A, x, y
<1>3. Cat(x, y) \in ByteSeq /\ Cat(Cat(x, y), r) \in ByteSeq
  BY <1>1, <1>2, CatBytes
<1>4. Len(Cat(A, Cat(Cat(x, y), r))) = Len(A) + (Len(x) + Len(y) + Len(r))
  <2>1. Len(Cat(x, y)) = Len(x) + Len(y)
    BY <1>2, CatLen
  <2>2. Len(Cat(Cat(x, y), r)) = Len(Cat(x, y)) + Len(r)
    BY <1>1, <1>3, CatLen
  <2>3. Len(Cat(A, Cat(Cat(x, y), r))) = Len(A) + Len(Cat(Cat(x, y), r))
    BY <1>2, <1>3, CatLen
  <2> QED BY <2>1, <2>2, <2>3
<1>5. Len(A) \in Nat /\ Len(x) \in Nat /\ Len(y) \in Nat /\ Len(r) \in Nat
  BY <1>1, <1>2, CatLen
<1>6. Len(x) = 0
  BY <1>1, <1>4, <1>5, BytesOfEmpty
<1> QED BY <1>6 DEF Inbound, x

LEMMA RequestKeepsOrder ==
  ASSUME TypeOK, \A p \in Side : WayOK(p), ServerOpensNothing, NEW s \in Side,
         PollOutbound(s) \/ PollRequest(s)
  PROVE  \A p \in Side : WayOK(p)'
<1>1. s = "client"
  BY DEF Side, ServerOpensNothing, PollOutbound, PollRequest
<1>2. /\ UNCHANGED <<link, got, inq, held, outbox, ws, net, written>> /\ DiscardInbound(s)
      /\ driver[s] = "poll" /\ driver' = [driver EXCEPT ![s] = "top"]
  BY DEF PollOutbound, PollRequest, queues
<1>3. ~Inbound(s)
  BY <1>1, <1>2, NothingToDiscard
<1>4. decoded' = decoded
  BY <1>2, <1>3 DEF DiscardInbound
<1>5. \A p \in Side : driver'[p] # "done" => driver[p] # "done"
  BY <1>2 DEF TypeOK
<1> QED BY <1>2, <1>4, <1>5, WaySame

(* A whole frame becomes the stream the driver holds. *)
LEMMA InboundKeepsOrder ==
  ASSUME TypeOK, \A p \in Side : WayOK(p), HeldInv, NEW s \in Side, PollInbound(s)
  PROVE  \A p \in Side : WayOK(p)'
<1>1. /\ UNCHANGED <<link, got, inq, outbox, ws, net, written>>
      /\ driver[s] = "poll" /\ Inbound(s)
      /\ held' = [held EXCEPT ![s] = <<decoded[s][1][1]>>]
      /\ decoded' = [decoded EXCEPT ![s] = <<>>]
      /\ driver' = [driver EXCEPT ![s] = "send"]
  BY DEF PollInbound, ReachesInbound
<1>2. /\ held'[s] = <<decoded[s][1][1]>> /\ decoded'[s] = <<>>
      /\ \A p \in Side \ {s} : held'[p] = held[p] /\ decoded'[p] = decoded[p]
  BY <1>1 DEF TypeOK
<1>3. driver'[s] = "send" /\ \A p \in Side \ {s} : driver'[p] = driver[p]
  BY <1>1 DEF TypeOK
<1>4. \A p \in Side \ {s} : WayOK(p)'
  BY <1>1, <1>2, <1>3, WaySame
<1>5. WayOK(s)'
  <2> DEFINE A == Accepted(s)
             g == Cat(got[s], inq[s])
             d == decoded[s]
             T == Cat(ws[s].buf, Payload(net[s]))
             O == outbox[Peer(s)]
             W == written[Peer(s)]
             c == d[1][1]
  <2>1. /\ A \in CallerSeq /\ d \in ByteSeq /\ T \in ByteSeq
        /\ got[s] \in CallerSeq /\ inq[s] \in CallerSeq
    BY WayTypes, CatBytes
  <2>2. O \in ByteSeq /\ W \in CallerSeq
    BY Sides, WayTypes
  <2>3. g \in CallerSeq
    BY <2>1, CatCallers
  <2>4. held[s] = <<>>
    BY <1>1 DEF HeldInv
  <2>5. A = g
    <3>1. A = Cat(g, <<>>)
      BY <2>4 DEF Accepted
    <3> HIDE DEF A, g
    <3> QED BY <2>3, <3>1, CatEmpty
  <2>6. Accepted(s)' = Cat(g, <<c>>)
    BY <1>1, <1>2 DEF Accepted
  <2>7. Transit(s)' = T
    <3>1. Transit(s)' = Cat(<<>>, T)
      BY <1>1, <1>2 DEF Transit
    <3> HIDE DEF T
    <3> QED BY <2>1, <3>1, CatEmpty
  <2>8. Transit(s) = Cat(d, T)
    BY DEF Transit
  <2>9. NotClosing(s)' = NotClosing(s)
    BY <1>1 DEF NotClosing
  <2>10. /\ AheadOf(A, W) /\ Arriving(A, Transit(s), W)
         /\ link = "up" /\ NotClosing(s) => Complete(A, Transit(s), O, W)
    BY <1>1 DEF WayOK
  <2>11. Len(d) = 2
    BY <1>1 DEF Inbound
  <2>12. outbox'[Peer(s)] = O /\ written'[Peer(s)] = W
    BY <1>1
  <2>13. WayOK(s)' <=>
           /\ AheadOf(Cat(g, <<c>>), W)
           /\ driver'[s] # "done" => Arriving(Cat(g, <<c>>), T, W)
           /\ link' = "up" /\ NotClosing(s)' => Complete(Cat(g, <<c>>), T, O, W)
    BY <2>6, <2>7, <2>12 DEF WayOK
  <2> HIDE DEF A, g, d, T, O, W
  <2>14. /\ AheadOf(Cat(A, <<c>>), W)
         /\ Arriving(Cat(A, <<c>>), T, W)
         /\ Complete(A, Cat(d, T), O, W) => Complete(Cat(A, <<c>>), T, O, W)
    BY <2>1, <2>2, <2>8, <2>10, <2>11, OrderTake
  <2> QED BY <1>1, <2>5, <2>8, <2>9, <2>10, <2>13, <2>14
<1> QED BY <1>4, <1>5

(* A stream goes from the driver to the channel, from there to the task    *)
(* that accepts it.                                                        *)
LEMMA HandOnKeepsOrder ==
  ASSUME TypeOK, \A p \in Side : WayOK(p), NEW s \in Side, SendInbound(s) \/ Accept(s)
  PROVE  \A p \in Side : WayOK(p)'
<1>1. UNCHANGED <<link, outbox, decoded, ws, net, written>>
  BY DEF SendInbound, Accept, bytes
<1>2. /\ got[s] \in CallerSeq /\ inq[s] \in CallerSeq /\ held[s] \in CallerSeq
  BY WayTypes
<1>3. /\ \A p \in Side \ {s} : got'[p] = got[p] /\ inq'[p] = inq[p] /\ held'[p] = held[p]
      /\ \A p \in Side : driver'[p] # "done" => driver[p] # "done"
  <2>1. CASE SendInbound(s)
    BY <2>1 DEF SendInbound, TypeOK
  <2>2. CASE Accept(s)
    BY <2>2 DEF Accept, TypeOK
  <2> QED BY <2>1, <2>2
<1>4. Accepted(s)' = Accepted(s)
  <2> DEFINE g == got[s]
             i == inq[s]
             h == held[s]
  <2>1. CASE SendInbound(s)
    <3>1. got'[s] = g /\ inq'[s] = Cat(i, h) /\ held'[s] = <<>>
      BY <2>1 DEF SendInbound, TypeOK, Cat
    <3>2. Accepted(s)' = Cat(Cat(g, Cat(i, h)), <<>>) /\ Accepted(s) = Cat(Cat(g, i), h)
      BY <3>1 DEF Accepted
    <3>3. g \in CallerSeq /\ i \in CallerSeq /\ h \in CallerSeq
      BY <1>2
    <3> HIDE DEF g, i, h
    <3>4. Cat(i, h) \in CallerSeq /\ Cat(g, Cat(i, h)) \in CallerSeq
      BY <3>3, CatCallers
    <3>5. Cat(Cat(g, Cat(i, h)), <<>>) = Cat(g, Cat(i, h))
      BY <3>4, CatEmpty
    <3> QED BY <3>2, <3>3, <3>5, CatCallers
  <2>2. CASE Accept(s)
    <3>0. i # <<>>
      BY <2>2 DEF Accept
    <3>1. got'[s] = Append(g, Head(i)) /\ inq'[s] = Tail(i) /\ held'[s] = h
      BY <2>2 DEF Accept, TypeOK
    <3> DEFINE c == Head(i)
               t == Tail(i)
    <3>2. /\ Accepted(s)' = Cat(Cat(Append(g, c), t), h)
          /\ Accepted(s) = Cat(Cat(g, i), h)
      BY <3>1 DEF Accepted
    <3>3. g \in CallerSeq /\ i \in CallerSeq
      BY <1>2
    <3>4. c \in Callers /\ t \in CallerSeq /\ i = Cat(<<c>>, t)
      BY <3>0, <3>3, HeadCat
    <3> HIDE DEF g, i, h, c, t
    <3>5. Append(g, c) = Cat(g, <<c>>) /\ <<c>> \in CallerSeq
      BY <3>3, <3>4, AppendCat, FrameBytes
    <3>6. Cat(Cat(g, <<c>>), t) = Cat(g, Cat(<<c>>, t))
      BY <3>3, <3>4, <3>5, CatCallers
    <3> QED BY <3>2, <3>4, <3>5, <3>6
  <2> QED BY <2>1, <2>2
<1>5. Transit(s)' = Transit(s) /\ NotClosing(s)' = NotClosing(s)
  BY <1>1 DEF Transit, NotClosing
<1>6. WayOK(s)'
  BY <1>1, <1>3, <1>4, <1>5, WayMoves
<1>7. \A p \in Side \ {s} : WayOK(p)'
  BY <1>1, <1>3, WaySame
<1> QED BY <1>6, <1>7

(* The end of a driver loses the stream it holds and no other. *)
LEMMA FinishKeepsOrder ==
  ASSUME TypeOK, \A p \in Side : WayOK(p), NEW s \in Side, Finish(s)
  PROVE  \A p \in Side : WayOK(p)'
<1>1. /\ UNCHANGED <<got, inq, outbox, decoded, ws, net, written>> /\ link' = "broken"
      /\ driver' = [driver EXCEPT ![s] = "done"] /\ held' = [held EXCEPT ![s] = <<>>]
  BY DEF Finish, bytes
<1>2. /\ driver'[s] = "done" /\ held'[s] = <<>>
      /\ \A p \in Side \ {s} : driver'[p] = driver[p] /\ held'[p] = held[p]
  BY <1>1 DEF TypeOK
<1>3. \A p \in Side \ {s} : WayOK(p)'
  BY <1>1, <1>2, WaySame
<1>4. WayOK(s)'
  <2> DEFINE g == Cat(got[s], inq[s])
             h == held[s]
             W == written[Peer(s)]
  <2>1. got[s] \in CallerSeq /\ inq[s] \in CallerSeq /\ h \in CallerSeq
    BY WayTypes
  <2>2. W \in CallerSeq
    BY Sides, WayTypes
  <2>3. g \in CallerSeq
    BY <2>1, CatCallers
  <2>4. AheadOf(Cat(g, h), W) /\ written'[Peer(s)] = W
    BY <1>1 DEF WayOK, Accepted
  <2>5. Accepted(s)' = Cat(g, <<>>)
    BY <1>1, <1>2 DEF Accepted
  <2> HIDE DEF g, h, W
  <2>6. Accepted(s)' = g
    BY <2>3, <2>5, CatEmpty
  <2>7. AheadOf(g, W)
    BY <2>1, <2>2, <2>3, <2>4, OrderDrop
  <2> QED BY <1>1, <1>2, <2>4, <2>6, <2>7 DEF WayOK
<1> QED BY <1>3, <1>4

(* Messages without bytes change nothing of the order. *)
LEMMA NoiseKeepsOrder ==
  ASSUME TypeOK, \A p \in Side : WayOK(p), NEW s \in Side, Noise(s) \/ CloseArrives(s)
  PROVE  \A p \in Side : WayOK(p)'
<1>1. UNCHANGED <<driver, link, got, inq, held, outbox, decoded, ws, written>>
  BY DEF Noise, CloseArrives, queues
<1>2. NotClosing(s)
  BY DEF Noise, CloseArrives
<1>3. net[s] \in Seq(Messages) /\ Payload(net[s]) \in ByteSeq /\ <<>> \in Seq(Bytes)
  BY WayTypes
<1>4. PICK m \in Messages : m.data = <<>> /\ net' = [net EXCEPT ![s] = Append(@, m)]
  BY <1>3, MessageTypes DEF Noise, CloseArrives, Control, CloseMsg, Binary
<1>5. net'[s] = Append(net[s], m) /\ \A p \in Side \ {s} : net'[p] = net[p]
  BY <1>4 DEF TypeOK
<1>6. Payload(net'[s]) = Payload(net[s])
  BY <1>3, <1>4, <1>5, PayloadAppend, CatEmpty
<1>7. Accepted(s)' = Accepted(s) /\ Transit(s)' = Transit(s)
  BY <1>1, <1>6 DEF Accepted, Transit
<1>8. WayOK(s)'
  BY <1>1, <1>2, <1>7, WayMoves
<1>9. \A p \in Side \ {s} : WayOK(p)'
  BY <1>1, <1>5, WaySame
<1> QED BY <1>8, <1>9

LEMMA OrderStep == TypeOK /\ OutboxWhole /\ OrderInv /\ [Next]_vars => OrderInv'
<1> SUFFICES ASSUME TypeOK, OutboxWhole, OrderInv, [Next]_vars PROVE OrderInv'
  OBVIOUS
<1>0. (\A p \in Side : WayOK(p)) /\ EndIsKnown /\ HeldInv /\ ServerOpensNothing
  BY DEF OrderInv
<1> DEFINE Ordered == \A p \in Side : WayOK(p)'
<1>1. EndIsKnown' /\ HeldInv' /\ ServerOpensNothing'
  BY <1>0, EndStep, HeldStep, ServerStep
<1>2. ASSUME UNCHANGED <<got, inq, held, outbox, decoded, ws, net, written>>,
             \A p \in Side : driver'[p] # "done" => driver[p] # "done",
             link' = "up" => link = "up"
      PROVE  Ordered
  BY <1>0, <1>2, WaySame
<1>3. ASSUME NEW c \in Callers,
             open_stream(c) \/ SendRequest(c) \/ SendRequestFails(c) \/ CallerDropped(c)
      PROVE  Ordered
  <2>1. UNCHANGED <<got, inq, held, outbox, decoded, ws, net, written, driver, link>>
    BY <1>3 DEF open_stream, SendRequest, SendRequestFails, CallerDropped, queues, bytes
  <2> QED BY <1>2, <2>1
<1>4. ASSUME NEW s \in Side, TryRecv(s) PROVE Ordered
  <2>1. UNCHANGED <<got, inq, held, outbox, decoded, ws, net, written, link>>
    BY <1>4 DEF TryRecv, bytes
  <2>2. \A p \in Side : driver'[p] # "done" => driver[p] # "done"
    BY <1>4 DEF TryRecv, TypeOK
  <2> QED BY <1>2, <2>1, <2>2
<1>5. ASSUME NEW s \in Side, StopAccepting(s) PROVE Ordered
  <2>1. UNCHANGED <<got, inq, held, outbox, decoded, ws, net, written, driver, link>>
    BY <1>5 DEF StopAccepting, queues, bytes
  <2> QED BY <1>2, <2>1
<1>6. ASSUME Break \/ UNCHANGED vars PROVE Ordered
  <2>1. UNCHANGED <<got, inq, held, outbox, decoded, ws, net, written, driver>>
    BY <1>6 DEF Break, vars, queues, bytes
  <2>2. link' = "up" => link = "up"
    BY <1>6 DEF Break, vars
  <2> QED BY <1>2, <2>1, <2>2
<1>7. ASSUME NEW c \in Callers, FirstWrite(c) PROVE Ordered
  BY <1>0, <1>7, WriteKeepsOrder
<1>8. ASSUME NEW s \in Side, Read(s) PROVE Ordered
  BY <1>0, <1>8, ReadKeepsOrder, CloseKeepsOrder DEF Read
<1>9. ASSUME NEW s \in Side, WriteFrame(s) PROVE Ordered
  BY <1>0, <1>9, FrameKeepsOrder
<1>10. ASSUME NEW s \in Side, PollOutbound(s) \/ PollRequest(s) PROVE Ordered
  BY <1>0, <1>10, RequestKeepsOrder
<1>11. ASSUME NEW s \in Side, PollInbound(s) PROVE Ordered
  BY <1>0, <1>11, InboundKeepsOrder
<1>12. ASSUME NEW s \in Side, SendInbound(s) \/ Accept(s) PROVE Ordered
  BY <1>0, <1>12, HandOnKeepsOrder
<1>13. ASSUME NEW s \in Side, PollEnd(s) \/ SendInboundFails(s) \/ Abort(s) PROVE Ordered
  BY <1>0, <1>13, FinishKeepsOrder DEF PollEnd, SendInboundFails, Abort
<1>14. ASSUME NEW s \in Side, Noise(s) \/ CloseArrives(s) PROVE Ordered
  BY <1>0, <1>14, NoiseKeepsOrder
<1>15. Ordered
  <2> HIDE DEF Ordered
  <2> QED BY <1>3, <1>4, <1>5, <1>6, <1>7, <1>8, <1>9, <1>10, <1>11, <1>12, <1>13, <1>14
          DEF Next, Drive
<1> QED BY <1>1, <1>15 DEF OrderInv

-----------------------------------------------------------------------------
LEMMA OrderInit == Init => TypeOK /\ OutboxWhole /\ OrderInv
<1> SUFFICES ASSUME Init PROVE TypeOK /\ OutboxWhole /\ OrderInv
  OBVIOUS
<1>1. TypeOK
  <2>1. [buf |-> <<>>, closed |-> FALSE] \in Reads
    BY DEF Reads
  <2>2. ws \in [Side -> Reads] /\ ended \in BOOLEAN
    BY <2>1 DEF Init
  <2> QED BY <2>2 DEF Init, TypeOK
<1>2. OutboxWhole
  BY BytesOfEmpty, CatEmpty DEF Init, OutboxWhole
<1>3. HeldInv /\ ServerOpensNothing
  BY Sides DEF Init, HeldInv, ServerOpensNothing
<1>4. EndIsKnown
  <2>1. link = "up" /\ \A s \in Side : acceptor[s] = "running" /\ driver[s] # "done"
    BY DEF Init
  <2>2. \A s \in Side : NotClosing(s)
    BY DEF Init, NotClosing
  <2> QED BY <2>1, <2>2 DEF EndIsKnown
<1>5. \A p \in Side : WayOK(p)
  <2> SUFFICES ASSUME NEW p \in Side PROVE WayOK(p)
    OBVIOUS
  <2>1. Peer(p) \in Side
    BY Sides
  <2>2. /\ got[p] = <<>> /\ inq[p] = <<>> /\ held[p] = <<>> /\ decoded[p] = <<>>
        /\ net[p] = <<>> /\ outbox[Peer(p)] = <<>> /\ written[Peer(p)] = <<>>
        /\ ws[p].buf = <<>>
    BY <2>1 DEF Init
  <2>3. Cat(<<>>, <<>>) = <<>> /\ <<>> \in ByteSeq /\ <<>> \in CallerSeq
    BY CatEmpty
  <2>4. Accepted(p) = <<>> /\ Transit(p) = <<>>
    BY <2>2, <2>3, PayloadEmpty DEF Accepted, Transit
  <2>5. /\ AheadOf(<<>>, <<>>) /\ Arriving(<<>>, <<>>, <<>>)
        /\ Complete(<<>>, <<>>, <<>>, <<>>)
    BY <2>3, BytesOfEmpty DEF AheadOf, Arriving, Complete
  <2> QED BY <2>2, <2>4, <2>5 DEF WayOK
<1> QED BY <1>1, <1>2, <1>3, <1>4, <1>5 DEF OrderInv

(* The invariant says what the property says, in the algebra's words. *)
LEMMA OrderImplies == TypeOK /\ OrderInv => StreamsInOrder
<1> SUFFICES ASSUME TypeOK, OrderInv, NEW s \in Side
             PROVE  LET p == Peer(s) IN
                    /\ IsPrefix(got[p], written[s])
                    /\ ~ended =>
                         BytesOf(got[p] \o inq[p] \o held[p]) \o decoded[p] \o ws[p].buf
                           \o Payload(net[p]) \o outbox[s] = BytesOf(written[s])
  BY DEF StreamsInOrder
<1> DEFINE p == Peer(s)
<1>1. p \in Side /\ Peer(p) = s
  BY Sides
<1>2. WayOK(p) /\ EndIsKnown
  BY <1>1 DEF OrderInv
<1> HIDE DEF p
<1> DEFINE g == got[p]
           i == inq[p]
           h == held[p]
           W == written[s]
<1>3. g \in CallerSeq /\ i \in CallerSeq /\ h \in CallerSeq /\ W \in CallerSeq
  BY <1>1, WayTypes
<1>4. IsPrefix(g, W)
  <2>1. AheadOf(Cat(Cat(g, i), h), W)
    BY <1>1, <1>2 DEF WayOK, Accepted
  <2> HIDE DEF g, i, h, W
  <2>2. Cat(g, i) \in CallerSeq
    BY <1>3, CatCallers
  <2>3. AheadOf(g, W)
    BY <1>3, <2>1, <2>2, OrderDrop
  <2>4. PICK r \in CallerSeq : Cat(g, r) = W
    BY <2>3 DEF AheadOf
  <2>5. g \in Seq(Callers) /\ r \in Seq(Callers) /\ g \o r = W /\ W \in Seq(Callers)
    BY <1>3, <2>4 DEF CallerSeq, Cat
  <2>6. Len(g) <= Len(W)
    BY <2>5, ConcatProperties, LenProperties
  <2>7. SubSeq(W, 1, Len(g)) = g
    <3>1. SubSeq(g \o r, 1, Len(g)) = SubSeq(g, 1, Len(g))
      BY <2>5, SubSeqOfConcat1
    <3> QED BY <2>5, <3>1, SubSeqFull
  <2> QED BY <2>6, <2>7 DEF IsPrefix
<1>5. ASSUME ~ended
      PROVE  BytesOf(got[p] \o inq[p] \o held[p]) \o decoded[p] \o ws[p].buf
               \o Payload(net[p]) \o outbox[s] = BytesOf(written[s])
  <2>1. link = "up" /\ NotClosing(p)
    BY <1>1, <1>2, <1>5, Zenon DEF EndIsKnown
  <2>2. Complete(Accepted(p), Transit(p), outbox[s], W)
    BY <1>1, <1>2, <2>1 DEF WayOK
  <2> DEFINE a == BytesOf(Accepted(p))
             x == decoded[p]
             b == ws[p].buf
             m == Payload(net[p])
             o == outbox[s]
  <2>3. a \in ByteSeq /\ x \in ByteSeq /\ b \in ByteSeq /\ m \in ByteSeq /\ o \in ByteSeq
    BY <1>1, WayTypes, BytesOfCat
  <2>4. Cat(a, Cat(Cat(x, Cat(b, m)), o)) = BytesOf(W)
    BY <2>2 DEF Complete, Transit
  <2>5. Cat(Cat(Cat(Cat(a, x), b), m), o) = BytesOf(W)
    <3> HIDE DEF a, x, b, m, o, W
    <3>1. Cat(a, x) \in ByteSeq /\ Cat(b, m) \in ByteSeq /\ Cat(x, Cat(b, m)) \in ByteSeq
      BY <2>3, CatBytes
    <3>2. Cat(Cat(Cat(a, x), b), m) = Cat(Cat(a, x), Cat(b, m))
      BY <2>3, <3>1, CatBytes
    <3>3. Cat(Cat(a, x), Cat(b, m)) = Cat(a, Cat(x, Cat(b, m)))
      BY <2>3, <3>1, CatBytes
    <3>4. Cat(Cat(a, Cat(x, Cat(b, m))), o) = Cat(a, Cat(Cat(x, Cat(b, m)), o))
      BY <2>3, <3>1, CatBytes
    <3> QED BY <2>4, <3>2, <3>3, <3>4
  <2> QED BY <2>5, Zenon DEF Cat, Accepted
<1> QED BY <1>4, <1>5 DEF p

(* For every set of callers, every capacity of the channels and every      *)
(* amount of messages without bytes: the streams one side wrote reach the  *)
(* other side's acceptor in that order, and until somebody ends the        *)
(* connection no byte of them is lost, repeated or overtaken               *)
(* (transport.rs poll_read, spawn_yamux_driver).  The argument needs that  *)
(* only one side opens streams: see NothingToDiscard.                      *)
THEOREM StreamsStayInOrder == Spec => []StreamsInOrder
<1>1. Init => TypeOK /\ OutboxWhole /\ OrderInv
  BY OrderInit
<1>2. TypeOK /\ OutboxWhole /\ OrderInv /\ [Next]_vars => (TypeOK /\ OutboxWhole /\ OrderInv)'
  BY TypeStep, OrderStep
<1>3. TypeOK /\ OrderInv => StreamsInOrder
  BY OrderImplies
<1> QED BY <1>1, <1>2, <1>3, PTL DEF Spec

-----------------------------------------------------------------------------
(***************************************************************************)
(* The calls of open_stream.  NoCallForgotten needs only the types and     *)
(* EndIsKnown to be inductive.                                             *)
(***************************************************************************)
LEMMA QueueMoves ==
  /\ \A q \in Seq(Callers), c \in Callers :
       /\ ToSet(q) \subseteq ToSet(Append(q, c)) /\ c \in ToSet(Append(q, c))
  /\ \A q \in Seq(Callers) : q # <<>> =>
       \A c \in ToSet(q) : c = Head(q) \/ c \in ToSet(Tail(q))
<1>1. ASSUME NEW q \in Seq(Callers), NEW c \in Callers
      PROVE  ToSet(q) \subseteq ToSet(Append(q, c)) /\ c \in ToSet(Append(q, c))
  <2>1. /\ Len(Append(q, c)) = Len(q) + 1 /\ Append(q, c)[Len(q) + 1] = c
        /\ \A i \in 1..Len(q) : Append(q, c)[i] = q[i]
    OBVIOUS
  <2>2. /\ DOMAIN Append(q, c) = 1..(Len(q) + 1) /\ DOMAIN q = 1..Len(q) /\ Len(q) \in Nat
    OBVIOUS
  <2>3. ASSUME NEW i \in DOMAIN q PROVE q[i] \in ToSet(Append(q, c))
    BY <2>1, <2>2 DEF ToSet
  <2>4. c \in ToSet(Append(q, c))
    BY <2>1, <2>2 DEF ToSet
  <2> QED BY <2>3, <2>4 DEF ToSet
<1>2. ASSUME NEW q \in Seq(Callers), q # <<>>, NEW c \in ToSet(q)
      PROVE  c = Head(q) \/ c \in ToSet(Tail(q))
  <2>1. PICK i \in 1..Len(q) : c = q[i]
    BY DEF ToSet
  <2>2. CASE i = 1
    BY <1>2, <2>1, <2>2
  <2>3. CASE i # 1
    <3>1. i - 1 \in 1..Len(Tail(q)) /\ Tail(q)[i - 1] = q[i] /\ Tail(q) \in Seq(Callers)
      BY <1>2, <2>1, <2>3
    <3>2. i - 1 \in DOMAIN Tail(q)
      BY <3>1
    <3> QED BY <2>1, <3>1, <3>2 DEF ToSet
  <2> QED BY <2>2, <2>3
<1> QED BY <1>1, <1>2

(* What the driver's end does to the calls. *)
LEMMA FinishTellsCallers ==
  ASSUME TypeOK, NoCallForgotten, NEW s \in Side, Finish(s), ended'
  PROVE  NoCallForgotten'
<1> SUFFICES ASSUME NEW c \in Callers
             PROVE  LET p == SideOf(c) IN
                    call'[c] = "waits" =>
                      driver'[p] # "done" /\ (c = pending'[p] \/ c \in ToSet(openq'[p]))
  BY DEF NoCallForgotten
<1> DEFINE p == SideOf(c)
<1>1. p \in Side
  BY Sides
<1> SUFFICES ASSUME call'[c] = "waits"
             PROVE  driver'[p] # "done" /\ (c = pending'[p] \/ c \in ToSet(openq'[p]))
  OBVIOUS
<1>2. call[c] = "waits" /\ ~(c = pending[s] \/ c \in ToSet(openq[s]))
  BY DEF Finish
<1>3. driver[p] # "done" /\ (c = pending[p] \/ c \in ToSet(openq[p]))
  BY <1>2 DEF NoCallForgotten
<1>4. p # s
  BY <1>2, <1>3
<1> HIDE DEF p
<1>5. driver'[p] = driver[p] /\ pending'[p] = pending[p] /\ openq'[p] = openq[p]
  BY <1>1, <1>4 DEF Finish, TypeOK
<1> QED BY <1>3, <1>5

LEMMA CallsStep ==
  TypeOK /\ EndIsKnown /\ NoCallForgotten /\ [Next]_vars => NoCallForgotten'
<1> SUFFICES ASSUME TypeOK, EndIsKnown, NoCallForgotten, [Next]_vars
             PROVE  NoCallForgotten'
  OBVIOUS
<1>1. ended => ended'
  BY StillGoing, Zenon
<1>2. ASSUME UNCHANGED <<call, pending, driver, openq>> PROVE NoCallForgotten'
  BY <1>1, <1>2 DEF NoCallForgotten
<1>3. ASSUME NEW c \in Callers,
             \/ open_stream(c) \/ SendRequestFails(c) \/ CallerDropped(c) \/ FirstWrite(c)
      PROVE  NoCallForgotten'
  <2>1. /\ UNCHANGED <<pending, driver, openq>>
        /\ \E x \in {"sends", "failed", "dropped", "used"} :
             call' = [call EXCEPT ![c] = x] /\ (x = "failed" => driver[SideOf(c)] = "done")
    BY <1>3 DEF open_stream, SendRequestFails, CallerDropped, FirstWrite, queues
  <2>2. driver[SideOf(c)] = "done" => ended
    BY Sides, Zenon DEF EndIsKnown
  <2> QED BY <1>1, <2>1, <2>2 DEF NoCallForgotten, TypeOK
<1>4. ASSUME NEW c \in Callers, SendRequest(c) PROVE NoCallForgotten'
  <2> DEFINE s == SideOf(c)
  <2>1. s \in Side
    BY Sides
  <2>2. /\ UNCHANGED <<pending, driver>> /\ driver[s] # "done"
        /\ openq' = [openq EXCEPT ![s] = Append(@, c)] /\ call' = [call EXCEPT ![c] = "waits"]
    BY <1>4 DEF SendRequest
  <2>3. ToSet(openq[s]) \subseteq ToSet(openq'[s]) /\ c \in ToSet(openq'[s])
    BY <2>1, <2>2, QueueMoves DEF TypeOK
  <2>4. \A p \in Side : ToSet(openq[p]) \subseteq ToSet(openq'[p])
    BY <2>1, <2>2, <2>3 DEF TypeOK
  <2>5. \A d \in Callers : call'[d] = IF d = c THEN "waits" ELSE call[d]
    BY <2>2 DEF TypeOK
  <2> QED BY <1>1, <2>1, <2>2, <2>3, <2>4, <2>5, Sides DEF NoCallForgotten
<1>5. ASSUME NEW s \in Side, TryRecv(s) \/ PollRequest(s) PROVE NoCallForgotten'
  <2>1. /\ call' = call /\ \E x \in {"top", "poll"} : driver' = [driver EXCEPT ![s] = x]
        /\ \/ UNCHANGED <<pending, openq>>
           \/ /\ pending[s] = None /\ openq[s] # <<>>
              /\ pending' = [pending EXCEPT ![s] = Head(openq[s])]
              /\ openq' = [openq EXCEPT ![s] = Tail(@)]
    BY <1>5 DEF TryRecv, PollRequest
  <2>2. \A p \in Side : driver[p] # "done" => driver'[p] # "done"
    BY <2>1 DEF TypeOK
  <2>3. ASSUME NEW p \in Side, NEW c \in Callers, c = pending[p] \/ c \in ToSet(openq[p])
        PROVE  c = pending'[p] \/ c \in ToSet(openq'[p])
    <3>1. CASE UNCHANGED <<pending, openq>>
      BY <2>3, <3>1
    <3>2. CASE p # s
      <4>1. pending'[p] = pending[p] /\ openq'[p] = openq[p]
        BY <2>1, <3>2 DEF TypeOK
      <4> QED BY <2>3, <4>1
    <3>3. CASE p = s /\ ~UNCHANGED <<pending, openq>>
      <4>1. /\ pending[s] = None /\ openq[s] # <<>>
            /\ pending' = [pending EXCEPT ![s] = Head(openq[s])]
            /\ openq' = [openq EXCEPT ![s] = Tail(@)]
        BY <2>1, <3>3
      <4>2. pending'[s] = Head(openq[s]) /\ openq'[s] = Tail(openq[s]) /\ openq[s] \in Seq(Callers)
        BY <4>1 DEF TypeOK
      <4>3. c \in ToSet(openq[s])
        BY <2>3, <3>3, <4>1, OnlyClientOpens
      <4> QED BY <3>3, <4>1, <4>2, <4>3, QueueMoves
    <3> QED BY <3>1, <3>2, <3>3
  <2> QED BY <1>1, <2>1, <2>2, <2>3, Sides DEF NoCallForgotten
<1>6. ASSUME NEW s \in Side, PollOutbound(s) PROVE NoCallForgotten'
  <2> DEFINE d == pending[s]
  <2>1. /\ d \in Callers /\ UNCHANGED <<openq, ended>>
        /\ pending' = [pending EXCEPT ![s] = None]
        /\ driver' = [driver EXCEPT ![s] = "top"]
    BY <1>6 DEF PollOutbound, TypeOK, queues
  <2>2. /\ call'[d] # "waits" /\ \A c \in Callers \ {d} : call'[c] = call[c]
        /\ call'[d] = "failed" => call[d] = "failed" \/ Dead(s)
    BY <1>6, <2>1 DEF PollOutbound, TypeOK
  <2>3. Dead(s) => ended
    BY Zenon DEF Dead, EndIsKnown, NotClosing
  <2>4. \A p \in Side : driver[p] # "done" => driver'[p] # "done"
    BY <2>1 DEF TypeOK
  <2>5. \A p \in Side, c \in Callers \ {d} : c = pending[p] => c = pending'[p]
    BY <2>1 DEF TypeOK
  <2> QED BY <2>1, <2>2, <2>3, <2>4, <2>5, Sides DEF NoCallForgotten
<1>7. ASSUME NEW s \in Side, PollInbound(s) \/ SendInbound(s) PROVE NoCallForgotten'
  <2>1. /\ UNCHANGED <<call, pending, openq>>
        /\ \E x \in {"send", "top"} : driver' = [driver EXCEPT ![s] = x]
    BY <1>7 DEF PollInbound, SendInbound
  <2>2. \A p \in Side : driver[p] # "done" => driver'[p] # "done"
    BY <2>1 DEF TypeOK
  <2> QED BY <1>1, <2>1, <2>2, Sides DEF NoCallForgotten
<1>8. ASSUME NEW s \in Side, PollEnd(s) \/ SendInboundFails(s) \/ Abort(s)
      PROVE  NoCallForgotten'
  <2>1. Finish(s)
    BY <1>8 DEF PollEnd, SendInboundFails, Abort
  <2>2. (PollEnd(s) => Dead(s)) /\ (SendInboundFails(s) => acceptor[s] = "stopped")
    BY DEF PollEnd, SendInboundFails
  <2>3. (Dead(s) => ended) /\ (acceptor[s] = "stopped" => ended)
    BY Zenon DEF Dead, EndIsKnown, NotClosing
  <2>4. ended'
    BY <1>1, <1>8, <2>2, <2>3, Zenon DEF Abort
  <2> QED BY <2>1, <2>4, FinishTellsCallers
<1>9. ASSUME NEW s \in Side,
             \/ Read(s) \/ WriteFrame(s) \/ Accept(s) \/ StopAccepting(s) \/ Noise(s)
             \/ CloseArrives(s)
      PROVE  UNCHANGED <<call, pending, driver, openq>>
  BY <1>9 DEF Read, ReadBuffered, ReadMessage, SkipMessage, ReadClose, WriteFrame, Accept,
       StopAccepting, Noise, CloseArrives, queues
<1>10. Break \/ UNCHANGED vars => UNCHANGED <<call, pending, driver, openq>>
  BY DEF Break, vars, queues
<1> QED BY <1>2, <1>3, <1>4, <1>5, <1>6, <1>7, <1>8, <1>9, <1>10 DEF Next, Drive

(* For every set of callers and every capacity of the channels: whoever    *)
(* waits for open_stream is known to a driver that runs, and nobody fails  *)
(* before the connection ends (transport.rs open_stream,                   *)
(* spawn_yamux_driver).  It is the part of OpenEnds that needs no          *)
(* fairness.                                                               *)
THEOREM CallsStayKnown == Spec => []NoCallForgotten
<1>1. Init => NoCallForgotten
  BY DEF Init, NoCallForgotten
<1>2. Init => TypeOK /\ OutboxWhole /\ EndIsKnown
  BY OrderInit DEF OrderInv
<1>3. /\ TypeOK /\ OutboxWhole /\ EndIsKnown /\ NoCallForgotten /\ [Next]_vars
      => (TypeOK /\ OutboxWhole /\ EndIsKnown /\ NoCallForgotten)'
  BY TypeStep, EndStep, CallsStep
<1> QED BY <1>1, <1>2, <1>3, PTL DEF Spec

=============================================================================
