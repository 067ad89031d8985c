--------------------------- MODULE SequenceFacts ----------------------------
(***************************************************************************)
(* What the proofs about streams of bytes need of sequences: concatenation *)
(* as a symbol with laws, FlattenSeq, and taking something off the front.  *)
(***************************************************************************)
EXTENDS Naturals, Sequences, SequencesExt, SequenceTheorems, WellFoundedInduction, TLAPS

-----------------------------------------------------------------------------
(* Concatenation: the provers see a symbol and its laws. *)

Cat(x, y) == x \o y

LEMMA CatAssociative ==
  ASSUME NEW S
  PROVE  \A x, y, z \in Seq(S) : Cat(Cat(x, y), z) = Cat(x, Cat(y, z))
<1> SUFFICES ASSUME NEW x \in Seq(S), NEW y \in Seq(S), NEW z \in Seq(S)
             PROVE  (x \o y) \o z = x \o (y \o z)
  BY DEF Cat
<1> QED BY ConcatAssociative, SMTT(30)

-----------------------------------------------------------------------------
(* Concatenating a sequence of sequences. *)

(* A set of numbers that is not empty has a least one: what replaces       *)
(* induction below.                                                        *)
LEMMA LeastNumber ==
  ASSUME NEW T \in SUBSET Nat, T # {}
  PROVE  \E n \in T : \A m \in T : n <= m
<1>1. PICK n \in T : \A m \in T : <<m, n>> \notin OpToRel(<, Nat)
  BY NatLessThanWellFounded, WFMin
<1>2. \A m \in T : ~(m < n)
  BY <1>1 DEF OpToRel
<1>3. \A m \in T : n <= m
  <2> TAKE m \in T
  <2>1. m \in Nat /\ n \in Nat /\ ~(m < n)
    BY <1>2
  <2> QED BY <2>1
<1> QED BY <1>3

(* f holds what the first 1, 2, ... n members of q are together. *)
IsFlat(f, q, n) ==
  \A i \in 1..n : f[i] = IF i = 1 THEN q[i] ELSE f[i - 1] \o q[i]

Agree(f, g, n) == \A i \in 1..n : f[i] = g[i]

LEMMA FlatsAgree ==
  ASSUME NEW n \in Nat, NEW m \in Nat, n <= m, NEW q, NEW r, Agree(q, r, n),
         NEW f, NEW g, IsFlat(f, q, n), IsFlat(g, r, m)
  PROVE  Agree(f, g, n)
<1> DEFINE Bad == {i \in 1..n : f[i] # g[i]}
<1> SUFFICES ASSUME Bad # {} PROVE FALSE
  BY DEF Agree
<1>1. Bad \in SUBSET Nat
  OBVIOUS
<1> HIDE DEF Bad
<1>2. PICK i \in Bad : \A j \in Bad : i <= j
  BY <1>1, LeastNumber
<1> USE DEF Bad
<1>3. i \in 1..n /\ i \in 1..m /\ f[i] # g[i] /\ q[i] = r[i]
  BY DEF Agree
<1>4. /\ f[i] = IF i = 1 THEN q[i] ELSE f[i - 1] \o q[i]
      /\ g[i] = IF i = 1 THEN r[i] ELSE g[i - 1] \o r[i]
  BY <1>3 DEF IsFlat
<1>5. i # 1
  BY <1>3, <1>4
<1>6. f[i - 1] = g[i - 1]
  BY <1>2, <1>3, <1>5
<1> QED BY <1>3, <1>4, <1>5, <1>6

LEMMA FlatExists ==
  ASSUME NEW q, NEW len \in Nat
  PROVE  \E f : IsFlat(f, q, len)
<1> DEFINE Bad == {n \in Nat : ~ \E f : IsFlat(f, q, n)}
<1> SUFFICES Bad = {}
  OBVIOUS
<1> SUFFICES ASSUME Bad # {} PROVE FALSE
  OBVIOUS
<1>1. Bad \in SUBSET Nat
  OBVIOUS
<1> HIDE DEF Bad
<1>2. PICK n \in Bad : \A j \in Bad : n <= j
  BY <1>1, LeastNumber
<1> USE DEF Bad
<1>3. n \in Nat /\ ~ \E f : IsFlat(f, q, n)
  BY <1>2
<1>4. n # 0
  <2>1. IsFlat(q, q, 0)
    BY DEF IsFlat
  <2> QED BY <1>3, <2>1
<1>5. PICK f : IsFlat(f, q, n - 1)
  <2>1. n - 1 \in Nat /\ ~(n <= n - 1)
    BY <1>3, <1>4
  <2>2. n - 1 \notin Bad
    BY <1>2, <2>1
  <2> QED BY <2>1, <2>2
<1> DEFINE last == IF n = 1 THEN q[n] ELSE f[n - 1] \o q[n]
           g == [i \in 1..n |-> IF i = n THEN last ELSE f[i]]
<1>6. ASSUME NEW i \in 1..n
      PROVE  g[i] = IF i = 1 THEN q[i] ELSE g[i - 1] \o q[i]
  <2>1. CASE i = n
    <3>1. n # 1 => g[n - 1] = f[n - 1]
      BY <1>3, <1>4
    <3> QED BY <1>3, <1>4, <2>1, <3>1
  <2>2. CASE i # n
    <3>1. i \in 1..(n - 1)
      BY <1>3, <2>2
    <3>2. f[i] = IF i = 1 THEN q[i] ELSE f[i - 1] \o q[i]
      BY <1>5, <3>1 DEF IsFlat
    <3>3. g[i] = f[i] /\ (i # 1 => g[i - 1] = f[i - 1])
      BY <1>3, <2>2
    <3> HIDE DEF g
    <3> QED BY <3>2, <3>3
  <2> QED BY <2>1, <2>2
<1> HIDE DEF g
<1>7. IsFlat(g, q, n)
  BY <1>6 DEF IsFlat
<1> QED BY <1>3, <1>7

(* The function that FlattenSeq defines by recursion. *)
Flat(q) ==
  CHOOSE f : f = [i \in 1..Len(q) |-> IF i = 1 THEN q[i] ELSE f[i - 1] \o q[i]]

LEMMA FlattenIsFlat ==
  ASSUME NEW q, Len(q) \in Nat
  PROVE  /\ IsFlat(Flat(q), q, Len(q))
         /\ FlattenSeq(q) = IF Len(q) = 0 THEN q ELSE Flat(q)[Len(q)]
<1> DEFINE Step(f) == [i \in 1..Len(q) |-> IF i = 1 THEN q[i] ELSE f[i - 1] \o q[i]]
<1>1. PICK f : IsFlat(f, q, Len(q))
  BY FlatExists
<1> DEFINE g == [i \in 1..Len(q) |-> f[i]]
<1>2. g = Step(g)
  <2>1. ASSUME NEW i \in 1..Len(q) PROVE g[i] = Step(g)[i]
    <3>1. f[i] = IF i = 1 THEN q[i] ELSE f[i - 1] \o q[i]
      BY <1>1 DEF IsFlat
    <3>2. i # 1 => i - 1 \in 1..Len(q)
      OBVIOUS
    <3> QED BY <3>1, <3>2
  <2> QED BY <2>1
<1> HIDE DEF g
<1>3. Flat(q) = Step(Flat(q))
  BY <1>2 DEF Flat
<1>4. IsFlat(Flat(q), q, Len(q))
  <2> DEFINE h == Flat(q)
  <2>1. h = Step(h)
    BY <1>3
  <2> HIDE DEF h
  <2>2. IsFlat(h, q, Len(q))
    BY <2>1 DEF IsFlat
  <2> QED BY <2>2 DEF h
<1>5. FlattenSeq(q) = IF Len(q) = 0 THEN q ELSE Flat(q)[Len(q)]
  BY DEF FlattenSeq, Flat
<1> QED BY <1>4, <1>5

LEMMA FlattenEmpty == FlattenSeq(<<>>) = <<>>
BY DEF FlattenSeq

LEMMA FlattenAppend ==
  ASSUME NEW S, NEW q \in Seq(Seq(S)), NEW x \in Seq(S)
  PROVE  FlattenSeq(Append(q, x)) = FlattenSeq(q) \o x
<1> DEFINE r == Append(q, x)
           n == Len(q)
<1>1. Len(r) = n + 1 /\ n \in Nat /\ r[n + 1] = x
  OBVIOUS
<1>2. Agree(q, r, n)
  BY DEF Agree
<1>3. IsFlat(Flat(r), r, n + 1) /\ FlattenSeq(r) = Flat(r)[n + 1]
  <2> HIDE DEF r, n
  <2> QED BY <1>1, FlattenIsFlat
<1>4. IsFlat(Flat(q), q, n) /\ FlattenSeq(q) = IF n = 0 THEN q ELSE Flat(q)[n]
  BY <1>1, FlattenIsFlat
<1>5. Agree(Flat(q), Flat(r), n)
  <2>1. n + 1 \in Nat /\ n <= n + 1
    BY <1>1
  <2> HIDE DEF r, n
  <2> QED BY <1>1, <1>2, <1>3, <1>4, <2>1, FlatsAgree
<1>6. Flat(r)[n + 1] = IF n = 0 THEN x ELSE Flat(r)[n] \o x
  <2>1. n + 1 \in 1..(n + 1) /\ (n + 1) - 1 = n /\ (n + 1 = 1 <=> n = 0)
    BY <1>1
  <2> HIDE DEF r, n
  <2> QED BY <1>1, <1>3, <2>1 DEF IsFlat
<1>7. CASE n = 0
  <2>1. q = <<>> /\ <<>> \o x = x
    BY <1>7, ConcatEmptySeq
  <2> HIDE DEF r, n
  <2> QED BY <1>3, <1>4, <1>6, <1>7, <2>1 DEF r
<1>8. CASE n # 0
  <2>1. n \in 1..n
    BY <1>1, <1>8
  <2>2. Flat(q)[n] = Flat(r)[n]
    BY <1>5, <2>1 DEF Agree
  <2> HIDE DEF r, n
  <2> QED BY <1>3, <1>4, <1>6, <1>8, <2>2 DEF r
<1> QED BY <1>7, <1>8

LEMMA FlattenType ==
  ASSUME NEW S, NEW q \in Seq(Seq(S))
  PROVE  FlattenSeq(q) \in Seq(S)
<1> DEFINE Bad == {n \in Nat : \E t \in Seq(Seq(S)) : Len(t) = n /\ FlattenSeq(t) \notin Seq(S)}
<1> SUFFICES Bad = {}
  OBVIOUS
<1> SUFFICES ASSUME Bad # {} PROVE FALSE
  OBVIOUS
<1>1. Bad \in SUBSET Nat
  BY Zenon
<1> HIDE DEF Bad
<1>2. PICK n \in Bad : \A j \in Bad : n <= j
  BY <1>1, LeastNumber
<1> USE DEF Bad
<1>3. PICK t \in Seq(Seq(S)) : Len(t) = n /\ FlattenSeq(t) \notin Seq(S)
  BY <1>2
<1>4. t # <<>>
  BY <1>3, FlattenEmpty, EmptySeq
<1>5. PICK u \in Seq(Seq(S)), x \in Seq(S) : t = Append(u, x)
  BY <1>4, SequenceEmptyOrAppend
<1>6. FlattenSeq(u) \in Seq(S)
  <2>1. Len(u) \in Nat /\ Len(u) < n
    BY <1>3, <1>5
  <2>2. Len(u) \notin Bad
    BY <1>2, <2>1
  <2> QED BY <2>1, <2>2
<1>7. FlattenSeq(t) = FlattenSeq(u) \o x
  BY <1>5, FlattenAppend
<1> QED BY <1>3, <1>6, <1>7, ConcatProperties

(* Concatenation of the parts is the concatenation of the whole. *)
LEMMA FlattenConcat ==
  ASSUME NEW S, NEW q \in Seq(Seq(S)), NEW r \in Seq(Seq(S))
  PROVE  FlattenSeq(q \o r) = FlattenSeq(q) \o FlattenSeq(r)
<1> DEFINE P(t) == FlattenSeq(q \o t) = FlattenSeq(q) \o FlattenSeq(t)
           Bad == {n \in Nat : \E t \in Seq(Seq(S)) : Len(t) = n /\ ~P(t)}
<1> SUFFICES P(r)
  OBVIOUS
<1> HIDE DEF P
<1> SUFFICES Bad = {}
  BY LenProperties
<1> SUFFICES ASSUME Bad # {} PROVE FALSE
  OBVIOUS
<1>1. Bad \in SUBSET Nat
  BY Zenon
<1> HIDE DEF Bad
<1>2. PICK n \in Bad : \A j \in Bad : n <= j
  BY <1>1, LeastNumber
<1> USE DEF Bad
<1>3. PICK t \in Seq(Seq(S)) : Len(t) = n /\ ~P(t)
  BY <1>2
<1>4. t # <<>>
  <2>1. q \o <<>> = q
    BY ConcatEmptySeq
  <2>2. FlattenSeq(q) \o <<>> = FlattenSeq(q)
    BY FlattenType, ConcatEmptySeq
  <2>3. P(<<>>)
    BY <2>1, <2>2, FlattenEmpty DEF P
  <2> QED BY <1>3, <2>3
<1>5. PICK u \in Seq(Seq(S)), x \in Seq(S) : t = Append(u, x)
  BY <1>4, SequenceEmptyOrAppend
<1>6. P(u)
  <2>1. Len(u) \in Nat /\ Len(u) < n
    BY <1>3, <1>5
  <2>2. Len(u) \notin Bad
    BY <1>2, <2>1
  <2> QED BY <2>1, <2>2
<1>7. q \o t = Append(q \o u, x)
  BY <1>5
<1>8. q \o u \in Seq(Seq(S))
  OBVIOUS
<1>9. FlattenSeq(q \o t) = FlattenSeq(q \o u) \o x
  BY <1>7, <1>8, FlattenAppend
<1>10. FlattenSeq(t) = FlattenSeq(u) \o x
  BY <1>5, FlattenAppend
<1>11. (FlattenSeq(q) \o FlattenSeq(u)) \o x = FlattenSeq(q) \o (FlattenSeq(u) \o x)
  <2> DEFINE a == FlattenSeq(q)
             b == FlattenSeq(u)
  <2>1. a \in Seq(S) /\ b \in Seq(S) /\ x \in Seq(S)
    BY <1>5, FlattenType
  <2> HIDE DEF a, b, Bad
  <2>2. Cat(Cat(a, b), x) = Cat(a, Cat(b, x))
    BY <2>1, CatAssociative
  <2> QED BY <2>2 DEF Cat, a, b
<1> QED BY <1>3, <1>6, <1>9, <1>10, <1>11 DEF P

LEMMA FlattenOne ==
  ASSUME NEW S, NEW x \in Seq(S)
  PROVE  FlattenSeq(<<x>>) = x
<1>1. <<>> \in Seq(Seq(S)) /\ Append(<<>>, x) = <<x>>
  OBVIOUS
<1>2. FlattenSeq(<<x>>) = FlattenSeq(<<>>) \o x
  BY <1>1, FlattenAppend
<1> QED BY <1>2, FlattenEmpty, ConcatEmptySeq

(* The first of the parts. *)
LEMMA FlattenPrepend ==
  ASSUME NEW S, NEW x \in Seq(S), NEW q \in Seq(Seq(S))
  PROVE  FlattenSeq(<<x>> \o q) = x \o FlattenSeq(q)
<1>1. <<x>> \in Seq(Seq(S))
  OBVIOUS
<1>2. FlattenSeq(<<x>> \o q) = FlattenSeq(<<x>>) \o FlattenSeq(q)
  BY <1>1, FlattenConcat
<1> QED BY <1>2, FlattenOne

-----------------------------------------------------------------------------
(* A buffer b, followed by R, that starts with x: taking x off. *)

First(s, n) == SubSeq(s, 1, n)
After(s, n) == SubSeq(s, n + 1, Len(s))

LEMMA PrefixAgrees ==
  ASSUME NEW S, NEW b \in Seq(S), NEW R \in Seq(S), NEW x \in Seq(S), NEW z \in Seq(S),
         Cat(b, R) = Cat(x, z), NEW i \in 1..Len(b), i <= Len(x)
  PROVE  b[i] = x[i]
<1>1. (b \o R)[i] = b[i]
  BY ConcatProperties
<1>2. (x \o z)[i] = x[i]
  BY ConcatProperties
<1> QED BY <1>1, <1>2 DEF Cat

LEMMA TakePrefix ==
  ASSUME NEW S, NEW b \in Seq(S), NEW R \in Seq(S), NEW x \in Seq(S), NEW z \in Seq(S),
         Cat(b, R) = Cat(x, z), Len(x) <= Len(b)
  PROVE  /\ First(b, Len(x)) = x
         /\ After(b, Len(x)) \in Seq(S)
         /\ Cat(After(b, Len(x)), R) = z
<1>0. b \o R = x \o z
  BY DEF Cat
<1> DEFINE n == Len(x)
           t == SubSeq(b, n + 1, Len(b))
<1>1. n \in Nat /\ Len(b) \in Nat /\ Len(R) \in Nat /\ Len(z) \in Nat
  BY LenProperties
<1>2. t \in Seq(S) /\ Len(t) = Len(b) - n /\ \A i \in 1..Len(t) : t[i] = b[i + n]
  BY <1>1
<1>3. Len(b) + Len(R) = n + Len(z)
  <2>1. Len(b \o R) = Len(b) + Len(R)
    BY ConcatProperties
  <2>2. Len(x \o z) = Len(x) + Len(z)
    BY ConcatProperties
  <2> QED BY <1>0, <2>1, <2>2
<1>4. SubSeq(b, 1, n) = x
  <2>1. SubSeq(b, 1, n) \in Seq(S) /\ Len(SubSeq(b, 1, n)) = n
        /\ \A i \in 1..n : SubSeq(b, 1, n)[i] = b[i]
    BY <1>1
  <2>2. \A i \in 1..n : b[i] = x[i]
    <3> HIDE DEF n
    <3> TAKE i \in 1..n
    <3>1. i \in 1..Len(b) /\ i <= Len(x)
      BY <1>1 DEF n
    <3> QED BY <3>1, PrefixAgrees
  <2> HIDE DEF n
  <2> QED BY <1>1, <2>1, <2>2, SeqEqual DEF n
<1>5. t \o R = z
  <2>1. t \o R \in Seq(S) /\ Len(t \o R) = Len(z)
    BY <1>1, <1>2, <1>3, ConcatProperties
  <2>2. ASSUME NEW i \in 1..Len(z) PROVE (t \o R)[i] = z[i]
    <3>1. (b \o R)[i + n] = z[i]
      <4>1. (x \o z)[i + n] = z[i]
        BY <1>1
      <4> QED BY <1>0, <4>1
    <3>2. CASE i <= Len(t)
      <4>1. (t \o R)[i] = b[i + n]
        BY <1>1, <1>2, <3>2
      <4>2. (b \o R)[i + n] = b[i + n]
        BY <1>1, <1>2, <3>2
      <4> QED BY <3>1, <4>1, <4>2
    <3>3. CASE i > Len(t)
      <4>1. i - Len(t) \in 1..Len(R) /\ i - Len(t) = (i + n) - Len(b)
            /\ i + n \in (Len(b) + 1)..(Len(b) + Len(R)) /\ i \in (Len(t) + 1)..(Len(t) + Len(R))
        <5> HIDE DEF t, n
        <5>1. Len(t) = Len(b) - n
          BY <1>2
        <5> QED BY <1>1, <1>3, <3>3, <5>1
      <4>2. (t \o R)[i] = R[i - Len(t)]
        <5> HIDE DEF t, n
        <5>1. t \in Seq(S) /\ Len(t) \in Nat
          BY <1>2, LenProperties
        <5>2. i \in 1..(Len(t) + Len(R)) /\ ~(i <= Len(t))
          BY <1>1, <3>3, <4>1, <5>1
        <5> QED BY <5>1, <5>2, ConcatProperties
      <4>3. (b \o R)[i + n] = R[(i + n) - Len(b)]
        <5> HIDE DEF t, n
        <5> QED BY <4>1, ConcatProperties
      <4> HIDE DEF t, n
      <4> QED BY <3>1, <4>1, <4>2, <4>3
    <3>4. i <= Len(t) \/ i > Len(t)
      <4>1. Len(t) \in Nat /\ i \in Nat
        BY <1>1, <1>2
      <4> HIDE DEF t
      <4> QED BY <4>1
    <3> QED BY <3>2, <3>3, <3>4
  <2> HIDE DEF t
  <2> QED BY <2>1, <2>2, SeqEqual
<1> QED BY <1>2, <1>4, <1>5 DEF First, After, Cat

=============================================================================
