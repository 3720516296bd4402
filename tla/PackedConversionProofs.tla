------------------------- MODULE PackedConversionProofs -------------------------
(***************************************************************************)
(* Proofs about PackedConversion: for any jobs, configurations and sizes   *)
(* of the three families.                                                  *)
(***************************************************************************)
EXTENDS PackedConversion, TLAPS, FiniteSetTheorems, SequenceTheorems, WellFoundedInduction

(***************************************************************************)
(* Induction.                                                              *)
(***************************************************************************)

\* A set of natural numbers that is not empty has a least one.
LEMMA Least ==
    ASSUME NEW T, T \subseteq Nat, T # {}
    PROVE  \E m \in T : \A k \in T : m <= k
<1>1. IsWellFoundedOn(OpToRel(<, Nat), Nat)
  BY NatLessThanWellFounded, Zenon
<1>2. \A k, m \in Nat : k < m => <<k, m>> \in OpToRel(<, Nat)
  BY DEF OpToRel
<1>3. \E m \in T : \A k \in T : ~ (<<k, m>> \in OpToRel(<, Nat))
  BY <1>1, WFMin, Zenon
<1>4. PICK m \in T : \A k \in T : ~ (<<k, m>> \in OpToRel(<, Nat))
  BY <1>3, Zenon
<1>5. m \in Nat /\ \A k \in T : k \in Nat
  OBVIOUS
<1>6. \A k \in T : ~ (k < m)
  BY <1>2, <1>4, <1>5, Zenon
<1> QED  BY <1>5, <1>6

\* Induction up to N, for a set: the numbers with the property to be shown.
LEMMA UpTo ==
    ASSUME NEW N \in Nat, NEW T, 0 \in T, \A n \in 1..N : n - 1 \in T => n \in T
    PROVE  \A n \in 0..N : n \in T
<1> DEFINE Rest == (0..N) \ T
<1>1. SUFFICES ASSUME Rest # {} PROVE FALSE
  OBVIOUS
<1>2. PICK m \in Rest : \A k \in Rest : m <= k
  <2>1. Rest \subseteq Nat
    OBVIOUS
  <2> HIDE DEF Rest
  <2> QED  BY <1>1, <2>1, Least
<1>3. m \in 0..N /\ m \notin T /\ m # 0
  BY <1>2
<1>4. m \in 1..N /\ m - 1 \in 0..N /\ m - 1 \notin Rest
  BY <1>2, <1>3
<1> QED  BY <1>3, <1>4

(***************************************************************************)
(* Lists: functions on 1..n, whatever their values.                        *)
(***************************************************************************)

IsList(f, n) == f = [k \in 1..n |-> f[k]]

\* A list is a sequence of its values.
LEMMA ListSeq ==
    ASSUME NEW n \in Nat, NEW f, IsList(f, n)
    PROVE  /\ f \in Seq({f[k] : k \in 1..n})
           /\ Len(f) = n /\ DOMAIN f = 1..n
<1> DEFINE S == {f[k] : k \in 1..n}
<1>1. f \in [1..n -> S] /\ DOMAIN f = 1..n
  BY DEF IsList
<1>2. f \in Seq(S)
  BY <1>1, SeqDef
<1>3. Len(f) \in Nat /\ DOMAIN f = 1..Len(f)
  BY <1>2, LenProperties
<1>4. Len(f) = n
  BY <1>1, <1>3
<1> QED  BY <1>1, <1>2, <1>4

\* A sequence is a list.
LEMMA SeqList ==
    ASSUME NEW S, NEW f \in Seq(S)
    PROVE  Len(f) \in Nat /\ IsList(f, Len(f)) /\ \A k \in 1..Len(f) : f[k] \in S
BY LenProperties, ElementOfSeq DEF IsList

\* Lists are equal when their members are.
LEMMA ListEqual ==
    ASSUME NEW n \in Nat, NEW f, NEW g, IsList(f, n), IsList(g, n),
           \A k \in 1..n : f[k] = g[k]
    PROVE  f = g
BY DEF IsList

\* List f of length m, then list g of length n.
Concatenates(f, m, g, n) ==
    /\ IsList(f \o g, m + n) /\ Len(f \o g) = m + n
    /\ \A k \in 1..m : (f \o g)[k] = f[k]
    /\ \A k \in 1..n : (f \o g)[m + k] = g[k]

\* A list of m and one of n members make one of m + n, the second behind the first.
LEMMA ListConcat ==
    ASSUME NEW m \in Nat, NEW n \in Nat, NEW f, NEW g, IsList(f, m), IsList(g, n)
    PROVE  Concatenates(f, m, g, n)
<1> DEFINE S == {f[k] : k \in 1..m} \cup {g[k] : k \in 1..n}
<1>1. Len(f) = m /\ Len(g) = n /\ f \in Seq(S) /\ g \in Seq(S)
  <2>1. /\ f \in Seq({f[k] : k \in 1..m}) /\ Len(f) = m
        /\ g \in Seq({g[k] : k \in 1..n}) /\ Len(g) = n
    BY ListSeq, Zenon
  <2>2. {f[k] : k \in 1..m} \subseteq S /\ {g[k] : k \in 1..n} \subseteq S
    OBVIOUS
  <2> HIDE DEF S
  <2>3. f \in Seq(S)
    BY <2>1, <2>2, SeqMonotonic
  <2>4. g \in Seq(S)
    BY <2>1, <2>2, SeqMonotonic
  <2> QED  BY <2>1, <2>3, <2>4
<1> HIDE DEF S
<1>2. /\ f \o g \in Seq(S) /\ Len(f \o g) = m + n
      /\ \A i \in 1..(m + n) : (f \o g)[i] = IF i <= m THEN f[i] ELSE g[i - m]
  BY <1>1, ConcatProperties
<1>3. IsList(f \o g, m + n)
  BY <1>2, SeqList
<1>4. ASSUME NEW k \in 1..m PROVE (f \o g)[k] = f[k]
  BY <1>2
<1>5. ASSUME NEW k \in 1..n PROVE (f \o g)[m + k] = g[k]
  <2>1. m + k \in 1..(m + n) /\ ~(m + k <= m) /\ (m + k) - m = k
    OBVIOUS
  <2> QED  BY <1>2, <2>1
<1> QED  BY <1>2, <1>3, <1>4, <1>5 DEF Concatenates

Appends(f, n, x) ==
    /\ IsList(Append(f, x), n + 1)
    /\ \A k \in 1..n : Append(f, x)[k] = f[k]
    /\ Append(f, x)[n + 1] = x

\* A list grows by one member at its end.
LEMMA ListAppend ==
    ASSUME NEW n \in Nat, NEW f, NEW x, IsList(f, n)
    PROVE  Appends(f, n, x)
<1> DEFINE S == {f[k] : k \in 1..n} \cup {x}
<1>1. Len(f) = n /\ f \in Seq(S) /\ x \in S
  <2>1. f \in Seq({f[k] : k \in 1..n}) /\ Len(f) = n
    BY ListSeq, Zenon
  <2>2. {f[k] : k \in 1..n} \subseteq S /\ x \in S
    OBVIOUS
  <2> QED  BY <2>1, <2>2, SeqMonotonic, Zenon
<1> HIDE DEF S
<1>2. Append(f, x) \in Seq(S) /\ Len(Append(f, x)) = n + 1
  BY <1>1
<1>3. IsList(Append(f, x), n + 1)
  BY <1>2, SeqList
<1>4. \A k \in 1..n : Append(f, x)[k] = f[k]
  BY <1>1
<1>5. Append(f, x)[n + 1] = x
  BY <1>1
<1> QED  BY <1>3, <1>4, <1>5 DEF Appends

\* The members from place a on, len of them.
IsCut(part, f, a, len) ==
    IsList(part, len) /\ Len(part) = len /\ \A k \in 1..len : part[k] = f[a + k - 1]

\* SubSeq cuts a list, whatever the values in it.
LEMMA ListCut ==
    ASSUME NEW f, NEW a \in Int, NEW len \in Nat
    PROVE  IsCut(SubSeq(f, a, a + len - 1), f, a, len)
<1> DEFINE S == {f[k] : k \in a..(a + len - 1)}
           part == SubSeq(f, a, a + len - 1)
<1>1. a + len - 1 \in Int /\ \A i \in a..(a + len - 1) : f[i] \in S
  OBVIOUS
<1> HIDE DEF S
<1>2. /\ part \in Seq(S)
      /\ Len(part) = IF a <= a + len - 1 THEN (a + len - 1) - a + 1 ELSE 0
      /\ \A i \in 1..((a + len - 1) - a + 1) : part[i] = f[a + i - 1]
  BY <1>1, SubSeqProperties
<1>3. (a + len - 1) - a + 1 = len /\ (~ (a <= a + len - 1) => len = 0)
  OBVIOUS
<1>4. Len(part) = len
  BY <1>2, <1>3
<1>5. IsList(part, len)
  BY <1>2, <1>4, SeqList
<1> QED  BY <1>2, <1>3, <1>4, <1>5 DEF IsCut

(***************************************************************************)
(* FlattenSeq.                                                             *)
(***************************************************************************)

Lists(seqs, n) ==
    /\ n \in Nat /\ IsList(seqs, n)
    /\ \A i \in 1..n : Len(seqs[i]) \in Nat /\ IsList(seqs[i], Len(seqs[i]))

\* f[i] is the concatenation of the first i lists.
Joins(f, seqs, n) == f[0] = <<>> /\ \A i \in 1..n : f[i] = f[i - 1] \o seqs[i]

\* The recursion by which FlattenSeq joins n lists has a solution.
LEMMA JoinExists ==
    ASSUME NEW n, NEW seqs, Lists(seqs, n)
    PROVE  \E f : Joins(f, seqs, n)
<1> DEFINE T == {k \in 0..n : \E f : Joins(f, seqs, k)}
<1>1. n \in Nat
  BY DEF Lists
<1>2. 0 \in T
  <2>1. Joins([i \in 0..n |-> <<>>], seqs, 0)
    BY <1>1 DEF Joins
  <2> QED  BY <1>1, <2>1
<1>3. ASSUME NEW k \in 1..n, k - 1 \in T PROVE k \in T
  <2>1. PICK f : Joins(f, seqs, k - 1)
    BY <1>3
  <2> DEFINE g == [i \in 0..n |-> IF i < k THEN f[i] ELSE f[k - 1] \o seqs[k]]
  <2>2. g[0] = <<>>
    BY <1>1, <2>1, SMTT(30) DEF Joins
  <2>3. ASSUME NEW i \in 1..k PROVE g[i] = g[i - 1] \o seqs[i]
    <3>1. i \in Nat /\ i - 1 \in 0..n /\ i \in 0..n /\ k \in Nat /\ i - 1 < k /\ i <= k
      BY <1>1
    <3>2. CASE i < k
      <4>1. i \in 1..(k - 1)
        BY <3>1, <3>2
      <4>2. f[i] = f[i - 1] \o seqs[i]
        BY <2>1, <4>1 DEF Joins
      <4> QED  BY <3>1, <3>2, <4>2
    <3>3. CASE ~(i < k)
      <4>1. i = k /\ g[i - 1] = f[k - 1]
        BY <3>1, <3>3
      <4>2. g[i] = f[k - 1] \o seqs[k]
        BY <3>1, <3>3
      <4> QED  BY <4>1, <4>2
    <3> QED  BY <3>2, <3>3
  <2>4. Joins(g, seqs, k)
    BY <2>2, <2>3 DEF Joins
  <2> QED  BY <1>1, <2>4
<1> HIDE DEF T
<1>4. \A k \in 0..n : k \in T
  BY <1>1, <1>2, <1>3, UpTo
<1>5. n \in T
  BY <1>1, <1>4
<1> QED  BY <1>5 DEF T

\* Every stage of the join is a list.
LEMMA JoinIsList ==
    ASSUME NEW n, NEW seqs, Lists(seqs, n), NEW f, Joins(f, seqs, n)
    PROVE  \A i \in 0..n : Len(f[i]) \in Nat /\ IsList(f[i], Len(f[i]))
<1> DEFINE T == {i \in 0..n : Len(f[i]) \in Nat /\ IsList(f[i], Len(f[i]))}
<1>1. n \in Nat
  BY DEF Lists
<1>2. 0 \in T
  BY <1>1 DEF Joins, IsList
<1>3. ASSUME NEW i \in 1..n, i - 1 \in T PROVE i \in T
  <2> DEFINE a == f[i - 1]  b == seqs[i]
  <2>1. f[i] = a \o b
    BY DEF Joins
  <2>2. Len(b) \in Nat /\ IsList(b, Len(b))
    BY DEF Lists
  <2>3. Len(a) \in Nat /\ IsList(a, Len(a))
    BY <1>3
  <2> HIDE DEF a, b
  <2>4. IsList(a \o b, Len(a) + Len(b)) /\ Len(a \o b) = Len(a) + Len(b)
    <3>1. Concatenates(a, Len(a), b, Len(b))
      BY <2>2, <2>3, ListConcat
    <3> QED  BY <3>1 DEF Concatenates
  <2>5. Len(a \o b) \in Nat /\ IsList(a \o b, Len(a \o b))
    BY <2>2, <2>3, <2>4
  <2>6. Len(f[i]) \in Nat /\ IsList(f[i], Len(f[i])) /\ i \in 0..n
    BY <1>1, <2>1, <2>5
  <2> QED  BY <2>6
<1> HIDE DEF T
<1>4. \A i \in 0..n : i \in T
  BY <1>1, <1>2, <1>3, UpTo
<1> QED  BY <1>4 DEF T

\* FlattenSeq of the first m lists.
LEMMA FlattenJoins ==
    ASSUME NEW n, NEW seqs, Lists(seqs, n), NEW f, Joins(f, seqs, n), NEW m \in 0..n
    PROVE  FlattenSeq(SubSeq(seqs, 1, m)) = f[m]
<1> DEFINE part == SubSeq(seqs, 1, m)
<1>1. n \in Nat /\ m \in Nat
  BY DEF Lists
<1>2. IsList(part, m) /\ Len(part) = m /\ \A k \in 1..m : part[k] = seqs[k]
  <2>1. 1 + m - 1 = m /\ \A k \in 1..m : 1 + k - 1 = k
    BY <1>1
  <2>2. /\ IsList(SubSeq(seqs, 1, 1 + m - 1), m) /\ Len(SubSeq(seqs, 1, 1 + m - 1)) = m
        /\ \A k \in 1..m : SubSeq(seqs, 1, 1 + m - 1)[k] = seqs[1 + k - 1]
    <3>1. 1 \in Int
      OBVIOUS
    <3>2. IsCut(SubSeq(seqs, 1, 1 + m - 1), seqs, 1, m)
      BY <1>1, <3>1, ListCut
    <3> QED  BY <3>2 DEF IsCut
  <2> QED  BY <2>1, <2>2
<1>3. CASE m = 0
  <2>1. part = <<>>
    BY <1>3, SubSeqEmpty
  <2>2. FlattenSeq(part) = <<>>
    BY <2>1 DEF FlattenSeq
  <2> QED  BY <1>3, <2>2 DEF Joins
<1>4. CASE m # 0
  <2> DEFINE Unfolds(g) == g = [k \in 1..Len(part) |-> IF k = 1 THEN part[k] ELSE g[k - 1] \o part[k]]
  <2>1. FlattenSeq(part) = (CHOOSE g : Unfolds(g))[m]
    BY <1>2, <1>4 DEF FlattenSeq
  <2>2. Unfolds([k \in 1..m |-> f[k]])
    <3>1. ASSUME NEW k \in 1..m, k # 1 PROVE f[k] = [j \in 1..m |-> f[j]][k - 1] \o part[k]
      <4>1. k - 1 \in 1..m /\ k \in 1..n
        BY <1>1, <3>1
      <4>2. f[k] = f[k - 1] \o seqs[k]
        BY <4>1 DEF Joins
      <4> QED  BY <1>2, <4>1, <4>2
    <3>2. f[1] = part[1]
      <4>1. 1 \in 1..n /\ 1 \in 1..m /\ 1 - 1 = 0
        BY <1>1, <1>4
      <4>2. Len(seqs[1]) \in Nat /\ IsList(seqs[1], Len(seqs[1]))
        BY <4>1 DEF Lists
      <4>3. f[1] = <<>> \o seqs[1]
        BY <4>1 DEF Joins
      <4>4. f[1] = seqs[1]
        BY <4>2, <4>3, ListSeq
      <4> QED  BY <1>2, <4>1, <4>4
    <3> QED  BY <1>2, <3>1, <3>2
  <2> DEFINE g == CHOOSE h : Unfolds(h)
  <2>3. Unfolds(g)
    BY <2>2, Zenon
  <2> HIDE DEF g
  <2> DEFINE T == {k \in 0..m : k = 0 \/ g[k] = f[k]}
  <2>4. 0 \in T
    BY <1>1
  <2>5. ASSUME NEW k \in 1..m, k - 1 \in T PROVE k \in T
    <3>1. k \in 1..n /\ k \in 0..m
      BY <1>1
    <3>2. g[k] = IF k = 1 THEN part[k] ELSE g[k - 1] \o part[k]
      BY <1>2, <2>3
    <3>3. f[k] = f[k - 1] \o part[k]
      BY <1>2, <3>1 DEF Joins
    <3>4. CASE k = 1
      <4>1. [j \in 1..m |-> f[j]][1] = part[1]
        BY <1>2, <2>2, <3>4
      <4> QED  BY <3>1, <3>2, <3>4, <4>1
    <3>5. CASE k # 1
      <4>1. k - 1 # 0 /\ g[k - 1] = f[k - 1]
        BY <2>5, <3>5
      <4> QED  BY <3>1, <3>2, <3>3, <3>5, <4>1
    <3> QED  BY <3>4, <3>5
  <2> HIDE DEF T
  <2>6. \A k \in 0..m : k \in T
    BY <1>1, <2>4, <2>5, UpTo
  <2>7. m \in T
    BY <1>1, <2>6
  <2> QED  BY <1>4, <2>1, <2>7 DEF T, g
<1> QED  BY <1>3, <1>4

(***************************************************************************)
(* Collections by name.                                                    *)
(***************************************************************************)

\* What a joined collection holds.
LEMMA JoinedHolds ==
    ASSUME NEW f, NEW g
    PROVE  /\ DOMAIN Joined(f, g) = DOMAIN f \cup DOMAIN g
           /\ \A x \in DOMAIN f : Joined(f, g)[x] = f[x]
           /\ \A x \in DOMAIN g : x \notin DOMAIN f => Joined(f, g)[x] = g[x]
BY DEF Joined

\* Something of the first collection, and something only the second one has.
LEMMA JoinedFirst ==
    ASSUME NEW f, NEW g, NEW x \in DOMAIN f
    PROVE  x \in DOMAIN Joined(f, g) /\ Joined(f, g)[x] = f[x]
BY DEF Joined

\* What the second collection adds.
LEMMA JoinedSecond ==
    ASSUME NEW f, NEW g, NEW x \in DOMAIN g, x \notin DOMAIN f
    PROVE  x \in DOMAIN Joined(f, g) /\ Joined(f, g)[x] = g[x]
BY DEF Joined

\* The families join collections in the same way.
LEMMA SharedJoined ==
    ASSUME NEW f, NEW g
    PROVE  /\ O!Joined(f, g) = Joined(f, g) /\ Q3!Joined(f, g) = Joined(f, g)
           /\ Q35!Joined(f, g) = Joined(f, g)
BY DEF O!Joined, Q3!Joined, Q35!Joined, Joined

\* And name the parameters of a model in the same way.
LEMMA SharedParameters ==
    ASSUME NEW g, NEW l
    PROVE  /\ O!Parameters(g, l) = Parameters(g, l) /\ Q3!Parameters(g, l) = Parameters(g, l)
           /\ Q35!Parameters(g, l) = Parameters(g, l)
BY SharedJoined DEF O!Parameters, Q3!Parameters, Q35!Parameters, Parameters

\* A name of one kind is never one of another.
LEMMA KindsDiffer ==
    ASSUME NEW a, NEW b, NEW c, NEW d, NEW e, NEW f
    PROVE  <<a>> # <<b, c>> /\ <<a>> # <<d, e, f>> /\ <<b, c>> # <<d, e, f>>
<1>1. Len(<<a>>) = 1 /\ Len(<<b, c>>) = 2 /\ Len(<<d, e, f>>) = 3
  OBVIOUS
<1> QED  BY <1>1

LayerParameterNames(ofLayer) == UNION {{<<l, n>> : n \in DOMAIN ofLayer[l]} : l \in DOMAIN ofLayer}

\* The parameters of a model are the global ones and those of each layer.
LEMMA ParameterNames ==
    ASSUME NEW global, NEW ofLayer
    PROVE  DOMAIN Parameters(global, ofLayer) =
               {<<g>> : g \in DOMAIN global} \cup LayerParameterNames(ofLayer)
<1> DEFINE G == [name \in {<<g>> : g \in DOMAIN global} |-> global[name[1]]]
           L == [name \in LayerParameterNames(ofLayer) |-> ofLayer[name[1]][name[2]]]
<1>1. Parameters(global, ofLayer) = Joined(G, L)
  BY DEF Parameters, LayerParameterNames
<1>2. DOMAIN G = {<<g>> : g \in DOMAIN global} /\ DOMAIN L = LayerParameterNames(ofLayer)
  OBVIOUS
<1> HIDE DEF G, L
<1> QED  BY <1>1, <1>2, JoinedHolds

\* One global parameter.
LEMMA GlobalParameter ==
    ASSUME NEW global, NEW ofLayer, NEW g \in DOMAIN global
    PROVE  /\ <<g>> \in DOMAIN Parameters(global, ofLayer)
           /\ Parameters(global, ofLayer)[<<g>>] = global[g]
<1> DEFINE G == [name \in {<<h>> : h \in DOMAIN global} |-> global[name[1]]]
           L == [name \in LayerParameterNames(ofLayer) |-> ofLayer[name[1]][name[2]]]
<1>1. Parameters(global, ofLayer) = Joined(G, L)
  BY DEF Parameters, LayerParameterNames
<1>2. <<g>> \in DOMAIN G /\ G[<<g>>] = global[g]
  OBVIOUS
<1> HIDE DEF G, L
<1> QED  BY <1>1, <1>2, JoinedFirst

\* One parameter of one layer.
LEMMA LayerParameter ==
    ASSUME NEW global, NEW ofLayer, NEW l \in DOMAIN ofLayer, NEW n \in DOMAIN ofLayer[l]
    PROVE  /\ <<l, n>> \in DOMAIN Parameters(global, ofLayer)
           /\ Parameters(global, ofLayer)[<<l, n>>] = ofLayer[l][n]
<1> DEFINE G == [name \in {<<g>> : g \in DOMAIN global} |-> global[name[1]]]
           L == [name \in LayerParameterNames(ofLayer) |-> ofLayer[name[1]][name[2]]]
<1>1. Parameters(global, ofLayer) = Joined(G, L)
  BY DEF Parameters, LayerParameterNames
<1>2. <<l, n>> \in DOMAIN L /\ <<l, n>> \notin DOMAIN G /\ L[<<l, n>>] = ofLayer[l][n]
  <2>1. <<l, n>> \in LayerParameterNames(ofLayer)
    BY DEF LayerParameterNames
  <2>2. <<l, n>> \notin {<<g>> : g \in DOMAIN global}
    BY KindsDiffer
  <2> QED  BY <2>1, <2>2
<1> HIDE DEF G, L
<1> QED  BY <1>1, <1>2, JoinedSecond

(***************************************************************************)
(* Sizes.                                                                  *)
(***************************************************************************)

\* f[k] is the product of the first k dimensions.
Products(f, shape, n) == f[0] = 1 /\ \A k \in 1..n : f[k] = f[k - 1] * shape[k]

\* The recursion over the dimensions of a shape has a solution.
LEMMA ProductExists ==
    ASSUME NEW shape, NEW n \in Nat
    PROVE  \E f : Products(f, shape, n)
<1> DEFINE T == {k \in 0..n : \E f : Products(f, shape, k)}
<1>2. 0 \in T
  <2>1. Products([i \in 0..n |-> 1], shape, 0)
    BY DEF Products
  <2> QED  BY <2>1
<1>3. ASSUME NEW k \in 1..n, k - 1 \in T PROVE k \in T
  <2>1. PICK f : Products(f, shape, k - 1)
    BY <1>3
  <2> DEFINE last == f[k - 1] * shape[k]
             g == [i \in 0..n |-> IF i < k THEN f[i] ELSE last]
  <2>2. g[0] = 1
    BY <2>1 DEF Products
  <2>3. ASSUME NEW i \in 1..k PROVE g[i] = g[i - 1] * shape[i]
    <3>1. i \in Nat /\ i - 1 \in 0..n /\ i \in 0..n /\ k \in Nat /\ i - 1 < k /\ i <= k
      OBVIOUS
    <3>2. CASE i < k
      <4>1. i \in 1..(k - 1)
        BY <3>1, <3>2
      <4>2. f[i] = f[i - 1] * shape[i]
        BY <2>1, <4>1 DEF Products
      <4> QED  BY <3>1, <3>2, <4>2
    <3>3. CASE ~(i < k)
      <4>1. i = k /\ g[i - 1] = f[k - 1]
        BY <3>1, <3>3
      <4>2. g[i] = last
        BY <3>1, <3>3
      <4> QED  BY <4>1, <4>2
    <3> QED  BY <3>2, <3>3
  <2>4. Products(g, shape, k)
    BY <2>2, <2>3 DEF Products
  <2> QED  BY <2>4
<1> HIDE DEF T
<1>4. \A k \in 0..n : k \in T
  BY <1>2, <1>3, UpTo
<1>5. n \in T
  BY <1>4
<1> QED  BY <1>5 DEF T

\* A shape has a whole number of elements.
LEMMA ElementsNat ==
    ASSUME NEW shape \in Seq(Nat)
    PROVE  Elements(shape) \in Nat
<1> DEFINE n == Len(shape)
           Unfolds(p) == p = [k \in 0..n |-> IF k = 0 THEN 1 ELSE p[k - 1] * shape[k]]
           f == CHOOSE p : Unfolds(p)
<1>0. n \in Nat /\ \A k \in 1..n : shape[k] \in Nat
  OBVIOUS
<1>1. Elements(shape) = f[n]
  BY DEF Elements
<1>2. PICK g : Products(g, shape, n)
  BY <1>0, ProductExists
<1> HIDE DEF n
<1>3. Unfolds([k \in 0..n |-> g[k]])
  <2> DEFINE h == [k \in 0..n |-> g[k]]
  <2>1. ASSUME NEW k \in 0..n, k # 0 PROVE g[k] = h[k - 1] * shape[k]
    <3>1. k \in 1..n /\ k - 1 \in 0..n
      BY <1>0, <2>1
    <3>2. g[k] = g[k - 1] * shape[k]
      BY <1>2, <3>1 DEF Products
    <3> QED  BY <3>1, <3>2
  <2>2. g[0] = 1
    BY <1>2 DEF Products
  <2> QED  BY <2>1, <2>2
<1>4. Unfolds(f)
  BY <1>3, Zenon
<1> HIDE DEF f
<1> DEFINE T == {k \in 0..n : f[k] \in Nat}
<1>5. 0 \in T
  BY <1>0, <1>4
<1>6. ASSUME NEW k \in 1..n, k - 1 \in T PROVE k \in T
  <2>1. k \in 0..n /\ k # 0
    BY <1>0
  <2>2. f[k] = f[k - 1] * shape[k] /\ f[k - 1] \in Nat /\ shape[k] \in Nat
    BY <1>0, <1>4, <1>6, <2>1
  <2>3. \A a, b \in Nat : a * b \in Nat
    OBVIOUS
  <2>4. f[k] \in Nat
    BY <2>2, <2>3
  <2> QED  BY <2>1, <2>4
<1> HIDE DEF T
<1>7. \A k \in 0..n : k \in T
  BY <1>0, <1>5, <1>6, UpTo
<1>8. n \in T
  BY <1>0, <1>7
<1> QED  BY <1>1, <1>8 DEF T

(***************************************************************************)
(* One record and one group of records.                                    *)
(***************************************************************************)

\* The larger of two numbers.
LEMMA MaxOfTwo ==
    ASSUME NEW a \in Int, NEW b \in Int
    PROVE  Max({a, b}) = IF a >= b THEN a ELSE b
BY DEF Max

IsBytes(s) == Len(s) \in Nat /\ IsList(s, Len(s))

IsGeometry(moe) == moe.hidden \in Nat /\ moe.intermediate \in Nat /\ moe.experts \in Nat

\* A section has a whole number of bytes.
LEMMA SectionNat ==
    ASSUME NEW moe, IsGeometry(moe), NEW scalar
    PROVE  SectionBytes(moe, scalar) \in Nat
<1>1. moe.hidden * moe.intermediate \in Nat
  BY DEF IsGeometry
<1>2. ByteWidth(scalar) \in Nat
  BY DEF ByteWidth
<1>3. \A a, b \in Nat : a * b \in Nat
  OBVIOUS
<1> QED  BY <1>1, <1>2, <1>3 DEF SectionBytes

\* Three sections of one size, one after the other, are cut back into the three.
LEMMA PayloadCut ==
    ASSUME NEW s \in Nat, NEW gate, NEW up, NEW down,
           IsList(gate, s), IsList(up, s), IsList(down, s), NEW bytes, bytes = Payload(gate, up, down)
    PROVE  /\ Len(bytes) = 3 * s
           /\ SubSeq(bytes, 0 * s + 1, (0 + 1) * s) = gate
           /\ SubSeq(bytes, 1 * s + 1, (1 + 1) * s) = up
           /\ SubSeq(bytes, 2 * s + 1, (2 + 1) * s) = down
<1> DEFINE front == gate \o up
<1>1. Concatenates(gate, s, up, s)
  BY ListConcat
<1>2. s + s \in Nat
  OBVIOUS
<1>3. Concatenates(front, s + s, down, s)
  <2>1. IsList(front, s + s)
    BY <1>1 DEF Concatenates
  <2> HIDE DEF front
  <2> QED  BY <1>2, <2>1, ListConcat
<1>4. bytes = front \o down
  BY DEF Payload
<1>5. /\ Len(bytes) = (s + s) + s
      /\ \A k \in 1..(s + s) : bytes[k] = front[k]
      /\ \A k \in 1..s : bytes[(s + s) + k] = down[k]
  BY <1>3, <1>4 DEF Concatenates
<1>6. (\A k \in 1..s : front[k] = gate[k]) /\ (\A k \in 1..s : front[s + k] = up[k])
  BY <1>1 DEF Concatenates
<1> HIDE DEF front
<1>7. ASSUME NEW a \in Nat, NEW part, IsList(part, s), \A k \in 1..s : bytes[a + k] = part[k]
      PROVE  SubSeq(bytes, a + 1, (a + 1) + s - 1) = part
  <2> DEFINE cut == SubSeq(bytes, a + 1, (a + 1) + s - 1)
  <2>1. IsCut(cut, bytes, a + 1, s)
    <3>1. a + 1 \in Int
      OBVIOUS
    <3> QED  BY <3>1, ListCut
  <2> HIDE DEF cut
  <2>2. ASSUME NEW k \in 1..s PROVE cut[k] = part[k]
    <3>1. (a + 1) + k - 1 = a + k
      OBVIOUS
    <3> QED  BY <1>7, <2>1, <3>1 DEF IsCut
  <2>3. cut = part
    BY <1>7, <2>1, <2>2, ListEqual DEF IsCut
  <2> QED  BY <2>3 DEF cut
<1>8. SubSeq(bytes, 0 + 1, (0 + 1) + s - 1) = gate
  <2>1. \A k \in 1..s : bytes[0 + k] = gate[k]
    BY <1>5, <1>6
  <2> QED  BY <1>7, <2>1
<1>9. SubSeq(bytes, s + 1, (s + 1) + s - 1) = up
  <2>1. \A k \in 1..s : bytes[s + k] = up[k]
    <3>1. \A k \in 1..s : s + k \in 1..(s + s)
      OBVIOUS
    <3> QED  BY <1>5, <1>6, <3>1
  <2> QED  BY <1>7, <2>1
<1>10. SubSeq(bytes, (s + s) + 1, ((s + s) + 1) + s - 1) = down
  BY <1>2, <1>5, <1>7
<1>11. /\ 0 * s + 1 = 0 + 1 /\ (0 + 1) * s = (0 + 1) + s - 1
       /\ 1 * s + 1 = s + 1 /\ (1 + 1) * s = (s + 1) + s - 1
       /\ 2 * s + 1 = (s + s) + 1 /\ (2 + 1) * s = ((s + s) + 1) + s - 1 /\ 3 * s = (s + s) + s
  OBVIOUS
<1> QED  BY <1>5, <1>8, <1>9, <1>10, <1>11

\* The record of matrices that were read, or Refused.
RecordOf(moe, read) == EncodeRaw(moe, read.scalar, read.gate, read.up, read.down)

ReadsBytes(read) == IsBytes(read.gate) /\ IsBytes(read.up) /\ IsBytes(read.down)

Matrices(read) == [gate |-> read.gate, up |-> read.up, down |-> read.down]

\* A record that was written parses to the matrices it was written of.
LEMMA RecordRoundTrip ==
    ASSUME NEW moe, IsGeometry(moe), NEW read, ReadsBytes(read), RecordOf(moe, read) # Refused
    PROVE  LET s == SectionBytes(moe, read.scalar)  record == RecordOf(moe, read) IN
           /\ Len(read.gate) = s /\ Len(read.up) = s /\ Len(read.down) = s
           /\ EncodedLength(record) = HeaderBytes + 3 * s
           /\ record.scalar = read.scalar
           /\ CanParse(record, moe) /\ Parse(record, moe) = Matrices(read)
<1> DEFINE s == SectionBytes(moe, read.scalar)
           record == RecordOf(moe, read)
           bytes == Payload(read.gate, read.up, read.down)
<1>1. s \in Nat
  BY SectionNat
<1>2. /\ DoesFit(RecordBytes(s))
      /\ \A x \in {read.gate, read.up, read.down} : Len(x) = s /\ ValidScalars(x, read.scalar)
      /\ record = [scalar |-> read.scalar, hidden |-> moe.hidden, intermediate |-> moe.intermediate,
                   lengths |-> <<s, s, s>>, payload |-> 3 * s, bytes |-> bytes]
  BY DEF RecordOf, EncodeRaw
<1>3. /\ record.scalar = read.scalar /\ record.hidden = moe.hidden
      /\ record.intermediate = moe.intermediate /\ record.lengths = <<s, s, s>>
      /\ record.payload = 3 * s /\ record.bytes = bytes
  BY <1>2
<1>4. IsList(read.gate, s) /\ IsList(read.up, s) /\ IsList(read.down, s)
  BY <1>2 DEF ReadsBytes, IsBytes
<1> HIDE DEF s, bytes, record
<1>5. /\ Len(bytes) = 3 * s
      /\ SubSeq(bytes, 0 * s + 1, (0 + 1) * s) = read.gate
      /\ SubSeq(bytes, 1 * s + 1, (1 + 1) * s) = read.up
      /\ SubSeq(bytes, 2 * s + 1, (2 + 1) * s) = read.down
  BY <1>1, <1>4, PayloadCut DEF bytes
<1>6. EncodedLength(record) = HeaderBytes + 3 * s
  BY <1>3, <1>5 DEF EncodedLength
<1>7. ASSUME NEW n \in 0..2
      PROVE  ValidScalars(SubSeq(bytes, n * s + 1, (n + 1) * s), read.scalar)
  <2>1. n = 0 \/ n = 1 \/ n = 2
    OBVIOUS
  <2> QED  BY <1>2, <1>5, <2>1
<1>8. CanParse(record, moe) /\ Parse(record, moe) = Matrices(read)
  <2>1. SectionBytes(moe, record.scalar) = s
    BY <1>3 DEF s
  <2>2. EncodedLength(record) = RecordBytes(s)
    BY <1>6 DEF RecordBytes
  <2> QED  BY <1>2, <1>3, <1>5, <1>7, <2>1, <2>2 DEF CanParse, Section, Parse, Matrices
<1> QED  BY <1>2, <1>3, <1>6, <1>8 DEF s, record

\* Where a group starts: nothing read yet.
Fresh(scalar) == [records |-> <<>>, retained |-> 0, scalar |-> scalar, peak |-> 0, live |-> 0]

\* The step that adds the k-th expert of a group.
Added(work, read, group, moe, options, k) ==
    AddRecord(work, read[group.first + k - 1], moe,
              PackedName(group.layer, group.first + k - 1), options)

\* f[k] is what a group has come to after its first k experts.
Works(f, read, group, moe, options, scalar, n) ==
    f[0] = Fresh(scalar) /\ \A k \in 1..n : f[k] = Added(f[k - 1], read, group, moe, options, k)

\* The recursion over the experts of a group has a solution.
LEMMA WorkExists ==
    ASSUME NEW read, NEW group, NEW moe, NEW options, NEW scalar, NEW n \in Nat
    PROVE  \E f : Works(f, read, group, moe, options, scalar, n)
<1> DEFINE T == {k \in 0..n : \E f : Works(f, read, group, moe, options, scalar, k)}
<1>2. 0 \in T
  <2>1. Works([i \in 0..n |-> Fresh(scalar)], read, group, moe, options, scalar, 0)
    BY DEF Works
  <2> QED  BY <2>1
<1>3. ASSUME NEW k \in 1..n, k - 1 \in T PROVE k \in T
  <2>1. PICK f : Works(f, read, group, moe, options, scalar, k - 1)
    BY <1>3
  <2> DEFINE last == Added(f[k - 1], read, group, moe, options, k)
             g == [i \in 0..n |-> IF i < k THEN f[i] ELSE last]
  <2>2. g[0] = Fresh(scalar)
    BY <2>1 DEF Works
  <2>3. ASSUME NEW i \in 1..k PROVE g[i] = Added(g[i - 1], read, group, moe, options, i)
    <3>1. i \in Nat /\ i - 1 \in 0..n /\ i \in 0..n /\ k \in Nat /\ i - 1 < k /\ i <= k
      OBVIOUS
    <3>2. CASE i < k
      <4>1. i \in 1..(k - 1)
        BY <3>1, <3>2
      <4>2. f[i] = Added(f[i - 1], read, group, moe, options, i)
        BY <2>1, <4>1 DEF Works
      <4> QED  BY <3>1, <3>2, <4>2
    <3>3. CASE ~(i < k)
      <4>1. i = k /\ g[i - 1] = f[k - 1]
        BY <3>1, <3>3
      <4>2. g[i] = last
        BY <3>1, <3>3
      <4> QED  BY <4>1, <4>2
    <3> QED  BY <3>2, <3>3
  <2>4. Works(g, read, group, moe, options, scalar, k)
    BY <2>2, <2>3 DEF Works
  <2> QED  BY <2>4
<1> HIDE DEF T
<1>4. \A k \in 0..n : k \in T
  BY <1>2, <1>3, UpTo
<1>5. n \in T
  BY <1>4
<1> QED  BY <1>5 DEF T

\* A group is what its recursion gives in the end.
LEMMA GroupWorks ==
    ASSUME NEW read, NEW group, NEW moe, NEW options, NEW scalar, NEW n \in Nat,
           n = group.end - group.first
    PROVE  \E f : /\ Works(f, read, group, moe, options, scalar, n)
                  /\ ConvertGroup(read, group, moe, options, scalar) = f[n]
<1> DEFINE Unfolds(w) == w = [k \in 0..n |-> IF k = 0 THEN Fresh(scalar)
                                             ELSE Added(w[k - 1], read, group, moe, options, k)]
           f == CHOOSE w : Unfolds(w)
<1>1. ConvertGroup(read, group, moe, options, scalar) = f[n]
  BY DEF ConvertGroup, Fresh, Added
<1>2. PICK g : Works(g, read, group, moe, options, scalar, n)
  BY WorkExists
<1>3. Unfolds([k \in 0..n |-> g[k]])
  <2> DEFINE h == [k \in 0..n |-> g[k]]
  <2>1. ASSUME NEW k \in 0..n, k # 0
        PROVE  g[k] = Added(h[k - 1], read, group, moe, options, k)
    <3>1. k \in 1..n /\ k - 1 \in 0..n
      BY <2>1
    <3>2. g[k] = Added(g[k - 1], read, group, moe, options, k)
      BY <1>2, <3>1 DEF Works
    <3> QED  BY <3>1, <3>2
  <2>2. g[0] = Fresh(scalar)
    BY <1>2 DEF Works
  <2> QED  BY <2>1, <2>2
<1>4. Unfolds(f)
  BY <1>3, Zenon
<1> HIDE DEF f
<1>5. f[0] = Fresh(scalar)
  BY <1>4
<1>6. ASSUME NEW k \in 1..n PROVE f[k] = Added(f[k - 1], read, group, moe, options, k)
  <2>1. k \in 0..n /\ k # 0
    OBVIOUS
  <2> QED  BY <1>4, <2>1
<1>7. Works(f, read, group, moe, options, scalar, n)
  BY <1>5, <1>6 DEF Works
<1> QED  BY <1>1, <1>7

\* What is known of a group after its first n experts: each was read and packed
\* under its name, all with one scalar type, in buffers that were counted.
Packed(w, read, group, moe, options, scalar, n) ==
    /\ IsList(w.records, n)
    /\ \A k \in 1..n : LET e == group.first + k - 1 IN
         /\ read[e] # Refused /\ RecordOf(moe, read[e]) # Refused
         /\ read[e].scalar = w.scalar /\ read[e].scalar \in Scalars
         /\ w.records[k] = <<PackedName(group.layer, e), RecordOf(moe, read[e])>>
    /\ n = 0 \/ scalar # "any" => w.scalar = scalar
    /\ w.retained \in Nat /\ w.peak \in Nat /\ w.live \in Nat
    /\ w.live <= w.peak /\ (w.peak = 0 \/ w.peak <= options.maxBuffer)

\* One expert more.
LEMMA PackedStep ==
    ASSUME NEW w, NEW read, NEW group, NEW moe, NEW options, NEW scalar, NEW n \in Nat,
           IsGeometry(moe), w # Refused, Packed(w, read, group, moe, options, scalar, n),
           options.maxBuffer \in Nat,
           NEW v, v = Added(w, read, group, moe, options, n + 1), v # Refused,
           NEW e, e = group.first + (n + 1) - 1,
           read[e] # Refused => ReadsBytes(read[e]) /\ read[e].scalar \in Scalars
    PROVE  Packed(v, read, group, moe, options, scalar, n + 1)
<1> DEFINE r == read[e]
           record == RecordOf(moe, r)
           name == PackedName(group.layer, e)
           sourceBytes == Len(r.gate) + Len(r.up) + Len(r.down)
           buffered == Buffered(w.retained, sourceBytes)
           held == w.retained + sourceBytes + EncodedLength(record)
<1>1. v = AddRecord(w, r, moe, name, options)
  BY DEF Added
<1>2. /\ r # Refused /\ (w.scalar # "any" => r.scalar = w.scalar)
      /\ EnsureBound(buffered, options.maxBuffer) /\ record # Refused
      /\ v = [records |-> Append(w.records, <<name, record>>),
              retained |-> w.retained + EncodedLength(record), scalar |-> r.scalar,
              peak |-> Max({w.peak, buffered}), live |-> Max({w.live, held})]
  BY <1>1 DEF AddRecord, RecordOf
<1>3. ReadsBytes(r) /\ r.scalar \in Scalars
  BY <1>2
<1>4. /\ EncodedLength(record) = HeaderBytes + 3 * SectionBytes(moe, r.scalar)
      /\ sourceBytes = SectionBytes(moe, r.scalar) + SectionBytes(moe, r.scalar) + SectionBytes(moe, r.scalar)
  BY <1>2, <1>3, RecordRoundTrip
<1>5. SectionBytes(moe, r.scalar) \in Nat
  BY SectionNat
<1> HIDE DEF r, record, name, sourceBytes, buffered, held
<1>6. /\ EncodedLength(record) \in Nat /\ sourceBytes \in Nat
      /\ EncodedLength(record) = sourceBytes + HeaderBytes
  BY <1>4, <1>5 DEF HeaderBytes
<1>7. w.retained \in Nat /\ w.peak \in Nat /\ w.live \in Nat /\ w.live <= w.peak
  BY DEF Packed
<1>8. buffered \in Nat /\ held \in Nat /\ held <= buffered /\ buffered <= options.maxBuffer
  BY <1>2, <1>6, <1>7, SMTT(30) DEF Buffered, buffered, held, EnsureBound, HeaderBytes
<1>9. /\ Max({w.peak, buffered}) = IF w.peak >= buffered THEN w.peak ELSE buffered
      /\ Max({w.live, held}) = IF w.live >= held THEN w.live ELSE held
  BY <1>7, <1>8, MaxOfTwo
<1>10. /\ v.retained \in Nat /\ v.peak \in Nat /\ v.live \in Nat /\ v.live <= v.peak
       /\ v.peak <= options.maxBuffer
  <2>1. w.peak = 0 \/ w.peak <= options.maxBuffer
    BY DEF Packed
  <2>2. /\ v.retained = w.retained + EncodedLength(record)
        /\ v.peak = Max({w.peak, buffered}) /\ v.live = Max({w.live, held})
    BY <1>2
  <2> QED  BY <1>6, <1>7, <1>8, <1>9, <2>1, <2>2
<1>11. Appends(w.records, n, <<name, record>>)
  BY ListAppend DEF Packed
<1>12. v.records = Append(w.records, <<name, record>>) /\ v.scalar = r.scalar
  BY <1>2
<1>13. scalar # "any" => v.scalar = scalar
  BY <1>2, <1>12 DEF Packed
<1>14. ASSUME NEW k \in 1..(n + 1)
       PROVE  LET x == group.first + k - 1 IN
              /\ read[x] # Refused /\ RecordOf(moe, read[x]) # Refused
              /\ read[x].scalar = v.scalar /\ read[x].scalar \in Scalars
              /\ v.records[k] = <<PackedName(group.layer, x), RecordOf(moe, read[x])>>
  <2>1. CASE k = n + 1
    <3>1. group.first + k - 1 = e
      BY <2>1
    <3> QED  BY <1>2, <1>3, <1>11, <1>12, <2>1, <3>1 DEF r, record, name, Appends
  <2>2. CASE k # n + 1
    <3> DEFINE x == group.first + k - 1
    <3>1. k \in 1..n
      BY <2>2
    <3>2. /\ read[x] # Refused /\ RecordOf(moe, read[x]) # Refused
          /\ read[x].scalar = w.scalar /\ read[x].scalar \in Scalars
          /\ w.records[k] = <<PackedName(group.layer, x), RecordOf(moe, read[x])>>
      BY <3>1 DEF Packed
    <3>3. v.records[k] = w.records[k]
      BY <1>11, <1>12, <3>1 DEF Appends
    <3>4. v.scalar = w.scalar
      <4>1. w.scalar # "any"
        BY <3>2 DEF Scalars
      <4> QED  BY <1>2, <1>12, <4>1
    <3> QED  BY <3>2, <3>3, <3>4
  <2> QED  BY <2>1, <2>2
<1>15. IsList(v.records, n + 1)
  BY <1>11, <1>12 DEF Appends
<1>16. n + 1 = 0 \/ scalar # "any" => v.scalar = scalar
  BY <1>13
<1> QED  BY <1>10, <1>14, <1>15, <1>16 DEF Packed

\* What a group yields that is not refused: every expert of it was read and
\* packed, all with one scalar type.
LEMMA GroupPacked ==
    ASSUME NEW read, NEW group, NEW moe, NEW options, NEW scalar, IsGeometry(moe),
           options.maxBuffer \in Nat, NEW n \in Nat, n = group.end - group.first,
           \A k \in 1..n : read[group.first + k - 1] # Refused =>
               ReadsBytes(read[group.first + k - 1]) /\ read[group.first + k - 1].scalar \in Scalars,
           ConvertGroup(read, group, moe, options, scalar) # Refused
    PROVE  Packed(ConvertGroup(read, group, moe, options, scalar), read, group, moe, options,
                  scalar, n)
<1>1. PICK f : /\ Works(f, read, group, moe, options, scalar, n)
               /\ ConvertGroup(read, group, moe, options, scalar) = f[n]
  BY GroupWorks, SMTT(30)
<1>2. ASSUME NEW k \in 1..n, f[k] # Refused PROVE f[k - 1] # Refused
  <2>1. f[k] = Added(f[k - 1], read, group, moe, options, k)
    BY <1>1 DEF Works
  <2> QED  BY <1>2, <2>1 DEF Added, AddRecord
<1> DEFINE T == {k \in 0..n : f[k] # Refused =>
                                Packed(f[k], read, group, moe, options, scalar, k)}
<1>3. 0 \in T
  <2>1. f[0] = Fresh(scalar)
    BY <1>1 DEF Works
  <2>2. Packed(f[0], read, group, moe, options, scalar, 0)
    BY <2>1 DEF Packed, Fresh, IsList
  <2> QED  BY <2>2
<1>4. ASSUME NEW k \in 1..n, k - 1 \in T PROVE k \in T
  <2>1. SUFFICES ASSUME f[k] # Refused
                 PROVE  Packed(f[k], read, group, moe, options, scalar, k)
    OBVIOUS
  <2>2. /\ k - 1 \in Nat /\ (k - 1) + 1 = k /\ f[k - 1] # Refused
        /\ Packed(f[k - 1], read, group, moe, options, scalar, k - 1)
    BY <1>2, <1>4, <2>1
  <2>3. f[k] = Added(f[k - 1], read, group, moe, options, k)
    BY <1>1 DEF Works
  <2> DEFINE e == group.first + k - 1
  <2>4. read[e] # Refused => ReadsBytes(read[e]) /\ read[e].scalar \in Scalars
    OBVIOUS
  <2> HIDE DEF e
  <2>5. Packed(f[k], read, group, moe, options, scalar, (k - 1) + 1)
    <3>1. e = group.first + ((k - 1) + 1) - 1
      BY <2>2 DEF e
    <3>2. f[k] = Added(f[k - 1], read, group, moe, options, (k - 1) + 1)
      BY <2>2, <2>3
    <3> HIDE DEF T
    <3> QED  BY <2>1, <2>2, <2>4, <3>1, <3>2, PackedStep
  <2> QED  BY <2>2, <2>5
<1> HIDE DEF T
<1>5. \A k \in 0..n : k \in T
  BY <1>3, <1>4, UpTo
<1>6. n \in T
  BY <1>5
<1> QED  BY <1>1, <1>6 DEF T

\* The file of a group has one record for each of its experts, under its name.
LEMMA GroupWritten ==
    ASSUME NEW w, NEW read, NEW group, NEW moe, NEW options, NEW scalar, NEW n \in Nat,
           group.first \in Int, group.end \in Int, n = group.end - group.first,
           Packed(w, read, group, moe, options, scalar, n)
    PROVE  WritePackedRecords(w.records) =
               [name \in {PackedName(group.layer, e) : e \in GroupExperts(group)} |->
                    RecordOf(moe, read[name[2]])]
<1> DEFINE At(k) == group.first + k - 1
           l == group.layer
           Entry(e) == <<PackedName(l, e), RecordOf(moe, read[e])>>
<1>1. DOMAIN w.records = 1..n /\ \A k \in 1..n : w.records[k] = Entry(At(k))
  BY ListSeq DEF Packed
<1>2. /\ \A k \in 1..n : At(k) \in GroupExperts(group)
      /\ \A e \in GroupExperts(group) : e - group.first + 1 \in 1..n /\ At(e - group.first + 1) = e
  BY DEF GroupExperts
<1>3. Range(w.records) = {Entry(e) : e \in GroupExperts(group)}
  <2>1. \A k \in 1..n : w.records[k] \in {Entry(e) : e \in GroupExperts(group)}
    BY <1>1, <1>2
  <2>2. ASSUME NEW e \in GroupExperts(group) PROVE Entry(e) \in Range(w.records)
    <3>1. w.records[e - group.first + 1] = Entry(e) /\ e - group.first + 1 \in DOMAIN w.records
      BY <1>1, <1>2
    <3> QED  BY <3>1 DEF Range
  <2> QED  BY <1>1, <2>1, <2>2 DEF Range
<1>e. \A e : Entry(e)[1] = PackedName(l, e) /\ Entry(e)[2] = RecordOf(moe, read[e])
  OBVIOUS
<1> HIDE DEF Entry
<1>4. {r[1] : r \in Range(w.records)} = {PackedName(l, e) : e \in GroupExperts(group)}
  BY <1>3, <1>e
<1>5. ASSUME NEW e \in GroupExperts(group)
      PROVE  (CHOOSE r \in Range(w.records) : r[1] = PackedName(l, e))[2] = RecordOf(moe, read[e])
  <2>1. Entry(e) \in Range(w.records) /\ Entry(e)[1] = PackedName(l, e)
    BY <1>3, <1>e
  <2>2. PICK x \in GroupExperts(group) :
            /\ (CHOOSE r \in Range(w.records) : r[1] = PackedName(l, e)) = Entry(x)
            /\ Entry(x)[1] = PackedName(l, e)
    BY <1>3, <2>1
  <2>3. x = e
    <3>1. PackedName(l, x) = PackedName(l, e)
      BY <1>e, <2>2
    <3> QED  BY <3>1 DEF PackedName
  <2> QED  BY <1>e, <2>2, <2>3
<1>6. \A e : PackedName(l, e)[2] = e
  BY DEF PackedName
<1> DEFINE Names == {PackedName(l, e) : e \in GroupExperts(group)}
<1>7. ASSUME NEW name \in Names
      PROVE  (CHOOSE r \in Range(w.records) : r[1] = name)[2] = RecordOf(moe, read[name[2]])
  <2>1. PICK e \in GroupExperts(group) : name = PackedName(l, e)
    OBVIOUS
  <2> QED  BY <1>5, <1>6, <2>1
<1> HIDE DEF Names
<1>8. WritePackedRecords(w.records) =
        [name \in Names |-> (CHOOSE r \in Range(w.records) : r[1] = name)[2]]
  BY <1>4 DEF WritePackedRecords, Names
<1> QED  BY <1>7, <1>8 DEF Names

(***************************************************************************)
(* The families convert experts with the same operators.                   *)
(***************************************************************************)

\* One record is written in the same way by all.
LEMMA OlmoeEncode ==
    ASSUME NEW m, NEW s, NEW g, NEW u, NEW d
    PROVE  O!EncodeRaw(m, s, g, u, d) = EncodeRaw(m, s, g, u, d)
BY DEF O!EncodeRaw, EncodeRaw, O!SectionBytes, SectionBytes, O!DoesFit, DoesFit, O!RecordBytes, RecordBytes,
   O!ValidScalars, ValidScalars, O!Payload, Payload, O!ByteWidth, ByteWidth, O!HeaderBytes, HeaderBytes

\* Qwen3 encodes a record as the others do.
LEMMA Qwen3Encode ==
    ASSUME NEW m, NEW s, NEW g, NEW u, NEW d
    PROVE  Q3!EncodeRaw(m, s, g, u, d) = EncodeRaw(m, s, g, u, d)
BY DEF Q3!EncodeRaw, EncodeRaw, Q3!SectionBytes, SectionBytes, Q3!DoesFit, DoesFit, Q3!RecordBytes, RecordBytes,
   Q3!ValidScalars, ValidScalars, Q3!Payload, Payload, Q3!ByteWidth, ByteWidth, Q3!HeaderBytes, HeaderBytes

\* Qwen3.6 encodes a record as the others do.
LEMMA Qwen35Encode ==
    ASSUME NEW m, NEW s, NEW g, NEW u, NEW d
    PROVE  Q35!EncodeRaw(m, s, g, u, d) = EncodeRaw(m, s, g, u, d)
BY DEF Q35!EncodeRaw, EncodeRaw, Q35!SectionBytes, SectionBytes, Q35!DoesFit, DoesFit, Q35!RecordBytes, RecordBytes,
   Q35!ValidScalars, ValidScalars, Q35!Payload, Payload, Q35!ByteWidth, ByteWidth, Q35!HeaderBytes, HeaderBytes

\* So is the larger of two sizes computed.
LEMMA OlmoeMax ==
    ASSUME NEW S
    PROVE  O!Max(S) = Max(S)
BY DEF O!Max, Max

\* Qwen3 takes the same maximum.
LEMMA Qwen3Max ==
    ASSUME NEW S
    PROVE  Q3!Max(S) = Max(S)
BY DEF Q3!Max, Max

\* Qwen3.6 takes the same maximum.
LEMMA Qwen35Max ==
    ASSUME NEW S
    PROVE  Q35!Max(S) = Max(S)
BY DEF Q35!Max, Max

\* So is a record added to its group.
LEMMA OlmoeAdd ==
    ASSUME NEW w, NEW r, NEW m, NEW n, NEW o
    PROVE  O!AddRecord(w, r, m, n, o) = AddRecord(w, r, m, n, o)
BY OlmoeEncode, OlmoeMax DEF O!AddRecord, AddRecord, O!Buffered, Buffered, O!EnsureBound, EnsureBound,
   O!DoesFit, DoesFit, O!EncodedLength, EncodedLength, O!HeaderBytes, HeaderBytes

\* Qwen3 adds a record to a group as the others do.
LEMMA Qwen3Add ==
    ASSUME NEW w, NEW r, NEW m, NEW n, NEW o
    PROVE  Q3!AddRecord(w, r, m, n, o) = AddRecord(w, r, m, n, o)
BY Qwen3Encode, Qwen3Max DEF Q3!AddRecord, AddRecord, Q3!Buffered, Buffered, Q3!EnsureBound, EnsureBound,
   Q3!DoesFit, DoesFit, Q3!EncodedLength, EncodedLength, Q3!HeaderBytes, HeaderBytes

\* Qwen3.6 adds a record to a group as the others do.
LEMMA Qwen35Add ==
    ASSUME NEW w, NEW r, NEW m, NEW n, NEW o
    PROVE  Q35!AddRecord(w, r, m, n, o) = AddRecord(w, r, m, n, o)
BY Qwen35Encode, Qwen35Max DEF Q35!AddRecord, AddRecord, Q35!Buffered, Buffered, Q35!EnsureBound, EnsureBound,
   Q35!DoesFit, DoesFit, Q35!EncodedLength, EncodedLength, Q35!HeaderBytes, HeaderBytes

\* And a whole group converted.
LEMMA OlmoeGroup ==
    ASSUME NEW r, NEW g, NEW m, NEW o, NEW s
    PROVE  O!ConvertGroup(r, g, m, o, s) = ConvertGroup(r, g, m, o, s)
BY OlmoeAdd DEF O!ConvertGroup, ConvertGroup, O!PackedName, PackedName

\* Qwen3 converts a group as the others do.
LEMMA Qwen3Group ==
    ASSUME NEW r, NEW g, NEW m, NEW o, NEW s
    PROVE  Q3!ConvertGroup(r, g, m, o, s) = ConvertGroup(r, g, m, o, s)
BY Qwen3Add DEF Q3!ConvertGroup, ConvertGroup, Q3!PackedName, PackedName

\* Qwen3.6 converts a group as the others do.
LEMMA Qwen35Group ==
    ASSUME NEW r, NEW g, NEW m, NEW o, NEW s
    PROVE  Q35!ConvertGroup(r, g, m, o, s) = ConvertGroup(r, g, m, o, s)
BY Qwen35Add DEF Q35!ConvertGroup, ConvertGroup, Q35!PackedName, PackedName

\* Experts are read in the same way, where a family has the layout.
LEMMA SharedReads ==
    ASSUME NEW s, NEW m, NEW l, NEW e
    PROVE  /\ O!ReadSplit(s, m, l, e) = ReadSplit(s, m, l, e)
           /\ Q3!ReadSplit(s, m, l, e) = ReadSplit(s, m, l, e)
           /\ Q3!ReadFused(s, m, l, e) = ReadFused(s, m, l, e)
           /\ Q35!ReadFused(s, m, l, e) = ReadFused(s, m, l, e)
<1>1. O!ReadSplit(s, m, l, e) = ReadSplit(s, m, l, e)
  BY DEF O!ReadSplit, ReadSplit, O!MatrixNames, MatrixNames, O!Range, Range, O!Scalars, Scalars
<1>2. Q3!ReadSplit(s, m, l, e) = ReadSplit(s, m, l, e)
  BY DEF Q3!ReadSplit, ReadSplit, Q3!MatrixNames, MatrixNames, Q3!Range, Range, Q3!Scalars, Scalars
<1>3. Q3!ReadFused(s, m, l, e) = ReadFused(s, m, l, e)
  BY DEF Q3!ReadFused, ReadFused, Q3!FusedValid, FusedValid, Q3!FusedNames, FusedNames,
     Q3!Scalars, Scalars, Q3!SectionBytes, SectionBytes, Q3!ByteWidth, ByteWidth,
     Q3!Slice, Slice, Q3!GateUpOffset, GateUpOffset
<1>4. Q35!ReadFused(s, m, l, e) = ReadFused(s, m, l, e)
  BY DEF Q35!ReadFused, ReadFused, Q35!FusedValid, FusedValid, Q35!FusedNames, FusedNames,
     Q35!Scalars, Scalars, Q35!SectionBytes, SectionBytes, Q35!ByteWidth, ByteWidth,
     Q35!Slice, Slice, Q35!GateUpOffset, GateUpOffset
<1> QED  BY <1>1, <1>2, <1>3, <1>4

\* One expert of a source, read in one of the two layouts.
ReadAs(layout, s, moe, l, e) ==
    IF layout = "split" THEN ReadSplit(s, moe, l, e) ELSE ReadFused(s, moe, l, e)

ReadGroup(layout, s, moe, group) ==
    [e \in GroupExperts(group) |-> ReadAs(layout, s, moe, group.layer, e)]

\* The layout an opened checkpoint has is one its family knows.
KnownLayout(k) ==
    /\ k.config.family = "olmoe" => k.layout = "split"
    /\ k.config.family = "qwen3_moe" => k.layout \in {"split", "fused"}
    /\ k.config.family = "qwen3_5_moe" => k.layout = "fused"

\* Every family converts a group by reading its experts in the layout.
LEMMA ConvertsGroup ==
    ASSUME NEW s, NEW k, NEW g, NEW o, NEW scalar, Detect(k.config), KnownLayout(k)
    PROVE  ConvertExperts(s, k, g, o, scalar) =
               ConvertGroup(ReadGroup(k.layout, s, MoeConfig(k.config), g), g,
                            MoeConfig(k.config), o, scalar)
<1> DEFINE c == k.config
<1>0. O!GroupExperts(g) = GroupExperts(g) /\ Q3!GroupExperts(g) = GroupExperts(g)
      /\ Q35!GroupExperts(g) = GroupExperts(g)
  BY DEF O!GroupExperts, Q3!GroupExperts, Q35!GroupExperts, GroupExperts
<1>1. CASE c.family = "olmoe"
  <2>1. [e \in O!GroupExperts(g) |-> O!ReadSplit(s, O!MoeConfig(c), g.layer, e)]
          = ReadGroup(k.layout, s, MoeConfig(c), g)
    BY <1>0, <1>1, SharedReads DEF KnownLayout, ReadGroup, ReadAs, MoeConfig, InFamily
  <2>2. ConvertExperts(s, k, g, o, scalar) = O!ConvertExperts(s, c, k.layout, g, o, scalar)
        /\ MoeConfig(c) = O!MoeConfig(c)
    BY <1>1 DEF ConvertExperts, MoeConfig, InFamily
  <2> QED  BY <2>1, <2>2, OlmoeGroup DEF O!ConvertExperts
<1>2. CASE c.family = "qwen3_moe"
  <2>2. ConvertExperts(s, k, g, o, scalar) = Q3!ConvertExperts(s, c, k.layout, g, o, scalar)
        /\ MoeConfig(c) = Q3!MoeConfig(c)
    BY <1>2 DEF ConvertExperts, MoeConfig, InFamily
  <2>3. CASE k.layout = "split"
    <3>1. [e \in Q3!GroupExperts(g) |-> Q3!ReadSplit(s, Q3!MoeConfig(c), g.layer, e)]
            = ReadGroup(k.layout, s, MoeConfig(c), g)
      BY <1>0, <2>2, <2>3, SharedReads DEF ReadGroup, ReadAs
    <3> QED  BY <2>2, <2>3, <3>1, Qwen3Group DEF Q3!ConvertExperts, Q3!ConvertSplit
  <2>4. CASE k.layout # "split"
    <3>1. [e \in Q3!GroupExperts(g) |-> Q3!ReadFused(s, Q3!MoeConfig(c), g.layer, e)]
            = ReadGroup(k.layout, s, MoeConfig(c), g)
      BY <1>0, <2>2, <2>4, SharedReads DEF ReadGroup, ReadAs
    <3> QED  BY <2>2, <2>4, <3>1, Qwen3Group DEF Q3!ConvertExperts, Q3!ConvertFused
  <2> QED  BY <2>3, <2>4
<1>3. CASE c.family = "qwen3_5_moe"
  <2>1. [e \in Q35!GroupExperts(g) |-> Q35!ReadFused(s, Q35!MoeConfig(c), g.layer, e)]
          = ReadGroup(k.layout, s, MoeConfig(c), g)
    BY <1>0, <1>3, SharedReads DEF KnownLayout, ReadGroup, ReadAs, MoeConfig, InFamily
  <2>2. ConvertExperts(s, k, g, o, scalar) = Q35!ConvertExperts(s, c, k.layout, g, o, scalar)
        /\ MoeConfig(c) = Q35!MoeConfig(c)
    BY <1>3 DEF ConvertExperts, MoeConfig, InFamily
  <2> QED  BY <2>1, <2>2, Qwen35Group DEF Q35!ConvertExperts
<1> QED  BY <1>1, <1>2, <1>3 DEF Detect

(***************************************************************************)
(* The order of things: what is opened was published, and nothing changes  *)
(* it afterwards.                                                          *)
(***************************************************************************)

Phases == {"source", "opened", "packing", "published", "edited", "refused"}

\* An opened checkpoint is the job's source under the job's configuration.
SourceOpened ==
    /\ job \in Jobs /\ phase \in Phases
    /\ phase \notin {"source", "refused"} =>
         /\ Detect(job.config)
         /\ checkpoint = OpenCheckpoint(Source(job), job.config) /\ checkpoint # Refused

\* Whoever opened the directory saw it as it is, and so did whoever loaded it.
DirectoryStays ==
    /\ opened # None => phase \in {"published", "edited"}
    /\ opened \notin {None, Refused} =>
         /\ Accepts(directory)
         /\ opened = [config |-> directory.config, manifest |-> directory.manifest]
    /\ loaded \notin {None, Refused} =>
         opened \notin {None, Refused} /\ loaded = LoadPlain(directory, opened)

\* The initial state is in order.
LEMMA OrderInit == Init => SourceOpened /\ DirectoryStays
BY DEF Init, SourceOpened, DirectoryStays, Phases

\* Every step keeps the order.
LEMMA OrderStep == SourceOpened /\ DirectoryStays /\ [Next]_vars => SourceOpened' /\ DirectoryStays'
<1> SUFFICES ASSUME SourceOpened, DirectoryStays, [Next]_vars
             PROVE  SourceOpened' /\ DirectoryStays'
  OBVIOUS
<1>1. CASE OpenSource
  BY <1>1, Zenon DEF OpenSource, SourceOpened, DirectoryStays, Phases, Refuse
<1>2. CASE LoadResident
  BY <1>2 DEF LoadResident, SourceOpened, DirectoryStays
<1>3. CASE ConvertDenseTensors
  BY <1>3, Zenon DEF ConvertDenseTensors, SourceOpened, DirectoryStays, Phases, Refuse
<1>4. CASE ConvertGroupOfExperts
  BY <1>4, Zenon DEF ConvertGroupOfExperts, SourceOpened, DirectoryStays, Phases, Refuse
<1>5. CASE Publish
  BY <1>5, Zenon DEF Publish, SourceOpened, DirectoryStays, Phases, Refuse
<1>6. CASE Edit
  BY <1>6, Zenon DEF Edit, SourceOpened, DirectoryStays, Phases
<1>7. CASE Open
  BY <1>7, Zenon DEF Open, SourceOpened, DirectoryStays
<1>8. CASE Load
  BY <1>8, Zenon DEF Load, SourceOpened, DirectoryStays
<1>9. CASE UNCHANGED vars
  BY <1>9 DEF vars, SourceOpened, DirectoryStays
<1> QED  BY <1>1, <1>2, <1>3, <1>4, <1>5, <1>6, <1>7, <1>8, <1>9 DEF Next, Finished

\* What is opened was published and stays as it was opened.
THEOREM OrderCorrect == Spec => [](SourceOpened /\ DirectoryStays)
<1>1. Init => SourceOpened /\ DirectoryStays
  BY OrderInit
<1>2. (SourceOpened /\ DirectoryStays) /\ [Next]_vars => (SourceOpened /\ DirectoryStays)'
  BY OrderStep
<1> QED  BY <1>1, <1>2, PTL DEF Spec

(***************************************************************************)
(* The directory as it was published or edited.                            *)
(***************************************************************************)

\* An opened checkpoint has the configuration it was asked for, and that is a
\* valid one.
LEMMA OpenedConfig ==
    ASSUME NEW s, NEW c, Detect(c), OpenCheckpoint(s, c) # Refused
    PROVE  OpenCheckpoint(s, c).config = c /\ Validate(c)
<1>1. CASE c.family = "olmoe"
  BY <1>1 DEF OpenCheckpoint, Validate, InFamily, O!OpenCheckpoint
<1>2. CASE c.family = "qwen3_moe"
  BY <1>2 DEF OpenCheckpoint, Validate, InFamily, Q3!OpenCheckpoint
<1>3. CASE c.family = "qwen3_5_moe"
  BY <1>3 DEF OpenCheckpoint, Validate, InFamily, Q35!OpenCheckpoint
<1> QED  BY <1>1, <1>2, <1>3 DEF Detect

Fields == {"config", "tokenizer", "links", "dense", "experts", "manifest"}

IsDirectory(d) == d = [f \in Fields |-> d[f]]

IsManifest(m) ==
    /\ m = [f \in DOMAIN m |-> m[f]]
    /\ {"schema", "dense", "expert", "hidden", "intermediate", "layers", "experts",
        "scalar", "tokenizer", "perFile"} \subseteq DOMAIN m

\* What no edit touches: the digests and the family the manifest was written with.
Binding(m) == <<m.schema, m.dense, m.expert, m.hidden, m.intermediate, m.layers, m.experts>>

\* e is d with another configuration or another manifest, bound to the same weights.
Edited(d, e) ==
    /\ IsDirectory(e) /\ IsManifest(e.manifest)
    /\ e.config \in Variations(job.base) \/ e.config = d.config
    /\ Binding(e.manifest) = Binding(d.manifest)
    /\ e.manifest.scalar \in {d.manifest.scalar, Other(d.manifest.scalar)}

\* No edit reaches what the manifest binds.
LEMMA EditsKeepBinding ==
    ASSUME NEW d, IsDirectory(d), IsManifest(d.manifest), NEW e \in Edits(d)
    PROVE  Edited(d, e)
<1> DEFINE m == d.manifest
<1>0. DOMAIN d = Fields
  BY DEF IsDirectory
<1>1. ASSUME NEW c \in Variations(job.base), e = [d EXCEPT !.config = c]
      PROVE  Edited(d, e)
  BY <1>0, <1>1 DEF Edited, IsDirectory, Fields, Binding
<1>2. ASSUME NEW f \in {"tokenizer", "links", "dense", "experts"}, NEW x, e = [d EXCEPT ![f] = x]
      PROVE  Edited(d, e)
  BY <1>0, <1>2 DEF Edited, IsDirectory, Fields, Binding
<1>3. ASSUME NEW x, e = [d EXCEPT !.manifest = x], IsManifest(x), Binding(x) = Binding(m),
             x.scalar \in {m.scalar, Other(m.scalar)}
      PROVE  Edited(d, e)
  BY <1>0, <1>3 DEF Edited, IsDirectory, Fields
<1>4. ASSUME NEW x, NEW n
      PROVE  /\ x = [m EXCEPT !.scalar = n] \/ x = [m EXCEPT !.tokenizer = n]
                  \/ x = [m EXCEPT !.perFile = n] =>
                   IsManifest(x) /\ Binding(x) = Binding(m)
             /\ x = [m EXCEPT !.scalar = n] => x.scalar = n
             /\ x = [m EXCEPT !.tokenizer = n] \/ x = [m EXCEPT !.perFile = n] => x.scalar = m.scalar
  BY DEF IsManifest, Binding
<1>5. \/ \E c \in Variations(job.base) : e = [d EXCEPT !.config = c]
      \/ \E f \in {"tokenizer", "links", "dense", "experts"} : \E x : e = [d EXCEPT ![f] = x]
      \/ e = [d EXCEPT !.manifest = [m EXCEPT !.scalar = Other(m.scalar)]]
      \/ e = [d EXCEPT !.manifest = [m EXCEPT !.tokenizer = ~m.tokenizer]]
      \/ \E n : e = [d EXCEPT !.manifest = [m EXCEPT !.perFile = n]]
  BY <1>0 DEF Edits, Fields
<1>6. CASE e = [d EXCEPT !.manifest = [m EXCEPT !.scalar = Other(m.scalar)]]
  BY <1>3, <1>4, <1>6
<1>7. CASE e = [d EXCEPT !.manifest = [m EXCEPT !.tokenizer = ~m.tokenizer]]
  BY <1>3, <1>4, <1>7
<1>8. ASSUME NEW n, e = [d EXCEPT !.manifest = [m EXCEPT !.perFile = n]]
      PROVE  Edited(d, e)
  BY <1>3, <1>4, <1>8
<1> QED  BY <1>1, <1>2, <1>5, <1>6, <1>7, <1>8

\* What the packer wrote, but for what an edit may change.
DirectoryKept ==
    phase \in {"published", "edited"} =>
        /\ IsDirectory(directory) /\ IsManifest(directory.manifest)
        /\ directory.config \in Variations(job.base) \cup {job.config}
        /\ directory.manifest.schema = job.config.family
        /\ directory.manifest.hidden = job.config.hidden
        /\ directory.manifest.intermediate = job.config.intermediate
        /\ directory.manifest.layers = job.config.layers
        /\ directory.manifest.experts = job.config.experts
        /\ directory.manifest.dense = OnDisk(staged.dense)
        /\ directory.manifest.expert = OnDisk(staged.experts)
        /\ directory.manifest.scalar \in {staged.scalar, Other(staged.scalar)}
        /\ phase = "published" =>
             /\ directory.config = job.config /\ directory.manifest.scalar = staged.scalar
             /\ directory.experts = OnDisk(staged.experts)

\* What a conversion publishes is what it wrote.
LEMMA PublishBinds ==
    ASSUME SourceOpened, Publish, phase' = "published"
    PROVE  DirectoryKept'
<1> DEFINE c == job.config
           dense == Recorded(staged.dense)  experts == Recorded(staged.experts)
           m == Manifest(c, job, staged.scalar, job, dense, experts, job.tokenizer # None)
<1>1. Detect(c) /\ checkpoint.config = c
  BY OpenedConfig DEF SourceOpened, Publish
<1>2. /\ UNCHANGED <<job, staged>>
      /\ directory' = [config |-> c, tokenizer |-> job.tokenizer, links |-> FALSE,
                       dense |-> OnDisk(staged.dense), experts |-> OnDisk(staged.experts),
                       manifest |-> m]
  BY <1>1 DEF Publish, Refuse
<1>3. dense.digest = OnDisk(staged.dense) /\ experts.digest = OnDisk(staged.experts)
  BY DEF Recorded, OpenStore
<1> HIDE DEF dense, experts
<1>4. /\ IsManifest(m) /\ m.schema = c.family /\ m.scalar = staged.scalar
      /\ m.hidden = c.hidden /\ m.intermediate = c.intermediate
      /\ m.layers = c.layers /\ m.experts = c.experts
      /\ m.dense = dense.digest /\ m.expert = experts.digest
  <2>1. CASE c.family = "olmoe"
    BY <2>1 DEF Manifest, InFamily, O!Manifest, IsManifest
  <2>2. CASE c.family = "qwen3_moe"
    BY <2>2 DEF Manifest, InFamily, Q3!Manifest, IsManifest
  <2>3. CASE c.family = "qwen3_5_moe"
    BY <2>3 DEF Manifest, InFamily, Q35!Manifest, IsManifest
  <2> QED  BY <1>1, <2>1, <2>2, <2>3 DEF Detect
<1> HIDE DEF m, c
<1>5. IsDirectory(directory')
  BY <1>2 DEF IsDirectory, Fields
<1>6. /\ directory'.config = c /\ directory'.manifest = m
      /\ directory'.dense = OnDisk(staged.dense) /\ directory'.experts = OnDisk(staged.experts)
  BY <1>2
<1>7. OnDisk(staged.dense)' = OnDisk(staged.dense) /\ OnDisk(staged.experts)' = OnDisk(staged.experts)
  BY <1>2
<1> QED  BY <1>2, <1>3, <1>4, <1>5, <1>6, <1>7, Zenon DEF DirectoryKept, c

\* The binding survives every step.
LEMMA DirectoryStep ==
    SourceOpened /\ DirectoryStays /\ DirectoryKept /\ [Next]_vars => DirectoryKept'
<1> SUFFICES ASSUME SourceOpened, DirectoryStays, DirectoryKept, [Next]_vars
             PROVE  DirectoryKept'
  OBVIOUS
<1>1. CASE OpenSource \/ ConvertDenseTensors \/ ConvertGroupOfExperts
  <2>1. phase' \notin {"published", "edited"}
    BY <1>1 DEF OpenSource, ConvertDenseTensors, ConvertGroupOfExperts, Refuse
  <2> QED  BY <2>1 DEF DirectoryKept
<1>2. CASE UNCHANGED <<job, phase, staged, directory>>
  <2>1. OnDisk(staged.dense)' = OnDisk(staged.dense) /\ OnDisk(staged.experts)' = OnDisk(staged.experts)
    BY <1>2
  <2> QED  BY <1>2, <2>1 DEF DirectoryKept
<1>3. CASE Publish
  <2>1. CASE phase' = "published"
    BY <1>3, <2>1, PublishBinds
  <2>2. CASE phase' # "published"
    BY <1>3, <2>2 DEF Publish, Refuse, DirectoryKept
  <2> QED  BY <2>1, <2>2
<1>4. CASE Edit
  <2>1. /\ UNCHANGED <<job, staged>> /\ phase = "published" /\ phase' = "edited"
        /\ directory' \in Edits(directory)
    BY <1>4 DEF Edit
  <2>2. IsDirectory(directory) /\ IsManifest(directory.manifest)
    BY <2>1 DEF DirectoryKept
  <2>3. Edited(directory, directory')
    BY <2>1, <2>2, EditsKeepBinding
  <2>4. /\ directory'.manifest.schema = directory.manifest.schema
        /\ directory'.manifest.hidden = directory.manifest.hidden
        /\ directory'.manifest.intermediate = directory.manifest.intermediate
        /\ directory'.manifest.layers = directory.manifest.layers
        /\ directory'.manifest.experts = directory.manifest.experts
        /\ directory'.manifest.dense = directory.manifest.dense
        /\ directory'.manifest.expert = directory.manifest.expert
    BY <2>3 DEF Edited, Binding
  <2>5. OnDisk(staged.dense)' = OnDisk(staged.dense) /\ OnDisk(staged.experts)' = OnDisk(staged.experts)
    BY <2>1
  <2>6. directory.manifest.scalar = staged.scalar
    BY <2>1 DEF DirectoryKept
  <2> QED  BY <2>1, <2>3, <2>4, <2>5, <2>6, Zenon DEF DirectoryKept, Edited
<1>5. CASE LoadResident \/ Open \/ Load \/ UNCHANGED vars
  BY <1>2, <1>5 DEF LoadResident, Open, Load, vars
<1> QED  BY <1>1, <1>3, <1>4, <1>5 DEF Next, Finished

(***************************************************************************)
(* The cache layout.                                                       *)
(***************************************************************************)

\* The channels of a linear layer's convolution are a size of its weights.
LEMMA ConvolutionShape ==
    ASSUME NEW c, NEW l \in 0..(c.layers - 1), ~Q35!IsFullLayer(c, l)
    PROVE  /\ <<l, "conv1d">> \in DOMAIN Q35!ModelParameters(c)
           /\ Q35!ModelParameters(c)[<<l, "conv1d">>] = <<Q35!ConvWidth(c), 1, c.kernel>>
<1> DEFINE a == [input_norm |-> <<c.hidden>>, post_norm |-> <<c.hidden>>]
           b == Q35!LinearParameters(c)
           s == Q35!SharedParameters(c)
           r == Q35!RouterParameters(c)
           ofLayer == [k \in 0..(c.layers - 1) |-> Joined(Q35!LayerParameters(c, k), r)]
<1>1. Q35!LayerParameters(c, l) = Joined(Joined(a, b), s)
  BY SharedJoined DEF Q35!LayerParameters
<1>2. "conv1d" \in DOMAIN b /\ b["conv1d"] = <<Q35!ConvWidth(c), 1, c.kernel>>
  BY DEF Q35!LinearParameters
<1>3. "conv1d" \notin DOMAIN a
  OBVIOUS
<1> HIDE DEF a, b, s, r
<1>4. "conv1d" \in DOMAIN Joined(a, b) /\ Joined(a, b)["conv1d"] = b["conv1d"]
  BY <1>2, <1>3, JoinedSecond
<1>5. /\ "conv1d" \in DOMAIN Joined(Joined(a, b), s)
      /\ Joined(Joined(a, b), s)["conv1d"] = b["conv1d"]
  BY <1>4, JoinedFirst
<1>6. "conv1d" \in DOMAIN ofLayer[l] /\ ofLayer[l]["conv1d"] = b["conv1d"]
  <2>1. ofLayer[l] = Joined(Joined(Joined(a, b), s), r)
    BY <1>1
  <2> QED  BY <1>5, <2>1, JoinedFirst
<1>7. Q35!ModelParameters(c) = Parameters(Q35!GlobalParameters(c), ofLayer)
  BY SharedParameters, SharedJoined DEF Q35!ModelParameters, r
<1>8. DOMAIN ofLayer = 0..(c.layers - 1)
  OBVIOUS
<1> HIDE DEF ofLayer
<1>9. /\ <<l, "conv1d">> \in DOMAIN Parameters(Q35!GlobalParameters(c), ofLayer)
      /\ Parameters(Q35!GlobalParameters(c), ofLayer)[<<l, "conv1d">>] = ofLayer[l]["conv1d"]
  <2>1. l \in DOMAIN ofLayer /\ "conv1d" \in DOMAIN ofLayer[l]
    BY <1>6, <1>8
  <2> QED  BY <2>1, LayerParameter
<1> QED  BY <1>2, <1>6, <1>7, <1>9

\* Every layer has the kind that the interval gives it.
LEMMA KindsFixed ==
    ASSUME NEW c, Q35!ConfigType(c), Q35!Validate(c), NEW l \in 0..(c.layers - 1)
    PROVE  Q35!IsFullLayer(c, l) <=> (l + 1) % c.interval = 0
<1>1. l + 1 \in 1..c.layers
  BY DEF Q35!ConfigType
<1>2. c.kinds[l + 1] = IF (l + 1) % c.interval = 0 THEN "full" ELSE "linear"
  BY <1>1 DEF Q35!Validate, Q35!KindsFollowInterval
<1> QED  BY <1>2 DEF Q35!IsFullLayer

\* Two Qwen3.6 configurations with the same layout that load the same weights
\* have convolutions of the same width.
LEMMA ConvolutionFixed ==
    ASSUME NEW c, NEW d, NEW shapes, NEW l \in 0..(c.layers - 1), c.layers = d.layers,
           ~Q35!IsFullLayer(c, l), ~Q35!IsFullLayer(d, l),
           Provides(shapes, Q35!ModelParameters(c)), Provides(shapes, Q35!ModelParameters(d))
    PROVE  Q35!ConvWidth(c) = Q35!ConvWidth(d)
<1>1. shapes[<<l, "conv1d">>] = <<Q35!ConvWidth(c), 1, c.kernel>>
  BY ConvolutionShape DEF Provides
<1>2. shapes[<<l, "conv1d">>] = <<Q35!ConvWidth(d), 1, d.kernel>>
  BY ConvolutionShape DEF Provides
<1>3. <<Q35!ConvWidth(c), 1, c.kernel>>[1] = <<Q35!ConvWidth(d), 1, d.kernel>>[1]
  BY <1>1, <1>2
<1> QED  BY <1>3

\* What a layout says of the cache: with the same weights it says all.
LEMMA SameCache ==
    ASSUME NEW c, NEW d, NEW dense, NEW experts,
           Detect(c), ConfigType(c), Validate(c), LoadStreamingModel(c, dense, experts),
           Detect(d), ConfigType(d), Validate(d), LoadStreamingModel(d, dense, experts),
           StateLayout(c) = StateLayout(d)
    PROVE  CacheShape(c) = CacheShape(d)
<1>1. c.family = d.family
  <2>1. ASSUME NEW x \in {c, d} PROVE StateLayout(x)[1] = x.family
    <3>1. CASE x.family = "olmoe"
      BY <3>1 DEF StateLayout, InFamily, O!StateLayout
    <3>2. CASE x.family = "qwen3_moe"
      BY <3>2 DEF StateLayout, InFamily, Q3!StateLayout
    <3>3. CASE x.family = "qwen3_5_moe"
      BY <3>3 DEF StateLayout, InFamily, Q35!StateLayout
    <3> QED  BY <3>1, <3>2, <3>3 DEF Detect
  <2> QED  BY <2>1
<1>2. CASE c.family = "olmoe"
  <2>1. /\ c.layers = d.layers /\ c.kvHeads = d.kvHeads /\ O!HeadDim(c) = O!HeadDim(d)
        /\ c.positions = d.positions
    BY <1>1, <1>2 DEF StateLayout, InFamily, O!StateLayout
  <2> QED  BY <1>1, <1>2, <2>1 DEF CacheShape, InFamily
<1>3. CASE c.family = "qwen3_moe"
  <2>1. /\ c.layers = d.layers /\ c.kvHeads = d.kvHeads /\ Q3!HeadDim(c) = Q3!HeadDim(d)
        /\ c.positions = d.positions
    BY <1>1, <1>3 DEF StateLayout, InFamily, Q3!StateLayout
  <2> QED  BY <1>1, <1>3, <2>1 DEF CacheShape, InFamily
<1>4. CASE c.family = "qwen3_5_moe"
  <2>1. /\ c.layers = d.layers /\ c.kvHeads = d.kvHeads /\ c.headDim = d.headDim
        /\ c.positions = d.positions /\ c.kernel = d.kernel /\ c.valueHeads = d.valueHeads
        /\ c.keyDim = d.keyDim /\ c.valueDim = d.valueDim /\ c.interval = d.interval
    BY <1>1, <1>4 DEF StateLayout, InFamily, Q35!StateLayout
  <2>2. \A x \in {c, d} : Q35!ConfigType(x) /\ Q35!Validate(x)
    BY <1>1, <1>4 DEF ConfigType, Validate, InFamily
  <2>3. \A l \in 0..(c.layers - 1) : Q35!IsFullLayer(c, l) <=> Q35!IsFullLayer(d, l)
    BY <2>1, <2>2, KindsFixed
  <2>4. /\ Provides(DenseShapes(dense), Q35!ModelParameters(c))
        /\ Provides(DenseShapes(dense), Q35!ModelParameters(d))
    BY <1>1, <1>4 DEF LoadStreamingModel, InFamily, Q35!LoadStreaming, Q35!Provides, Provides,
       Q35!DenseShapes, DenseShapes
  <2>5. \A l \in 0..(c.layers - 1) :
            ~Q35!IsFullLayer(c, l) => Q35!ConvWidth(c) = Q35!ConvWidth(d)
    BY <2>1, <2>3, <2>4, ConvolutionFixed
  <2> DEFINE S(x) == [l \in 0..(x.layers - 1) |->
                        IF ~Q35!IsFullLayer(x, l)
                        THEN <<x.kernel, Q35!ConvWidth(x), x.valueHeads, x.keyDim, x.valueDim>>
                        ELSE <<x.kvHeads, x.headDim, x.positions>>]
  <2>6. CacheShape(c) = S(c) /\ CacheShape(d) = S(d)
    BY <1>1, <1>4 DEF CacheShape, InFamily, Q35!HeadDim
  <2>7. ASSUME NEW l \in 0..(c.layers - 1) PROVE S(c)[l] = S(d)[l]
    BY <2>1, <2>3, <2>5
  <2> QED  BY <2>1, <2>6, <2>7
<1> QED  BY <1>2, <1>3, <1>4 DEF Detect

\* Power tells sessions apart by weights and layout: for any configurations a
\* directory's config.json may be replaced by, two that load over the same
\* weights with the same layout have caches of the same shape.
THEOREM LayoutSuffices == Spec => []LayoutFixesTheCache
<1>1. SourceOpened /\ DirectoryStays /\ DirectoryKept => LayoutFixesTheCache
  <2> SUFFICES ASSUME SourceOpened, DirectoryStays, DirectoryKept, loaded \notin {None, Refused},
                      NEW c \in Variations(job.base) \cup {job.base},
                      Detect(c), Validate(c), StateLayout(c) = loaded.layout,
                      LoadStreamingModel(c, OpenStore([directory EXCEPT !.config = c].dense),
                                            OpenStore([directory EXCEPT !.config = c].experts))
               PROVE  CacheShape(c) = CacheShape(loaded.config)
    BY Zenon DEF LayoutFixesTheCache
  <2> DEFINE d == directory.config
  <2>1. /\ phase \in {"published", "edited"} /\ Accepts(directory)
        /\ opened = [config |-> d, manifest |-> directory.manifest]
        /\ loaded = LoadPlain(directory, opened) /\ loaded # Refused
    BY DEF DirectoryStays
  <2>2. IsDirectory(directory) /\ d \in Variations(job.base) \cup {job.config} /\ job \in Jobs
    BY <2>1 DEF DirectoryKept, SourceOpened
  <2>3. /\ loaded.config = d /\ loaded.layout = StateLayout(d)
        /\ LoadStreamingModel(d, OpenStore(directory.dense), OpenStore(directory.experts))
    BY <2>1 DEF LoadPlain, CanLoad
  <2>4. Detect(d) /\ Validate(d)
    BY <2>1 DEF Accepts
  <2>5. ConfigType(c) /\ ConfigType(d)
    BY <2>2, <2>4, JobsAssumption
  <2>6. /\ [directory EXCEPT !.config = c].dense = directory.dense
        /\ [directory EXCEPT !.config = c].experts = directory.experts
    BY <2>2 DEF IsDirectory, Fields
  <2> QED  BY <2>3, <2>4, <2>5, <2>6, SameCache
<1>2. Init => DirectoryKept
  BY DEF Init, DirectoryKept
<1>3. SourceOpened /\ DirectoryStays /\ DirectoryKept /\ [Next]_vars => DirectoryKept'
  BY DirectoryStep
<1> QED  BY <1>1, <1>2, <1>3, OrderCorrect, PTL DEF Spec

(***************************************************************************)
(* Lists of names.                                                         *)
(***************************************************************************)

\* What a list holds.
LEMMA ListRange ==
    ASSUME NEW n \in Nat, NEW f, IsList(f, n)
    PROVE  Range(f) = {f[k] : k \in 1..n}
BY ListSeq DEF Range

\* What two lists hold, one behind the other.
LEMMA RangeConcat ==
    ASSUME NEW m \in Nat, NEW n \in Nat, NEW f, NEW g, IsList(f, m), IsList(g, n)
    PROVE  Range(f \o g) = Range(f) \cup Range(g)
<1>1. Concatenates(f, m, g, n)
  BY ListConcat
<1>2. /\ Range(f) = {f[k] : k \in 1..m} /\ Range(g) = {g[k] : k \in 1..n}
      /\ Range(f \o g) = {(f \o g)[k] : k \in 1..(m + n)}
  <2>1. IsList(f \o g, m + n) /\ m + n \in Nat
    BY <1>1 DEF Concatenates
  <2>2. Range(f \o g) = {(f \o g)[k] : k \in 1..(m + n)}
    <3> DEFINE h == f \o g  t == m + n
    <3> HIDE DEF h, t
    <3>1. IsList(h, t) /\ t \in Nat
      BY <2>1 DEF h, t
    <3>2. Range(h) = {h[k] : k \in 1..t}
      BY <3>1, ListRange
    <3> QED  BY <3>2 DEF h, t
  <2>3. Range(f) = {f[k] : k \in 1..m}
    BY ListRange
  <2>4. Range(g) = {g[k] : k \in 1..n}
    BY ListRange
  <2> QED  BY <2>2, <2>3, <2>4
<1>3. ASSUME NEW k \in 1..(m + n) PROVE (f \o g)[k] \in Range(f) \cup Range(g)
  <2>1. CASE k <= m
    BY <1>1, <1>2, <2>1 DEF Concatenates
  <2>2. CASE ~(k <= m)
    <3>1. k - m \in 1..n /\ k = m + (k - m)
      BY <2>2
    <3>2. (f \o g)[m + (k - m)] = g[k - m]
      BY <1>1, <3>1 DEF Concatenates
    <3> QED  BY <1>2, <3>1, <3>2
  <2> QED  BY <2>1, <2>2
<1>4. ASSUME NEW k \in 1..m PROVE f[k] \in Range(f \o g)
  <2>1. k \in 1..(m + n) /\ (f \o g)[k] = f[k]
    BY <1>1 DEF Concatenates
  <2> QED  BY <1>2, <2>1
<1>5. ASSUME NEW k \in 1..n PROVE g[k] \in Range(f \o g)
  <2>1. m + k \in 1..(m + n) /\ (f \o g)[m + k] = g[k]
    BY <1>1 DEF Concatenates
  <2> QED  BY <1>2, <2>1
<1> QED  BY <1>2, <1>3, <1>4, <1>5

\* What a list holds after another member was appended.
LEMMA RangeAppend ==
    ASSUME NEW n \in Nat, NEW f, NEW x, IsList(f, n)
    PROVE  /\ IsList(Append(f, x), n + 1) /\ Len(Append(f, x)) = n + 1
           /\ Range(Append(f, x)) = Range(f) \cup {x}
<1>1. Appends(f, n, x)
  BY ListAppend
<1>2. Range(f) = {f[k] : k \in 1..n} /\ Range(Append(f, x)) = {Append(f, x)[k] : k \in 1..(n + 1)}
  <2>1. IsList(Append(f, x), n + 1) /\ n + 1 \in Nat
    BY <1>1 DEF Appends
  <2>2. Range(Append(f, x)) = {Append(f, x)[k] : k \in 1..(n + 1)}
    BY <2>1, ListRange
  <2>3. Range(f) = {f[k] : k \in 1..n}
    BY ListRange
  <2> QED  BY <2>2, <2>3
<1>3. IsList(Append(f, x), n + 1) /\ Len(Append(f, x)) = n + 1
  <2>1. IsList(Append(f, x), n + 1) /\ n + 1 \in Nat
    BY <1>1 DEF Appends
  <2>2. Len(Append(f, x)) = n + 1
    BY <2>1, ListSeq
  <2> QED  BY <2>1, <2>2
<1>4. ASSUME NEW k \in 1..(n + 1) PROVE Append(f, x)[k] \in Range(f) \cup {x}
  <2>1. k = n + 1 \/ k \in 1..n
    OBVIOUS
  <2> QED  BY <1>1, <1>2, <2>1 DEF Appends
<1>5. ASSUME NEW k \in 1..n PROVE f[k] \in Range(Append(f, x))
  <2>1. k \in 1..(n + 1)
    OBVIOUS
  <2> QED  BY <1>1, <1>2, <2>1 DEF Appends
<1>6. x \in Range(Append(f, x))
  <2>1. n + 1 \in 1..(n + 1)
    OBVIOUS
  <2> QED  BY <1>1, <1>2, <2>1 DEF Appends
<1> QED  BY <1>2, <1>3, <1>4, <1>5, <1>6

\* What a concatenation of lists holds.
LEMMA FlattenRange ==
    ASSUME NEW n, NEW seqs, Lists(seqs, n)
    PROVE  /\ Len(FlattenSeq(seqs)) \in Nat /\ IsList(FlattenSeq(seqs), Len(FlattenSeq(seqs)))
           /\ Range(FlattenSeq(seqs)) = UNION {Range(seqs[i]) : i \in 1..n}
<1>1. PICK f : Joins(f, seqs, n)
  BY JoinExists
<1>2. n \in Nat /\ IsList(seqs, n) /\ n \in 0..n
  BY DEF Lists
<1>3. FlattenSeq(seqs) = f[n]
  <2>1. SubSeq(seqs, 1, n) = seqs
    BY <1>2, ListSeq, SubSeqFull
  <2>2. FlattenSeq(SubSeq(seqs, 1, n)) = f[n]
    BY <1>1, <1>2, FlattenJoins
  <2> QED  BY <2>1, <2>2
<1>4. \A i \in 0..n : Len(f[i]) \in Nat /\ IsList(f[i], Len(f[i]))
  BY <1>1, JoinIsList
<1> DEFINE Held(m) == UNION {Range(seqs[i]) : i \in 1..m}
           T == {m \in 0..n : Range(f[m]) = Held(m)}
<1>5. 0 \in T
  <2>1. f[0] = <<>> /\ Range(<<>>) = {} /\ Held(0) = {}
    BY <1>1 DEF Joins, Range
  <2> QED  BY <1>2, <2>1
<1>6. ASSUME NEW m \in 1..n, m - 1 \in T PROVE m \in T
  <2>1. m - 1 \in 0..n /\ m \in 0..n
    BY <1>2
  <2>2. f[m] = f[m - 1] \o seqs[m]
    BY <1>1 DEF Joins
  <2>3. Len(f[m - 1]) \in Nat /\ IsList(f[m - 1], Len(f[m - 1]))
    BY <1>4, <2>1
  <2>4. Len(seqs[m]) \in Nat /\ IsList(seqs[m], Len(seqs[m]))
    BY DEF Lists
  <2>5. Range(f[m]) = Range(f[m - 1]) \cup Range(seqs[m])
    BY <2>2, <2>3, <2>4, RangeConcat
  <2>6. Held(m) = Held(m - 1) \cup Range(seqs[m])
    <3>1. 1..m = 1..(m - 1) \cup {m}
      BY <1>2
    <3> QED  BY <3>1
  <2>7. Range(f[m - 1]) = Held(m - 1)
    BY <1>6
  <2> HIDE DEF Held
  <2> QED  BY <2>1, <2>5, <2>6, <2>7
<1>7. \A m \in 0..n : m \in T
  <2> HIDE DEF T
  <2> QED  BY <1>2, <1>5, <1>6, UpTo
<1>8. Range(f[n]) = Held(n)
  BY <1>2, <1>7
<1> QED  BY <1>2, <1>3, <1>4, <1>8

\* The names of a model's layers, each with the number of its layer.
Numbered(names, N) == [l \in 1..N |-> [n \in DOMAIN names[l] |-> <<l - 1, names[l][n]>>]]

\* Global names, then the names of every layer.
LEMMA NamesOf ==
    ASSUME NEW N \in Nat, NEW names, NEW sizes,
           \A l \in 1..N : sizes[l] \in Nat /\ IsList(names[l], sizes[l]),
           NEW global, NEW p \in Nat, IsList(global, p)
    PROVE  LET all == global \o FlattenSeq(Numbered(names, N)) IN
           /\ Len(all) \in Nat /\ IsList(all, Len(all))
           /\ Range(all) = Range(global) \cup UNION {{<<l - 1, n>> : n \in Range(names[l])} : l \in 1..N}
<1> DEFINE seqs == Numbered(names, N)
           flat == FlattenSeq(seqs)
<1>1. ASSUME NEW l \in 1..N
      PROVE  /\ Len(seqs[l]) \in Nat /\ IsList(seqs[l], Len(seqs[l]))
             /\ Range(seqs[l]) = {<<l - 1, n>> : n \in Range(names[l])}
  <2> DEFINE s == sizes[l]  given == names[l]
  <2>1. s \in Nat /\ IsList(given, s) /\ DOMAIN given = 1..s
    BY ListSeq
  <2>2. seqs[l] = [n \in 1..s |-> <<l - 1, given[n]>>]
    BY <2>1 DEF Numbered
  <2> HIDE DEF s, given, seqs
  <2>3. IsList(seqs[l], s)
    BY <2>2 DEF IsList
  <2>4. Len(seqs[l]) = s
    BY <2>1, <2>3, ListSeq
  <2>5. Range(seqs[l]) = {<<l - 1, n>> : n \in Range(given)}
    BY <2>1, <2>2 DEF Range
  <2> QED  BY <2>1, <2>3, <2>4, <2>5 DEF given
<1>2. Lists(seqs, N)
  <2>1. IsList(seqs, N)
    BY DEF Numbered, IsList
  <2> QED  BY <1>1, <2>1 DEF Lists
<1> HIDE DEF seqs
<1>3. /\ Len(flat) \in Nat /\ IsList(flat, Len(flat))
      /\ Range(flat) = UNION {Range(seqs[i]) : i \in 1..N}
  BY <1>2, FlattenRange
<1>4. UNION {Range(seqs[i]) : i \in 1..N} = UNION {{<<l - 1, n>> : n \in Range(names[l])} : l \in 1..N}
  <2> DEFINE Named(l) == {<<l - 1, n>> : n \in Range(names[l])}
  <2>1. \A l \in 1..N : Range(seqs[l]) = Named(l)
    BY <1>1
  <2> HIDE DEF Named
  <2>2. UNION {Range(seqs[i]) : i \in 1..N} = UNION {Named(l) : l \in 1..N}
    BY <2>1
  <2> QED  BY <2>2 DEF Named
<1> HIDE DEF flat
<1>5. Concatenates(global, p, flat, Len(flat))
  BY <1>3, ListConcat
<1>6. Len(global \o flat) \in Nat /\ IsList(global \o flat, Len(global \o flat))
  BY <1>3, <1>5 DEF Concatenates
<1>7. Range(global \o flat) = Range(global) \cup Range(flat)
  BY <1>3, RangeConcat
<1> QED  BY <1>3, <1>4, <1>6, <1>7 DEF flat, seqs

(***************************************************************************)
(* What the model of any family is made of.                                *)
(***************************************************************************)

ShapeSet == Seq(Nat)

IsShapes(f) == \A x \in DOMAIN f : f[x] \in ShapeSet

\* Two collections of shapes joined: what is in them.
LEMMA JoinedBoth ==
    ASSUME NEW f, NEW g, IsShapes(f), IsShapes(g)
    PROVE  IsShapes(Joined(f, g)) /\ DOMAIN Joined(f, g) = DOMAIN f \cup DOMAIN g
BY DEF IsShapes, Joined

\* Shapes of one, two and three dimensions.
LEMMA ShapeOf ==
    ASSUME NEW a \in Nat, NEW b \in Nat, NEW d \in Nat
    PROVE  <<a>> \in ShapeSet /\ <<a, b>> \in ShapeSet /\ <<a, b, d>> \in ShapeSet
BY DEF ShapeSet

GlobalKinds == {"embed", "norm", "lm_head"}

FusedKinds == {"gate_up_proj", "down_proj"}

\* Global parameters G and parameters L of each layer make up the model of c,
\* and a router is among those of a layer just if the layer is routed.
Fits(c, G, L) ==
    /\ ModelParameters(c) = Parameters(G, L)
    /\ {"embed", "norm"} \subseteq DOMAIN G /\ DOMAIN G \subseteq GlobalKinds /\ IsShapes(G)
    /\ DOMAIN L = 0..(c.layers - 1)
    /\ \A l \in DOMAIN L : IsShapes(L[l]) /\ DOMAIN L[l] \cap FusedKinds = {}
    /\ \A l \in DOMAIN L : "router" \in DOMAIN L[l] <=> l \in Range(SparseLayers(c))
    /\ \A l \in Range(SparseLayers(c)) :
         l \in DOMAIN L /\ L[l]["router"] = <<c.experts, c.hidden>>
    /\ SparseLayers(c) # <<>> /\ Len(SparseLayers(c)) \in Nat
    /\ IsList(SparseLayers(c), Len(SparseLayers(c)))
    /\ Len(DenseNames(c)) \in Nat /\ IsList(DenseNames(c), Len(DenseNames(c)))
    /\ Range(DenseNames(c)) = DOMAIN Parameters(G, L)

\* The name of a global parameter or of one of a layer, but of no expert's.
DenseName(name) ==
    \/ \E g \in GlobalKinds : name = <<g>>
    \/ \E l, n : n \notin FusedKinds /\ name = <<l, n>>

\* The dense tensors are the parameters of the model, and the routed layers
\* are those that have a router.
IsModel(c) ==
    /\ ModelParameters(c) = [name \in DOMAIN ModelParameters(c) |-> ModelParameters(c)[name]]
    /\ DOMAIN ModelParameters(c) = Range(DenseNames(c))
    /\ {<<"embed">>, <<"norm">>} \subseteq DOMAIN ModelParameters(c)
    /\ IsShapes(ModelParameters(c))
    /\ \A name \in DOMAIN ModelParameters(c) : DenseName(name)
    /\ \A l : <<l, "router">> \in DOMAIN ModelParameters(c) <=> l \in Range(SparseLayers(c))
    /\ \A l \in Range(SparseLayers(c)) :
         ModelParameters(c)[<<l, "router">>] = <<c.experts, c.hidden>>
    /\ Range(SparseLayers(c)) # {} /\ Range(SparseLayers(c)) \subseteq 0..(c.layers - 1)
    /\ Len(SparseLayers(c)) \in Nat /\ IsList(SparseLayers(c), Len(SparseLayers(c)))
    /\ Len(DenseNames(c)) \in Nat /\ IsList(DenseNames(c), Len(DenseNames(c)))

\* Such parts do make a model.
LEMMA FitsIsModel ==
    ASSUME NEW c, NEW G, NEW L, Fits(c, G, L)
    PROVE  IsModel(c)
<1> DEFINE P == Parameters(G, L)
<1>1. /\ ModelParameters(c) = P /\ Range(DenseNames(c)) = DOMAIN P
      /\ {"embed", "norm"} \subseteq DOMAIN G /\ DOMAIN G \subseteq GlobalKinds /\ IsShapes(G)
      /\ DOMAIN L = 0..(c.layers - 1)
  BY DEF Fits
<1>2. DOMAIN P = {<<g>> : g \in DOMAIN G} \cup LayerParameterNames(L)
  BY ParameterNames
<1>3. P = [name \in DOMAIN P |-> P[name]]
  BY DEF Parameters, Joined
<1> HIDE DEF P
<1>4. ASSUME NEW l, NEW n
      PROVE  <<l, n>> \in DOMAIN P <=> l \in DOMAIN L /\ n \in DOMAIN L[l]
  <2>1. <<l, n>> \notin {<<g>> : g \in DOMAIN G}
    BY KindsDiffer
  <2>2. <<l, n>> \in LayerParameterNames(L) <=> l \in DOMAIN L /\ n \in DOMAIN L[l]
    BY DEF LayerParameterNames
  <2> QED  BY <1>2, <2>1, <2>2
<1>5. ASSUME NEW g \in DOMAIN G PROVE <<g>> \in DOMAIN P /\ P[<<g>>] = G[g]
  BY GlobalParameter DEF P
<1>6. ASSUME NEW l \in DOMAIN L, NEW n \in DOMAIN L[l]
      PROVE  <<l, n>> \in DOMAIN P /\ P[<<l, n>>] = L[l][n]
  BY LayerParameter DEF P
<1>7. ASSUME NEW name \in DOMAIN P PROVE DenseName(name) /\ P[name] \in ShapeSet
  <2>1. CASE \E g \in DOMAIN G : name = <<g>>
    <3>1. PICK g \in DOMAIN G : name = <<g>>
      BY <2>1
    <3>2. P[name] = G[g] /\ G[g] \in ShapeSet /\ g \in GlobalKinds
      BY <1>1, <1>5, <3>1 DEF IsShapes
    <3> QED  BY <3>1, <3>2 DEF DenseName
  <2>2. CASE \E l \in DOMAIN L : \E n \in DOMAIN L[l] : name = <<l, n>>
    <3>1. PICK l \in DOMAIN L : \E n \in DOMAIN L[l] : name = <<l, n>>
      BY <2>2
    <3>2. PICK n \in DOMAIN L[l] : name = <<l, n>>
      BY <3>1
    <3>3. IsShapes(L[l]) /\ DOMAIN L[l] \cap FusedKinds = {}
      BY DEF Fits
    <3>4. P[name] = L[l][n] /\ L[l][n] \in ShapeSet /\ n \notin FusedKinds
      BY <1>6, <3>2, <3>3 DEF IsShapes
    <3> QED  BY <3>2, <3>4 DEF DenseName
  <2> QED  BY <1>2, <2>1, <2>2 DEF LayerParameterNames
<1>8. ASSUME NEW l PROVE <<l, "router">> \in DOMAIN P <=> l \in Range(SparseLayers(c))
  BY <1>4 DEF Fits
<1>9. ASSUME NEW l \in Range(SparseLayers(c))
      PROVE  P[<<l, "router">>] = <<c.experts, c.hidden>> /\ l \in 0..(c.layers - 1)
  <2>1. l \in DOMAIN L /\ L[l]["router"] = <<c.experts, c.hidden>> /\ "router" \in DOMAIN L[l]
    BY DEF Fits
  <2>2. P[<<l, "router">>] = L[l]["router"]
    BY <1>6, <2>1
  <2> QED  BY <1>1, <2>1, <2>2
<1>10. Range(SparseLayers(c)) # {}
  <2> DEFINE s == SparseLayers(c)
  <2>1. s # <<>> /\ Len(s) \in Nat /\ IsList(s, Len(s))
    BY DEF Fits
  <2> HIDE DEF s
  <2>2. s \in Seq({s[k] : k \in 1..Len(s)}) /\ DOMAIN s = 1..Len(s)
    BY <2>1, ListSeq
  <2>3. Len(s) # 0
    BY <2>1, <2>2, EmptySeq
  <2>4. 1 \in DOMAIN s
    BY <2>1, <2>2, <2>3
  <2>5. s[1] \in Range(s)
    BY <2>4 DEF Range
  <2> QED  BY <2>5 DEF s
<1>11. /\ Len(SparseLayers(c)) \in Nat /\ IsList(SparseLayers(c), Len(SparseLayers(c)))
       /\ Len(DenseNames(c)) \in Nat /\ IsList(DenseNames(c), Len(DenseNames(c)))
  BY DEF Fits
<1>12. {<<"embed">>, <<"norm">>} \subseteq DOMAIN P
  BY <1>1, <1>5
<1>13. IsShapes(P)
  BY <1>7 DEF IsShapes
<1>14. Range(SparseLayers(c)) \subseteq 0..(c.layers - 1)
  BY <1>9
<1> QED  BY <1>1, <1>3, <1>7, <1>8, <1>9, <1>10, <1>11, <1>12, <1>13, <1>14, Zenon DEF IsModel

GlobalNamesOf(kinds) == {<<g>> : g \in kinds}

\* names[l] lists the parameters of layer l - 1.
NamesFit(names, sizes, L, N) ==
    /\ N \in Nat /\ DOMAIN L = 0..(N - 1)
    /\ \A l \in 1..N : /\ sizes[l] \in Nat /\ IsList(names[l], sizes[l])
                       /\ Range(names[l]) = DOMAIN L[l - 1]

\* global lists the global parameters.
GlobalsFit(global, p, G) ==
    p \in Nat /\ IsList(global, p) /\ Range(global) = GlobalNamesOf(DOMAIN G)

NameList(global, names, N) == global \o FlattenSeq(Numbered(names, N))

\* all lists the parameters of a model.
ListsAll(all, G, L) ==
    Len(all) \in Nat /\ IsList(all, Len(all)) /\ Range(all) = DOMAIN Parameters(G, L)

\* A list of names that goes through the layers of a model names its parameters.
LEMMA NamesModel ==
    ASSUME NEW N, NEW names, NEW sizes, NEW G, NEW L, NamesFit(names, sizes, L, N),
           NEW global, NEW p, GlobalsFit(global, p, G)
    PROVE  ListsAll(NameList(global, names, N), G, L)
<1> DEFINE Of(l) == {<<l - 1, n>> : n \in Range(names[l])}
           all == NameList(global, names, N)
<1>0. /\ N \in Nat /\ DOMAIN L = 0..(N - 1)
      /\ \A l \in 1..N : sizes[l] \in Nat /\ IsList(names[l], sizes[l])
      /\ \A l \in 1..N : Range(names[l]) = DOMAIN L[l - 1]
      /\ p \in Nat /\ IsList(global, p) /\ Range(global) = GlobalNamesOf(DOMAIN G)
  BY DEF NamesFit, GlobalsFit
<1>1. /\ Len(all) \in Nat /\ IsList(all, Len(all))
      /\ Range(all) = Range(global) \cup UNION {Of(l) : l \in 1..N}
  BY <1>0, NamesOf DEF NameList
<1> HIDE DEF all
<1>2. UNION {Of(l) : l \in 1..N} = LayerParameterNames(L)
  <2> DEFINE In(l) == {<<l, n>> : n \in DOMAIN L[l]}
  <2>1. ASSUME NEW l \in 1..N PROVE Of(l) = In(l - 1) /\ l - 1 \in DOMAIN L
    BY <1>0
  <2>2. ASSUME NEW l \in DOMAIN L PROVE Of(l + 1) = In(l) /\ l + 1 \in 1..N
    <3>1. l + 1 \in 1..N /\ (l + 1) - 1 = l
      BY <1>0
    <3> QED  BY <2>1, <3>1
  <2>3. LayerParameterNames(L) = UNION {In(l) : l \in DOMAIN L}
    BY DEF LayerParameterNames
  <2>4. ASSUME NEW l \in 1..N PROVE Of(l) = In(l - 1) /\ l - 1 \in DOMAIN L
    BY <2>1
  <2> HIDE DEF Of, In
  <2> QED  BY <2>2, <2>3, <2>4
<1>3. DOMAIN Parameters(G, L) = {<<g>> : g \in DOMAIN G} \cup LayerParameterNames(L)
  BY ParameterNames
<1> QED  BY <1>0, <1>1, <1>2, <1>3 DEF GlobalNamesOf, ListsAll, all

\* The numbers below n, in order.
LEMMA IndicesList ==
    ASSUME NEW n \in Nat
    PROVE  /\ IsList(Indices(n), n) /\ Len(Indices(n)) = n /\ Range(Indices(n)) = 0..(n - 1)
           /\ \A k \in 1..n : Indices(n)[k] = k - 1
<1>1. Indices(n) = [k \in 1..n |-> k - 1]
  BY DEF Indices
<1>2. IsList(Indices(n), n) /\ \A k \in 1..n : Indices(n)[k] = k - 1
  BY <1>1 DEF IsList
<1>3. Len(Indices(n)) = n /\ Range(Indices(n)) = {Indices(n)[k] : k \in 1..n}
  BY <1>2, ListSeq, ListRange
<1>4. {Indices(n)[k] : k \in 1..n} = 0..(n - 1)
  <2>1. \A k \in 1..n : k - 1 \in 0..(n - 1)
    OBVIOUS
  <2>2. \A l \in 0..(n - 1) : l + 1 \in 1..n /\ l = (l + 1) - 1
    OBVIOUS
  <2> QED  BY <1>2, <2>1, <2>2
<1> QED  BY <1>2, <1>3, <1>4

\* The names of the global tensors, which are in the same order in all families.
GlobalList(tied) == <<<<"embed">>, <<"norm">>>> \o IF tied THEN <<>> ELSE <<<<"lm_head">>>>

\* It lists exactly the global names.
LEMMA GlobalListed ==
    ASSUME NEW tied \in BOOLEAN
    PROVE  /\ IsList(GlobalList(tied), IF tied THEN 2 ELSE 3)
           /\ Range(GlobalList(tied)) = GlobalNamesOf({"embed", "norm"} \cup IF tied THEN {} ELSE {"lm_head"})
<1> DEFINE a == <<<<"embed">>, <<"norm">>>>  b == IF tied THEN <<>> ELSE <<<<"lm_head">>>>
           n == IF tied THEN 0 ELSE 1
<1>1. IsList(a, 2) /\ Range(a) = {<<"embed">>, <<"norm">>}
  BY DEF IsList, Range
<1>2. n \in Nat /\ IsList(b, n) /\ Range(b) = IF tied THEN {} ELSE {<<"lm_head">>}
  BY DEF IsList, Range
<1>3. GlobalList(tied) = a \o b
  BY DEF GlobalList
<1> HIDE DEF a, b
<1>4. Range(a \o b) = Range(a) \cup Range(b)
  BY <1>1, <1>2, RangeConcat
<1>5. IsList(a \o b, 2 + n)
  <2>1. Concatenates(a, 2, b, n)
    BY <1>1, <1>2, ListConcat
  <2> QED  BY <2>1 DEF Concatenates
<1> QED  BY <1>1, <1>2, <1>3, <1>4, <1>5 DEF GlobalNamesOf

\* The lists of names are made in the same way by all families.
LEMMA SharedFlatten ==
    ASSUME NEW s
    PROVE  O!FlattenSeq(s) = FlattenSeq(s) /\ Q3!FlattenSeq(s) = FlattenSeq(s) /\ Q35!FlattenSeq(s) = FlattenSeq(s)
BY DEF O!FlattenSeq, Q3!FlattenSeq, Q35!FlattenSeq, FlattenSeq

\* Layers are counted the same way in the families.
LEMMA SharedIndices ==
    ASSUME NEW n
    PROVE  O!Indices(n) = Indices(n) /\ Q35!Indices(n) = Indices(n)
BY DEF O!Indices, Q35!Indices, Indices

(***************************************************************************)
(* The model of OLMoE.                                                     *)
(***************************************************************************)

OlmoeKinds(c) ==
    {"input_norm", "post_norm", "q_proj", "k_proj", "v_proj", "o_proj", "q_norm", "k_norm",
     "router"} \cup IF c.bias THEN {"q_bias", "k_bias", "v_bias", "o_bias"} ELSE {}

\* The parameters of one layer.
LEMMA OlmoeLayer ==
    ASSUME NEW c, O!ConfigType(c), O!Validate(c)
    PROVE  LET layer == Joined(O!LayerParameters(c), O!RouterParameters(c)) IN
           /\ IsShapes(layer) /\ DOMAIN layer = OlmoeKinds(c)
           /\ layer["router"] = <<c.experts, c.hidden>>
<1> DEFINE d == O!HeadDim(c)  query == c.heads * d  keyValue == c.kvHeads * d
           norms == [input_norm |-> <<c.hidden>>, post_norm |-> <<c.hidden>>]
           main == [q_proj |-> <<query, c.hidden>>, k_proj |-> <<keyValue, c.hidden>>,
                    v_proj |-> <<keyValue, c.hidden>>, o_proj |-> <<c.hidden, query>>,
                    q_norm |-> <<query>>, k_norm |-> <<keyValue>>]
           bias == IF ~c.bias THEN <<>> ELSE
                     [q_bias |-> <<query>>, k_bias |-> <<keyValue>>, v_bias |-> <<keyValue>>,
                      o_bias |-> <<c.hidden>>]
           router == [router |-> <<c.experts, c.hidden>>]
<1>1. c.hidden \in Nat /\ c.heads \in Nat /\ c.kvHeads \in Nat /\ c.experts \in Nat /\ c.bias \in BOOLEAN
  BY DEF O!ConfigType
<1>2. c.heads # 0
  BY DEF O!Validate, O!NonZero
<1>3. d \in Nat
  BY <1>1, <1>2 DEF O!HeadDim
<1> HIDE DEF d
<1>4. query \in Nat /\ keyValue \in Nat
  <2>1. \A a, b \in Nat : a * b \in Nat
    OBVIOUS
  <2> QED  BY <1>1, <1>3, <2>1
<1> HIDE DEF query, keyValue
<1>5. IsShapes(norms) /\ DOMAIN norms = {"input_norm", "post_norm"}
  <2>1. /\ DOMAIN norms = {"input_norm", "post_norm"}
        /\ norms.input_norm \in ShapeSet /\ norms.post_norm \in ShapeSet
    BY <1>1, ShapeOf
  <2> HIDE DEF norms
  <2> QED  BY <2>1 DEF IsShapes
<1>6. IsShapes(main) /\ DOMAIN main = {"q_proj", "k_proj", "v_proj", "o_proj", "q_norm", "k_norm"}
  <2>1. /\ DOMAIN main = {"q_proj", "k_proj", "v_proj", "o_proj", "q_norm", "k_norm"}
        /\ main.q_proj \in ShapeSet /\ main.k_proj \in ShapeSet /\ main.v_proj \in ShapeSet /\ main.o_proj \in ShapeSet /\ main.q_norm \in ShapeSet /\ main.k_norm \in ShapeSet
    BY <1>1, <1>4, ShapeOf
  <2> HIDE DEF main
  <2> QED  BY <2>1 DEF IsShapes
<1>7. IsShapes(bias) /\ DOMAIN bias = IF c.bias THEN {"q_bias", "k_bias", "v_bias", "o_bias"} ELSE {}
  <2>1. c.bias =>
          /\ DOMAIN bias = {"q_bias", "k_bias", "v_bias", "o_bias"}
          /\ bias.q_bias \in ShapeSet /\ bias.k_bias \in ShapeSet /\ bias.v_bias \in ShapeSet
          /\ bias.o_bias \in ShapeSet
    BY <1>1, <1>4, ShapeOf
  <2>2. ~c.bias => DOMAIN bias = {}
    OBVIOUS
  <2> HIDE DEF bias
  <2> QED  BY <1>1, <2>1, <2>2 DEF IsShapes
<1>8. /\ IsShapes(router) /\ DOMAIN router = {"router"}
      /\ router["router"] = <<c.experts, c.hidden>>
  <2>1. DOMAIN router = {"router"} /\ router.router = <<c.experts, c.hidden>>
    OBVIOUS
  <2>2. <<c.experts, c.hidden>> \in ShapeSet
    BY <1>1, ShapeOf
  <2> HIDE DEF router
  <2> QED  BY <2>1, <2>2 DEF IsShapes
<1>9. /\ O!LayerParameters(c) = Joined(norms, Joined(main, bias))
      /\ O!RouterParameters(c) = router
  BY SharedJoined DEF O!LayerParameters, O!AttentionParameters, O!RouterParameters, query, keyValue, d
<1> HIDE DEF norms, main, bias, router
<1> DEFINE inner == Joined(norms, Joined(main, bias))
<1>10. IsShapes(inner) /\ DOMAIN inner = DOMAIN norms \cup (DOMAIN main \cup DOMAIN bias)
  <2>1. IsShapes(Joined(main, bias)) /\ DOMAIN Joined(main, bias) = DOMAIN main \cup DOMAIN bias
    BY <1>6, <1>7, JoinedBoth
  <2> QED  BY <1>5, <2>1, JoinedBoth
<1> HIDE DEF inner
<1>11. /\ IsShapes(Joined(inner, router))
       /\ DOMAIN Joined(inner, router) = DOMAIN inner \cup DOMAIN router
  BY <1>8, <1>10, JoinedBoth
<1>12. "router" \notin DOMAIN inner
  BY <1>5, <1>6, <1>7, <1>10
<1>13. Joined(inner, router)["router"] = router["router"]
  BY <1>8, <1>12, JoinedSecond
<1>14. DOMAIN Joined(inner, router) = OlmoeKinds(c)
  BY <1>5, <1>6, <1>7, <1>8, <1>10, <1>11 DEF OlmoeKinds
<1> QED  BY <1>8, <1>9, <1>11, <1>13, <1>14 DEF inner

\* The names of one layer.
LEMMA OlmoeNames ==
    ASSUME NEW c, c.bias \in BOOLEAN
    PROVE  /\ IsList(O!LayerNames(c), IF c.bias THEN 13 ELSE 9)
           /\ Range(O!LayerNames(c)) = OlmoeKinds(c)
<1> DEFINE a == <<"input_norm", "post_norm", "q_proj", "k_proj", "v_proj", "o_proj">>
           b == IF c.bias THEN <<"q_bias", "k_bias", "v_bias", "o_bias">> ELSE <<>>
           n == IF c.bias THEN 4 ELSE 0
           e == <<"q_norm", "k_norm", "router">>
<1>1. /\ IsList(a, 6)
      /\ Range(a) = {"input_norm", "post_norm", "q_proj", "k_proj", "v_proj", "o_proj"}
  BY DEF IsList, Range
<1>2. /\ IsList(b, n) /\ n \in Nat
      /\ Range(b) = IF c.bias THEN {"q_bias", "k_bias", "v_bias", "o_bias"} ELSE {}
  BY DEF IsList, Range
<1>3. IsList(e, 3) /\ Range(e) = {"q_norm", "k_norm", "router"}
  BY DEF IsList, Range
<1>4. O!LayerNames(c) = (a \o b) \o e
  BY DEF O!LayerNames, O!Biases
<1>n. 6 + n \in Nat /\ (6 + n) + 3 = IF c.bias THEN 13 ELSE 9
  OBVIOUS
<1> HIDE DEF a, b, e, n
<1>5. IsList(a \o b, 6 + n) /\ Range(a \o b) = Range(a) \cup Range(b)
  <2>1. Concatenates(a, 6, b, n)
    BY <1>1, <1>2, ListConcat
  <2> QED  BY <1>1, <1>2, <2>1, RangeConcat DEF Concatenates
<1> DEFINE ab == a \o b
<1> HIDE DEF ab
<1>6. IsList(ab, 6 + n)
  BY <1>5 DEF ab
<1>7. IsList(ab \o e, (6 + n) + 3)
  <2>1. Concatenates(ab, 6 + n, e, 3)
    BY <1>3, <1>6, <1>n, ListConcat
  <2> QED  BY <2>1 DEF Concatenates
<1>8. Range(ab \o e) = Range(ab) \cup Range(e)
  <2> DEFINE m == 6 + n
  <2>1. m \in Nat /\ IsList(ab, m)
    BY <1>6, <1>n
  <2> HIDE DEF m
  <2> QED  BY <1>3, <2>1, RangeConcat
<1> QED  BY <1>1, <1>2, <1>3, <1>4, <1>5, <1>7, <1>8, <1>n DEF ab, OlmoeKinds

\* The model of an OLMoE configuration is made of its dense tensors.
LEMMA OlmoeFits ==
    ASSUME NEW c, c.family = "olmoe", O!ConfigType(c), O!Validate(c)
    PROVE  IsModel(c)
<1> DEFINE layer == Joined(O!LayerParameters(c), O!RouterParameters(c))
           L == [l \in 0..(c.layers - 1) |-> layer]
           G == O!GlobalParameters(c)
           size == IF c.bias THEN 13 ELSE 9
           names == [l \in 1..c.layers |-> O!LayerNames(c)]
           global == GlobalList(c.tied)
           p == IF c.tied THEN 2 ELSE 3
<1>1. /\ c.layers \in Nat /\ c.layers # 0 /\ c.tied \in BOOLEAN /\ c.bias \in BOOLEAN
      /\ c.vocab \in Nat /\ c.hidden \in Nat
  BY DEF O!ConfigType, O!Validate, O!NonZero
<1>2. /\ IsShapes(layer) /\ DOMAIN layer = OlmoeKinds(c)
      /\ layer["router"] = <<c.experts, c.hidden>>
  BY OlmoeLayer
<1>3. /\ IsShapes(G)
      /\ DOMAIN G = {"embed", "norm"} \cup IF c.tied THEN {} ELSE {"lm_head"}
  <2> DEFINE a == [embed |-> <<c.vocab, c.hidden>>, norm |-> <<c.hidden>>]
             b == IF c.tied THEN <<>> ELSE [lm_head |-> <<c.vocab, c.hidden>>]
  <2>1. IsShapes(a) /\ DOMAIN a = {"embed", "norm"}
    <3>1. DOMAIN a = {"embed", "norm"} /\ a.embed \in ShapeSet /\ a.norm \in ShapeSet
      BY <1>1, ShapeOf
    <3> HIDE DEF a
    <3> QED  BY <3>1 DEF IsShapes
  <2>2. IsShapes(b) /\ DOMAIN b = IF c.tied THEN {} ELSE {"lm_head"}
    <3>1. c.tied => DOMAIN b = {}
      OBVIOUS
    <3>2. ~c.tied => DOMAIN b = {"lm_head"} /\ b.lm_head \in ShapeSet
      BY <1>1, ShapeOf
    <3> HIDE DEF b
    <3> QED  BY <1>1, <3>1, <3>2 DEF IsShapes
  <2>3. G = Joined(a, b)
    BY SharedJoined DEF O!GlobalParameters
  <2> HIDE DEF a, b, G
  <2> QED  BY <2>1, <2>2, <2>3, JoinedBoth
<1>4. ModelParameters(c) = Parameters(G, L)
  BY SharedJoined, SharedParameters DEF ModelParameters, InFamily, O!ModelParameters
<1>5. DenseNames(c) = global \o FlattenSeq(Numbered(names, c.layers))
  <2>1. [l \in 1..c.layers |-> [n \in DOMAIN O!LayerNames(c) |-> <<l - 1, O!LayerNames(c)[n]>>]]
          = Numbered(names, c.layers)
    BY DEF Numbered
  <2>2. DenseNames(c) = O!DenseNames(c)
    BY DEF DenseNames, InFamily
  <2> QED  BY <2>1, <2>2, SharedFlatten DEF O!DenseNames, O!GlobalNames, GlobalList
<1>6. SparseLayers(c) = Indices(c.layers)
  BY SharedIndices DEF SparseLayers, InFamily, O!SparseLayers
<1>7. /\ Range(SparseLayers(c)) = 0..(c.layers - 1) /\ Len(SparseLayers(c)) = c.layers
      /\ IsList(SparseLayers(c), c.layers)
  BY <1>1, <1>6, IndicesList
<1> HIDE DEF layer, G, global
<1>8. ASSUME NEW l \in 1..c.layers
      PROVE  size \in Nat /\ IsList(names[l], size) /\ Range(names[l]) = DOMAIN L[l - 1]
  <2>1. names[l] = O!LayerNames(c) /\ L[l - 1] = layer
    BY <1>1
  <2>2. IsList(O!LayerNames(c), size) /\ Range(O!LayerNames(c)) = OlmoeKinds(c)
    BY <1>1, OlmoeNames
  <2> QED  BY <1>2, <2>1, <2>2
<1>9. p \in Nat /\ IsList(global, p) /\ Range(global) = GlobalNamesOf(DOMAIN G)
  BY <1>1, <1>3, GlobalListed DEF global
<1>10. DOMAIN L = 0..(c.layers - 1) /\ \A l \in DOMAIN L : L[l] = layer
  OBVIOUS
<1> HIDE DEF L, names, size, p
<1> DEFINE sizes == [l \in 1..c.layers |-> size]
<1>11. /\ Len(DenseNames(c)) \in Nat /\ IsList(DenseNames(c), Len(DenseNames(c)))
       /\ Range(DenseNames(c)) = DOMAIN Parameters(G, L)
  <2>1. NamesFit(names, sizes, L, c.layers)
    BY <1>1, <1>8, <1>10 DEF NamesFit
  <2> HIDE DEF sizes
  <2>2. GlobalsFit(global, p, G)
    BY <1>9 DEF GlobalsFit
  <2>3. ListsAll(NameList(global, names, c.layers), G, L)
    BY <2>1, <2>2, NamesModel
  <2> QED  BY <1>5, <2>3 DEF ListsAll, NameList
<1>12. {"embed", "norm"} \subseteq DOMAIN G /\ DOMAIN G \subseteq GlobalKinds
  BY <1>3 DEF GlobalKinds
<1>13. \A l \in DOMAIN L : IsShapes(L[l]) /\ DOMAIN L[l] \cap FusedKinds = {}
  BY <1>2, <1>10 DEF OlmoeKinds, FusedKinds
<1>14. /\ \A l \in DOMAIN L : "router" \in DOMAIN L[l] <=> l \in Range(SparseLayers(c))
       /\ \A l \in Range(SparseLayers(c)) :
            l \in DOMAIN L /\ L[l]["router"] = <<c.experts, c.hidden>>
  BY <1>2, <1>7, <1>10 DEF OlmoeKinds
<1>15. SparseLayers(c) # <<>>
  BY <1>1, <1>7
<1>16. Fits(c, G, L)
  BY <1>1, <1>3, <1>4, <1>7, <1>10, <1>11, <1>12, <1>13, <1>14, <1>15 DEF Fits
<1> QED  BY <1>16, FitsIsModel

(***************************************************************************)
(* The model of Qwen3-MoE.                                                 *)
(***************************************************************************)

\* f[k] lists the sparse ones of the first k layers.
Keeps(f, c, n) ==
    /\ f[0] = <<>>
    /\ \A k \in 1..n : f[k] = IF Q3!IsSparseLayer(c, k - 1) THEN Append(f[k - 1], k - 1) ELSE f[k - 1]

\* The recursion over the layers has a solution.
LEMMA KeepsExists ==
    ASSUME NEW c, NEW n \in Nat
    PROVE  \E f : Keeps(f, c, n)
<1> DEFINE T == {k \in 0..n : \E f : Keeps(f, c, k)}
<1>2. 0 \in T
  <2>1. Keeps([i \in 0..n |-> <<>>], c, 0)
    BY DEF Keeps
  <2> QED  BY <2>1
<1>3. ASSUME NEW k \in 1..n, k - 1 \in T PROVE k \in T
  <2>1. PICK f : Keeps(f, c, k - 1)
    BY <1>3
  <2> DEFINE Next1(g, i) == IF Q3!IsSparseLayer(c, i - 1) THEN Append(g[i - 1], i - 1) ELSE g[i - 1]
             g == [i \in 0..n |-> IF i < k THEN f[i] ELSE Next1(f, k)]
  <2>2. g[0] = <<>>
    BY <2>1 DEF Keeps
  <2>3. ASSUME NEW i \in 1..k PROVE g[i] = Next1(g, i)
    <3>1. i \in Nat /\ i - 1 \in 0..n /\ i \in 0..n /\ k \in Nat /\ i - 1 < k /\ i <= k
      OBVIOUS
    <3>2. CASE i < k
      <4>1. i \in 1..(k - 1)
        BY <3>1, <3>2
      <4>2. f[i] = Next1(f, i)
        BY <2>1, <4>1 DEF Keeps
      <4> QED  BY <3>1, <3>2, <4>2
    <3>3. CASE ~(i < k)
      <4>1. i = k /\ g[i - 1] = f[k - 1]
        BY <3>1, <3>3
      <4>2. g[i] = Next1(f, k)
        BY <3>1, <3>3
      <4> QED  BY <4>1, <4>2
    <3> QED  BY <3>2, <3>3
  <2>4. Keeps(g, c, k)
    BY <2>2, <2>3 DEF Keeps
  <2> QED  BY <2>4
<1> HIDE DEF T
<1>4. \A k \in 0..n : k \in T
  BY <1>2, <1>3, UpTo
<1>5. n \in T
  BY <1>4
<1> QED  BY <1>5 DEF T

\* Each number is larger than those before it.
Ascending(s, n) ==
    /\ \A i \in 1..n : s[i] \in Nat
    /\ \A i \in 1..n, k \in 1..n : i < k => s[i] < s[k]

\* A larger number is added at the end.
LEMMA AppendAscends ==
    ASSUME NEW n \in Nat, NEW s, IsList(s, n), Ascending(s, n), NEW x \in Nat,
           \A i \in 1..n : s[i] < x
    PROVE  Ascending(Append(s, x), n + 1)
<1> DEFINE t == Append(s, x)
<1>1. (\A i \in 1..n : t[i] = s[i]) /\ t[n + 1] = x
  <2>1. Appends(s, n, x)
    BY ListAppend
  <2> QED  BY <2>1, Zenon DEF Appends
<1> HIDE DEF t
<1>2. \A i \in 1..(n + 1) : i \in 1..n \/ i = n + 1
  OBVIOUS
<1>3. \A i \in 1..(n + 1) : t[i] \in Nat
  BY <1>1, <1>2 DEF Ascending
<1>4. ASSUME NEW i \in 1..(n + 1), NEW k \in 1..(n + 1), i < k PROVE t[i] < t[k]
  <2>1. i \in 1..n
    BY <1>4
  <2>2. t[i] = s[i]
    BY <1>1, <2>1
  <2>3. CASE k \in 1..n
    <3>1. t[k] = s[k]
      BY <1>1, <2>3
    <3>2. s[i] < s[k]
      BY <1>4, <2>1, <2>3 DEF Ascending
    <3> QED  BY <2>2, <3>1, <3>2
  <2>4. CASE k = n + 1
    BY <1>1, <2>1, <2>2, <2>4
  <2> QED  BY <1>2, <2>3, <2>4
<1>5. Ascending(t, n + 1)
  BY <1>3, <1>4, Zenon DEF Ascending
<1> QED  BY <1>5 DEF t

\* The sparse layers are those that the step meets, each listed.
LEMMA SparseListed ==
    ASSUME NEW c, c.layers \in Nat
    PROVE  LET s == Q3!SparseLayers(c) IN
           /\ Len(s) \in Nat /\ IsList(s, Len(s))
           /\ Range(s) = {l \in 0..(c.layers - 1) : Q3!IsSparseLayer(c, l)}
           /\ Ascending(s, Len(s))
<1> DEFINE n == c.layers
           Unfolds(g) == g = [k \in 0..n |->
               IF k = 0 THEN <<>>
               ELSE IF Q3!IsSparseLayer(c, k - 1) THEN Append(g[k - 1], k - 1) ELSE g[k - 1]]
           f == CHOOSE g : Unfolds(g)
<1>0. n \in Nat
  OBVIOUS
<1>1. Q3!SparseLayers(c) = f[n]
  BY DEF Q3!SparseLayers
<1> HIDE DEF n
<1>2. PICK g : Keeps(g, c, n)
  BY <1>0, KeepsExists
<1>3. Unfolds([k \in 0..n |-> g[k]])
  <2> DEFINE h == [k \in 0..n |-> g[k]]
  <2>1. ASSUME NEW k \in 0..n, k # 0
        PROVE  g[k] = IF Q3!IsSparseLayer(c, k - 1) THEN Append(h[k - 1], k - 1) ELSE h[k - 1]
    <3>1. k \in 1..n /\ k - 1 \in 0..n
      BY <1>0, <2>1
    <3>2. g[k] = IF Q3!IsSparseLayer(c, k - 1) THEN Append(g[k - 1], k - 1) ELSE g[k - 1]
      BY <1>2, <3>1 DEF Keeps
    <3> QED  BY <3>1, <3>2
  <2>2. g[0] = <<>>
    BY <1>2 DEF Keeps
  <2> QED  BY <2>1, <2>2
<1>4. Unfolds(f)
  BY <1>3, Zenon
<1> HIDE DEF f
<1> DEFINE Listed(k) == {l \in 0..(k - 1) : Q3!IsSparseLayer(c, l)}
           T == {k \in 0..n : /\ Len(f[k]) \in Nat /\ IsList(f[k], Len(f[k]))
                              /\ Range(f[k]) = Listed(k) /\ Ascending(f[k], Len(f[k]))}
<1>5. 0 \in T
  <2>1. f[0] = <<>>
    BY <1>0, <1>4
  <2>2. Len(<<>>) = 0 /\ IsList(<<>>, 0) /\ Range(<<>>) = {} /\ Listed(0) = {}
        /\ Ascending(<<>>, 0)
    BY DEF IsList, Range, Ascending
  <2> QED  BY <1>0, <2>1, <2>2
<1>6. ASSUME NEW k \in 1..n, k - 1 \in T PROVE k \in T
  <2> DEFINE s == f[k - 1]
  <2>1. /\ Len(s) \in Nat /\ IsList(s, Len(s)) /\ Range(s) = Listed(k - 1)
        /\ Ascending(s, Len(s))
        /\ k \in 0..n /\ k - 1 \in Nat
    BY <1>0, <1>6
  <2>2. f[k] = IF Q3!IsSparseLayer(c, k - 1) THEN Append(s, k - 1) ELSE s
    <3>1. k \in 0..n /\ k # 0
      BY <1>0
    <3> QED  BY <1>4, <3>1
  <2>3. Listed(k) = Listed(k - 1) \cup IF Q3!IsSparseLayer(c, k - 1) THEN {k - 1} ELSE {}
    <3>1. 0..(k - 1) = 0..((k - 1) - 1) \cup {k - 1}
      BY <2>1
    <3> QED  BY <3>1
  <2>6. \A x \in Listed(k - 1) : x < k - 1
    BY <2>1
  <2> HIDE DEF s, Listed
  <2>7. \A i \in 1..Len(s) : s[i] < k - 1
    <3>1. DOMAIN s = 1..Len(s)
      BY <2>1, ListSeq
    <3>2. \A i \in 1..Len(s) : s[i] \in Listed(k - 1)
      BY <2>1, <3>1 DEF Range
    <3> QED  BY <2>6, <3>2
  <2>4. CASE Q3!IsSparseLayer(c, k - 1)
    <3>1. /\ IsList(Append(s, k - 1), Len(s) + 1) /\ Len(Append(s, k - 1)) = Len(s) + 1
          /\ Range(Append(s, k - 1)) = Range(s) \cup {k - 1}
      BY <2>1, RangeAppend
    <3>2. f[k] = Append(s, k - 1)
      BY <2>2, <2>4
    <3>3. Len(f[k]) = Len(s) + 1 /\ IsList(f[k], Len(s) + 1) /\ Range(f[k]) = Listed(k)
      BY <2>1, <2>3, <2>4, <3>1, <3>2
    <3>4. Ascending(f[k], Len(s) + 1)
      BY <2>1, <2>7, <3>2, AppendAscends
    <3> QED  BY <2>1, <3>3, <3>4
  <2>5. CASE ~Q3!IsSparseLayer(c, k - 1)
    BY <2>1, <2>2, <2>3, <2>5 DEF s
  <2> QED  BY <2>4, <2>5
<1> HIDE DEF T
<1>7. \A k \in 0..n : k \in T
  BY <1>0, <1>5, <1>6, UpTo
<1>8. n \in T
  BY <1>0, <1>7
<1> QED  BY <1>1, <1>8 DEF T, n

Qwen3Kinds(c, l) ==
    {"input_norm", "post_norm", "q_proj", "k_proj", "v_proj", "o_proj", "q_norm", "k_norm"}
        \cup (IF c.bias THEN {"q_bias", "k_bias", "v_bias", "o_bias"} ELSE {})
        \cup (IF Q3!IsSparseLayer(c, l) THEN {"router"} ELSE {"gate_proj", "up_proj", "mlp_down_proj"})

\* The parameters of one layer.
LEMMA Qwen3Layer ==
    ASSUME NEW c, Q3!ConfigType(c), Q3!Validate(c), NEW l
    PROVE  LET layer == Joined(Q3!LayerParameters(c, l), Q3!RouterParameters(c, l)) IN
           /\ IsShapes(layer) /\ DOMAIN layer = Qwen3Kinds(c, l)
           /\ Q3!IsSparseLayer(c, l) => layer["router"] = <<c.experts, c.hidden>>
<1> DEFINE d == Q3!HeadDim(c)  query == c.heads * d  keyValue == c.kvHeads * d
           norms == [input_norm |-> <<c.hidden>>, post_norm |-> <<c.hidden>>]
           main == [q_proj |-> <<query, c.hidden>>, k_proj |-> <<keyValue, c.hidden>>,
                    v_proj |-> <<keyValue, c.hidden>>, o_proj |-> <<c.hidden, query>>,
                    q_norm |-> <<d>>, k_norm |-> <<d>>]
           bias == IF ~c.bias THEN <<>> ELSE
                     [q_bias |-> <<query>>, k_bias |-> <<keyValue>>, v_bias |-> <<keyValue>>,
                      o_bias |-> <<c.hidden>>]
           mlp == IF Q3!IsSparseLayer(c, l) THEN <<>> ELSE
                    [gate_proj |-> <<c.dense, c.hidden>>, up_proj |-> <<c.dense, c.hidden>>,
                     mlp_down_proj |-> <<c.hidden, c.dense>>]
           router == IF Q3!IsSparseLayer(c, l) THEN [router |-> <<c.experts, c.hidden>>] ELSE <<>>
<1>1. /\ c.hidden \in Nat /\ c.heads \in Nat /\ c.kvHeads \in Nat /\ c.experts \in Nat
      /\ c.dense \in Nat /\ c.bias \in BOOLEAN /\ c.headDim \in Nat \cup {None}
  BY DEF Q3!ConfigType
<1>2. c.heads # 0
  BY DEF Q3!Validate, Q3!NonZero
<1>3. d \in Nat
  BY <1>1, <1>2 DEF Q3!HeadDim
<1> HIDE DEF d
<1>4. query \in Nat /\ keyValue \in Nat
  <2>1. \A a, b \in Nat : a * b \in Nat
    OBVIOUS
  <2> QED  BY <1>1, <1>3, <2>1
<1> HIDE DEF query, keyValue
<1>5. IsShapes(norms) /\ DOMAIN norms = {"input_norm", "post_norm"}
  <2>1. /\ DOMAIN norms = {"input_norm", "post_norm"}
        /\ norms.input_norm \in ShapeSet /\ norms.post_norm \in ShapeSet
    BY <1>1, ShapeOf
  <2> HIDE DEF norms
  <2> QED  BY <2>1 DEF IsShapes
<1>6. IsShapes(main) /\ DOMAIN main = {"q_proj", "k_proj", "v_proj", "o_proj", "q_norm", "k_norm"}
  <2>1. /\ DOMAIN main = {"q_proj", "k_proj", "v_proj", "o_proj", "q_norm", "k_norm"}
        /\ main.q_proj \in ShapeSet /\ main.k_proj \in ShapeSet /\ main.v_proj \in ShapeSet
        /\ main.o_proj \in ShapeSet /\ main.q_norm \in ShapeSet /\ main.k_norm \in ShapeSet
    BY <1>1, <1>3, <1>4, ShapeOf
  <2> HIDE DEF main
  <2> QED  BY <2>1 DEF IsShapes
<1>7. IsShapes(bias) /\ DOMAIN bias = IF c.bias THEN {"q_bias", "k_bias", "v_bias", "o_bias"} ELSE {}
  <2>1. c.bias =>
          /\ DOMAIN bias = {"q_bias", "k_bias", "v_bias", "o_bias"}
          /\ bias.q_bias \in ShapeSet /\ bias.k_bias \in ShapeSet /\ bias.v_bias \in ShapeSet
          /\ bias.o_bias \in ShapeSet
    BY <1>1, <1>4, ShapeOf
  <2>2. ~c.bias => DOMAIN bias = {}
    OBVIOUS
  <2> HIDE DEF bias
  <2> QED  BY <1>1, <2>1, <2>2 DEF IsShapes
<1>8. /\ IsShapes(mlp)
      /\ DOMAIN mlp = IF Q3!IsSparseLayer(c, l) THEN {} ELSE {"gate_proj", "up_proj", "mlp_down_proj"}
  <2>1. ~Q3!IsSparseLayer(c, l) =>
          /\ DOMAIN mlp = {"gate_proj", "up_proj", "mlp_down_proj"}
          /\ mlp.gate_proj \in ShapeSet /\ mlp.up_proj \in ShapeSet /\ mlp.mlp_down_proj \in ShapeSet
    BY <1>1, ShapeOf
  <2>2. Q3!IsSparseLayer(c, l) => DOMAIN mlp = {}
    OBVIOUS
  <2> HIDE DEF mlp
  <2> QED  BY <2>1, <2>2 DEF IsShapes
<1>9. /\ IsShapes(router) /\ DOMAIN router = IF Q3!IsSparseLayer(c, l) THEN {"router"} ELSE {}
      /\ Q3!IsSparseLayer(c, l) => router["router"] = <<c.experts, c.hidden>>
  <2>1. Q3!IsSparseLayer(c, l) => DOMAIN router = {"router"} /\ router.router = <<c.experts, c.hidden>>
    OBVIOUS
  <2>2. ~Q3!IsSparseLayer(c, l) => DOMAIN router = {}
    OBVIOUS
  <2>3. <<c.experts, c.hidden>> \in ShapeSet
    BY <1>1, ShapeOf
  <2> HIDE DEF router
  <2> QED  BY <2>1, <2>2, <2>3 DEF IsShapes
<1>10. /\ Q3!LayerParameters(c, l) = Joined(Joined(norms, Joined(main, bias)), mlp)
       /\ Q3!RouterParameters(c, l) = router
  BY SharedJoined DEF Q3!LayerParameters, Q3!AttentionParameters, Q3!RouterParameters,
     Q3!MlpParameters, query, keyValue, d
<1> HIDE DEF norms, main, bias, mlp, router
<1> DEFINE inner == Joined(Joined(norms, Joined(main, bias)), mlp)
<1>11. /\ IsShapes(inner)
       /\ DOMAIN inner = (DOMAIN norms \cup (DOMAIN main \cup DOMAIN bias)) \cup DOMAIN mlp
  <2>1. IsShapes(Joined(main, bias)) /\ DOMAIN Joined(main, bias) = DOMAIN main \cup DOMAIN bias
    BY <1>6, <1>7, JoinedBoth
  <2>2. /\ IsShapes(Joined(norms, Joined(main, bias)))
        /\ DOMAIN Joined(norms, Joined(main, bias)) = DOMAIN norms \cup DOMAIN Joined(main, bias)
    BY <1>5, <2>1, JoinedBoth
  <2> DEFINE outer == Joined(norms, Joined(main, bias))
  <2> HIDE DEF outer
  <2>3. IsShapes(outer) /\ DOMAIN outer = DOMAIN norms \cup (DOMAIN main \cup DOMAIN bias)
    BY <2>1, <2>2 DEF outer
  <2>4. IsShapes(Joined(outer, mlp)) /\ DOMAIN Joined(outer, mlp) = DOMAIN outer \cup DOMAIN mlp
    BY <1>8, <2>3, JoinedBoth
  <2> QED  BY <2>3, <2>4 DEF outer
<1> HIDE DEF inner
<1>12. /\ IsShapes(Joined(inner, router))
       /\ DOMAIN Joined(inner, router) = DOMAIN inner \cup DOMAIN router
  BY <1>9, <1>11, JoinedBoth
<1>13. "router" \notin DOMAIN inner
  BY <1>1, <1>5, <1>6, <1>7, <1>8, <1>11
<1>14. Q3!IsSparseLayer(c, l) => Joined(inner, router)["router"] = router["router"]
  BY <1>9, <1>13, JoinedSecond
<1>15. DOMAIN Joined(inner, router) = Qwen3Kinds(c, l)
  BY <1>5, <1>6, <1>7, <1>8, <1>9, <1>11, <1>12 DEF Qwen3Kinds
<1> QED  BY <1>9, <1>10, <1>12, <1>14, <1>15 DEF inner

\* The names of one layer.
LEMMA Qwen3Names ==
    ASSUME NEW c, c.bias \in BOOLEAN, NEW l
    PROVE  \E n \in Nat : IsList(Q3!LayerNames(c, l), n)
                          /\ Range(Q3!LayerNames(c, l)) = Qwen3Kinds(c, l)
<1> DEFINE a == <<"input_norm", "post_norm", "q_proj", "k_proj", "v_proj", "o_proj">>
           b == IF c.bias THEN <<"q_bias", "k_bias", "v_bias", "o_bias">> ELSE <<>>
           n == IF c.bias THEN 4 ELSE 0
           e == <<"q_norm", "k_norm">>
           f == IF Q3!IsSparseLayer(c, l) THEN <<"router">>
                ELSE <<"gate_proj", "up_proj", "mlp_down_proj">>
           m == IF Q3!IsSparseLayer(c, l) THEN 1 ELSE 3
<1>1. /\ IsList(a, 6)
      /\ Range(a) = {"input_norm", "post_norm", "q_proj", "k_proj", "v_proj", "o_proj"}
  BY DEF IsList, Range
<1>2. /\ IsList(b, n) /\ n \in Nat
      /\ Range(b) = IF c.bias THEN {"q_bias", "k_bias", "v_bias", "o_bias"} ELSE {}
  BY DEF IsList, Range
<1>3. IsList(e, 2) /\ Range(e) = {"q_norm", "k_norm"}
  BY DEF IsList, Range
<1>4. /\ IsList(f, m) /\ m \in Nat
      /\ Range(f) = IF Q3!IsSparseLayer(c, l) THEN {"router"}
                    ELSE {"gate_proj", "up_proj", "mlp_down_proj"}
  BY DEF IsList, Range
<1>5. Q3!LayerNames(c, l) = ((a \o b) \o e) \o f
  BY DEF Q3!LayerNames, Q3!Biases, Q3!MlpNames
<1> HIDE DEF a, b, e, f, n, m
<1>6. ASSUME NEW x, NEW i \in Nat, IsList(x, i), NEW y, NEW j \in Nat, IsList(y, j)
      PROVE  i + j \in Nat /\ IsList(x \o y, i + j) /\ Range(x \o y) = Range(x) \cup Range(y)
  <2>1. Concatenates(x, i, y, j)
    BY <1>6, ListConcat
  <2>2. Range(x \o y) = Range(x) \cup Range(y)
    BY <1>6, RangeConcat
  <2> QED  BY <2>1, <2>2 DEF Concatenates
<1>7. PICK i \in Nat : IsList(a \o b, i) /\ Range(a \o b) = Range(a) \cup Range(b)
  BY <1>1, <1>2, <1>6
<1>8. PICK j \in Nat : /\ IsList((a \o b) \o e, j)
                       /\ Range((a \o b) \o e) = Range(a \o b) \cup Range(e)
  BY <1>3, <1>6, <1>7
<1>9. PICK k \in Nat : /\ IsList(((a \o b) \o e) \o f, k)
                       /\ Range(((a \o b) \o e) \o f) = Range((a \o b) \o e) \cup Range(f)
  BY <1>4, <1>6, <1>8
<1>10. Range(((a \o b) \o e) \o f) = Qwen3Kinds(c, l)
  BY <1>1, <1>2, <1>3, <1>4, <1>7, <1>8, <1>9 DEF Qwen3Kinds
<1> QED  BY <1>5, <1>9, <1>10

\* The model of a Qwen3 configuration is made of its dense tensors.
LEMMA Qwen3Fits ==
    ASSUME NEW c, c.family = "qwen3_moe", Q3!ConfigType(c), Q3!Validate(c)
    PROVE  IsModel(c)
<1> DEFINE layer(l) == Joined(Q3!LayerParameters(c, l), Q3!RouterParameters(c, l))
           L == [l \in 0..(c.layers - 1) |-> layer(l)]
           G == Q3!GlobalParameters(c)
           names == [l \in 1..c.layers |-> Q3!LayerNames(c, l - 1)]
           sizes == [l \in 1..c.layers |-> CHOOSE n \in Nat : IsList(Q3!LayerNames(c, l - 1), n)]
           global == GlobalList(c.tied)
           p == IF c.tied THEN 2 ELSE 3
<1>1. /\ c.layers \in Nat /\ c.layers # 0 /\ c.tied \in BOOLEAN /\ c.bias \in BOOLEAN
      /\ c.vocab \in Nat /\ c.hidden \in Nat
  BY DEF Q3!ConfigType, Q3!Validate, Q3!NonZero
<1>2. ASSUME NEW l
      PROVE  /\ IsShapes(layer(l)) /\ DOMAIN layer(l) = Qwen3Kinds(c, l)
             /\ Q3!IsSparseLayer(c, l) => layer(l)["router"] = <<c.experts, c.hidden>>
  BY Qwen3Layer
<1>3. /\ IsShapes(G)
      /\ DOMAIN G = {"embed", "norm"} \cup IF c.tied THEN {} ELSE {"lm_head"}
  <2> DEFINE a == [embed |-> <<c.vocab, c.hidden>>, norm |-> <<c.hidden>>]
             b == IF c.tied THEN <<>> ELSE [lm_head |-> <<c.vocab, c.hidden>>]
  <2>1. IsShapes(a) /\ DOMAIN a = {"embed", "norm"}
    <3>1. DOMAIN a = {"embed", "norm"} /\ a.embed \in ShapeSet /\ a.norm \in ShapeSet
      BY <1>1, ShapeOf
    <3> HIDE DEF a
    <3> QED  BY <3>1 DEF IsShapes
  <2>2. IsShapes(b) /\ DOMAIN b = IF c.tied THEN {} ELSE {"lm_head"}
    <3>1. c.tied => DOMAIN b = {}
      OBVIOUS
    <3>2. ~c.tied => DOMAIN b = {"lm_head"} /\ b.lm_head \in ShapeSet
      BY <1>1, ShapeOf
    <3> HIDE DEF b
    <3> QED  BY <1>1, <3>1, <3>2 DEF IsShapes
  <2>3. G = Joined(a, b)
    BY SharedJoined DEF Q3!GlobalParameters
  <2> HIDE DEF a, b, G
  <2> QED  BY <2>1, <2>2, <2>3, JoinedBoth
<1>4. ModelParameters(c) = Parameters(G, L)
  BY SharedJoined, SharedParameters DEF ModelParameters, InFamily, Q3!ModelParameters
<1>5. DenseNames(c) = NameList(global, names, c.layers)
  <2>1. [l \in 1..c.layers |-> LET given == Q3!LayerNames(c, l - 1)
                               IN [n \in DOMAIN given |-> <<l - 1, given[n]>>]]
          = Numbered(names, c.layers)
    BY DEF Numbered
  <2>2. DenseNames(c) = Q3!DenseNames(c)
    BY DEF DenseNames, InFamily
  <2> QED  BY <2>1, <2>2, SharedFlatten DEF Q3!DenseNames, Q3!GlobalNames, GlobalList, NameList
<1>6. SparseLayers(c) = Q3!SparseLayers(c) /\ SparseLayers(c) # <<>>
  BY DEF SparseLayers, InFamily, Q3!Validate
<1>7. /\ Len(SparseLayers(c)) \in Nat /\ IsList(SparseLayers(c), Len(SparseLayers(c)))
      /\ Range(SparseLayers(c)) = {l \in 0..(c.layers - 1) : Q3!IsSparseLayer(c, l)}
  BY <1>1, <1>6, SparseListed
<1> HIDE DEF layer, G, global
<1>8. NamesFit(names, sizes, L, c.layers)
  <2>1. ASSUME NEW l \in 1..c.layers
        PROVE  sizes[l] \in Nat /\ IsList(names[l], sizes[l]) /\ Range(names[l]) = DOMAIN L[l - 1]
    <3> DEFINE given == Q3!LayerNames(c, l - 1)
    <3>1. /\ names[l] = given /\ L[l - 1] = layer(l - 1)
          /\ sizes[l] = CHOOSE n \in Nat : IsList(given, n)
      BY <1>1
    <3>2. \E n \in Nat : IsList(given, n) /\ Range(given) = Qwen3Kinds(c, l - 1)
      BY <1>1, Qwen3Names
    <3> HIDE DEF given, names, sizes, L
    <3>3. Range(given) = DOMAIN L[l - 1]
      BY <1>2, <3>1, <3>2
    <3>4. sizes[l] \in Nat /\ IsList(given, sizes[l])
      BY <3>1, <3>2
    <3> QED  BY <3>1, <3>3, <3>4
  <2>2. DOMAIN L = 0..(c.layers - 1)
    OBVIOUS
  <2> HIDE DEF names, sizes, L
  <2> QED  BY <1>1, <2>1, <2>2 DEF NamesFit
<1>9. GlobalsFit(global, p, G)
  BY <1>1, <1>3, GlobalListed DEF global, GlobalsFit
<1>10. DOMAIN L = 0..(c.layers - 1) /\ \A l \in DOMAIN L : L[l] = layer(l)
  OBVIOUS
<1> HIDE DEF L, names, sizes, p
<1>11. ListsAll(DenseNames(c), G, L)
  BY <1>5, <1>8, <1>9, NamesModel
<1>12. {"embed", "norm"} \subseteq DOMAIN G /\ DOMAIN G \subseteq GlobalKinds
  BY <1>3 DEF GlobalKinds
<1>13. ASSUME NEW l \in DOMAIN L
       PROVE  /\ IsShapes(L[l]) /\ DOMAIN L[l] \cap FusedKinds = {}
              /\ "router" \in DOMAIN L[l] <=> Q3!IsSparseLayer(c, l)
              /\ Q3!IsSparseLayer(c, l) => L[l]["router"] = <<c.experts, c.hidden>>
  <2>1. L[l] = layer(l) /\ DOMAIN L[l] = Qwen3Kinds(c, l)
    BY <1>2, <1>10
  <2>2. /\ Qwen3Kinds(c, l) \cap FusedKinds = {}
        /\ "router" \in Qwen3Kinds(c, l) <=> Q3!IsSparseLayer(c, l)
    BY <1>1 DEF Qwen3Kinds, FusedKinds
  <2> QED  BY <1>2, <2>1, <2>2
<1>14. /\ \A l \in DOMAIN L : "router" \in DOMAIN L[l] <=> l \in Range(SparseLayers(c))
       /\ \A l \in Range(SparseLayers(c)) :
            l \in DOMAIN L /\ L[l]["router"] = <<c.experts, c.hidden>>
  BY <1>7, <1>10, <1>13
<1>16. Fits(c, G, L)
  BY <1>3, <1>4, <1>6, <1>7, <1>10, <1>11, <1>12, <1>13, <1>14 DEF Fits, ListsAll
<1> QED  BY <1>16, FitsIsModel

(***************************************************************************)
(* The model of Qwen3.6.                                                   *)
(***************************************************************************)

FullKinds == {"q_proj", "k_proj", "v_proj", "o_proj", "q_norm", "k_norm"}

LinearKinds ==
    {"conv1d", "A_log", "dt_bias", "in_proj_qkv", "in_proj_z", "in_proj_b", "in_proj_a",
     "out_proj", "linear_norm"}

SharedKinds == {"shared_gate_proj", "shared_up_proj", "shared_down_proj", "shared_gate"}

Qwen35Kinds(c, l) ==
    {"input_norm", "post_norm", "router"} \cup SharedKinds
        \cup (IF Q35!IsFullLayer(c, l) THEN FullKinds ELSE LinearKinds)

\* The parameters of one layer.
LEMMA Qwen35Layer ==
    ASSUME NEW c, Q35!ConfigType(c), Q35!Validate(c), NEW l
    PROVE  LET layer == Joined(Q35!LayerParameters(c, l), Q35!RouterParameters(c)) IN
           /\ IsShapes(layer) /\ DOMAIN layer = Qwen35Kinds(c, l)
           /\ layer["router"] = <<c.experts, c.hidden>>
<1> DEFINE query == c.heads * c.headDim  keyValue == c.kvHeads * c.headDim  double == 2 * query
           conv == Q35!ConvWidth(c)  value == Q35!ValueWidth(c)
           norms == [input_norm |-> <<c.hidden>>, post_norm |-> <<c.hidden>>]
           full == [q_proj |-> <<double, c.hidden>>, k_proj |-> <<keyValue, c.hidden>>,
                    v_proj |-> <<keyValue, c.hidden>>, o_proj |-> <<c.hidden, query>>,
                    q_norm |-> <<c.headDim>>, k_norm |-> <<c.headDim>>]
           linear == [conv1d      |-> <<conv, 1, c.kernel>>,
                      A_log       |-> <<c.valueHeads>>, dt_bias |-> <<c.valueHeads>>,
                      in_proj_qkv |-> <<conv, c.hidden>>, in_proj_z |-> <<value, c.hidden>>,
                      in_proj_b   |-> <<c.valueHeads, c.hidden>>,
                      in_proj_a   |-> <<c.valueHeads, c.hidden>>,
                      out_proj    |-> <<c.hidden, value>>, linear_norm |-> <<c.valueDim>>]
           mixer == IF Q35!IsFullLayer(c, l) THEN full ELSE linear
           shared == [shared_gate_proj |-> <<c.shared, c.hidden>>,
                      shared_up_proj   |-> <<c.shared, c.hidden>>,
                      shared_down_proj |-> <<c.hidden, c.shared>>,
                      shared_gate      |-> <<1, c.hidden>>]
           router == [router |-> <<c.experts, c.hidden>>]
<1>1. /\ c.hidden \in Nat /\ c.heads \in Nat /\ c.kvHeads \in Nat /\ c.experts \in Nat
      /\ c.headDim \in Nat /\ c.kernel \in Nat /\ c.valueHeads \in Nat /\ c.valueDim \in Nat
      /\ c.keyHeads \in Nat /\ c.keyDim \in Nat /\ c.shared \in Nat /\ 1 \in Nat
  BY DEF Q35!ConfigType
<1>2. query \in Nat /\ keyValue \in Nat /\ double \in Nat /\ conv \in Nat /\ value \in Nat
  <2>1. \A a, b \in Nat : a * b \in Nat
    OBVIOUS
  <2>2. c.keyHeads * c.keyDim \in Nat /\ c.valueHeads * c.valueDim \in Nat
        /\ c.heads * c.headDim \in Nat /\ c.kvHeads * c.headDim \in Nat
    BY <1>1, <2>1
  <2> QED  BY <2>1, <2>2 DEF Q35!ConvWidth, Q35!KeyWidth, Q35!ValueWidth
<1>3. /\ Q35!LayerParameters(c, l) = Joined(Joined(norms, mixer), shared)
      /\ Q35!RouterParameters(c) = router
  BY SharedJoined DEF Q35!LayerParameters, Q35!AttentionParameters, Q35!LinearParameters,
     Q35!SharedParameters, Q35!RouterParameters
<1> HIDE DEF query, keyValue, double, conv, value
<1>4. IsShapes(norms) /\ DOMAIN norms = {"input_norm", "post_norm"}
  <2>1. /\ DOMAIN norms = {"input_norm", "post_norm"}
        /\ norms.input_norm \in ShapeSet /\ norms.post_norm \in ShapeSet
    BY <1>1, ShapeOf
  <2> HIDE DEF norms
  <2> QED  BY <2>1 DEF IsShapes
<1>5. IsShapes(full) /\ DOMAIN full = {"q_proj", "k_proj", "v_proj", "o_proj",
                                 "q_norm", "k_norm"}
  <2>1. /\ DOMAIN full = {"q_proj", "k_proj", "v_proj", "o_proj", "q_norm",
                         "k_norm"}
        /\ full.q_proj \in ShapeSet /\ full.k_proj \in ShapeSet
        /\ full.v_proj \in ShapeSet /\ full.o_proj \in ShapeSet
        /\ full.q_norm \in ShapeSet /\ full.k_norm \in ShapeSet
    BY <1>1, <1>2, ShapeOf
  <2> HIDE DEF full
  <2> QED  BY <2>1 DEF IsShapes
<1>6. IsShapes(linear) /\ DOMAIN linear = {"conv1d", "A_log", "dt_bias", "in_proj_qkv",
                                 "in_proj_z", "in_proj_b", "in_proj_a",
                                 "out_proj", "linear_norm"}
  <2>1. /\ DOMAIN linear = {"conv1d", "A_log", "dt_bias", "in_proj_qkv",
                         "in_proj_z", "in_proj_b", "in_proj_a", "out_proj",
                         "linear_norm"}
        /\ linear.conv1d \in ShapeSet /\ linear.A_log \in ShapeSet
        /\ linear.dt_bias \in ShapeSet /\ linear.in_proj_qkv \in ShapeSet
        /\ linear.in_proj_z \in ShapeSet /\ linear.in_proj_b \in ShapeSet
        /\ linear.in_proj_a \in ShapeSet /\ linear.out_proj \in ShapeSet
        /\ linear.linear_norm \in ShapeSet
    BY <1>1, <1>2, ShapeOf
  <2> HIDE DEF linear
  <2> QED  BY <2>1 DEF IsShapes
<1>7. /\ IsShapes(mixer)
      /\ DOMAIN mixer = IF Q35!IsFullLayer(c, l) THEN FullKinds ELSE LinearKinds
  <2> HIDE DEF full, linear
  <2> QED  BY <1>5, <1>6 DEF FullKinds, LinearKinds
<1>8. IsShapes(shared) /\ DOMAIN shared = {"shared_gate_proj", "shared_up_proj",
                                 "shared_down_proj", "shared_gate"}
  <2>1. /\ DOMAIN shared = {"shared_gate_proj", "shared_up_proj",
                         "shared_down_proj", "shared_gate"}
        /\ shared.shared_gate_proj \in ShapeSet /\ shared.shared_up_proj \in ShapeSet
        /\ shared.shared_down_proj \in ShapeSet /\ shared.shared_gate \in ShapeSet
    BY <1>1, ShapeOf
  <2> HIDE DEF shared
  <2> QED  BY <2>1 DEF IsShapes
<1>9. /\ IsShapes(router) /\ DOMAIN router = {"router"}
      /\ router["router"] = <<c.experts, c.hidden>>
  <2>1. DOMAIN router = {"router"} /\ router.router = <<c.experts, c.hidden>>
    OBVIOUS
  <2>2. <<c.experts, c.hidden>> \in ShapeSet
    BY <1>1, ShapeOf
  <2> HIDE DEF router
  <2> QED  BY <2>1, <2>2 DEF IsShapes
<1> HIDE DEF norms, mixer, shared, router
<1> DEFINE outer == Joined(norms, mixer)  inner == Joined(outer, shared)
<1>10. IsShapes(outer) /\ DOMAIN outer = DOMAIN norms \cup DOMAIN mixer
  BY <1>4, <1>7, JoinedBoth
<1> HIDE DEF outer
<1>11. IsShapes(inner) /\ DOMAIN inner = DOMAIN outer \cup DOMAIN shared
  BY <1>8, <1>10, JoinedBoth
<1> HIDE DEF inner
<1>12. /\ IsShapes(Joined(inner, router))
       /\ DOMAIN Joined(inner, router) = DOMAIN inner \cup DOMAIN router
  BY <1>9, <1>11, JoinedBoth
<1>13. "router" \notin DOMAIN inner
  BY <1>4, <1>7, <1>8, <1>10, <1>11 DEF FullKinds, LinearKinds
<1>14. Joined(inner, router)["router"] = router["router"]
  BY <1>9, <1>13, JoinedSecond
<1>15. DOMAIN Joined(inner, router) = Qwen35Kinds(c, l)
  BY <1>4, <1>7, <1>8, <1>9, <1>10, <1>11, <1>12 DEF Qwen35Kinds, SharedKinds
<1> QED  BY <1>3, <1>9, <1>12, <1>14, <1>15 DEF inner, outer

\* The names of one layer.
LEMMA Qwen35Names ==
    ASSUME NEW c, NEW l
    PROVE  \E n \in Nat : IsList(Q35!LayerNames(c, l), n)
                          /\ Range(Q35!LayerNames(c, l)) = Qwen35Kinds(c, l)
<1> DEFINE a == <<"input_norm", "post_norm">>
           b == Q35!MixerNames(c.kinds[l + 1])
           n == IF Q35!IsFullLayer(c, l) THEN 6 ELSE 9
           e == <<"router", "shared_gate_proj", "shared_up_proj", "shared_down_proj", "shared_gate">>
<1>1. IsList(a, 2) /\ Range(a) = {"input_norm", "post_norm"}
  BY DEF IsList, Range
<1>2. /\ IsList(b, n) /\ n \in Nat
      /\ Range(b) = IF Q35!IsFullLayer(c, l) THEN FullKinds ELSE LinearKinds
  <2> DEFINE x == <<"q_proj", "k_proj", "v_proj", "o_proj", "q_norm", "k_norm">>
             y == <<"A_log", "conv1d", "dt_bias", "in_proj_a", "in_proj_b", "in_proj_qkv",
                    "in_proj_z", "linear_norm", "out_proj">>
  <2>1. IsList(x, 6) /\ Range(x) = FullKinds
    BY DEF IsList, Range, FullKinds
  <2>2. IsList(y, 9) /\ Range(y) = LinearKinds
    BY DEF IsList, Range, LinearKinds
  <2>3. b = IF Q35!IsFullLayer(c, l) THEN x ELSE y
    BY DEF Q35!MixerNames, Q35!IsFullLayer
  <2> HIDE DEF x, y, b
  <2> QED  BY <2>1, <2>2, <2>3
<1>3. IsList(e, 5) /\ Range(e) = {"router"} \cup SharedKinds
  BY DEF IsList, Range, SharedKinds
<1>4. Q35!LayerNames(c, l) = (a \o b) \o e
  BY DEF Q35!LayerNames
<1> HIDE DEF a, b, e, n
<1>5. ASSUME NEW x, NEW i \in Nat, IsList(x, i), NEW y, NEW j \in Nat, IsList(y, j)
      PROVE  i + j \in Nat /\ IsList(x \o y, i + j) /\ Range(x \o y) = Range(x) \cup Range(y)
  <2>1. Concatenates(x, i, y, j)
    BY <1>5, ListConcat
  <2>2. Range(x \o y) = Range(x) \cup Range(y)
    BY <1>5, RangeConcat
  <2> QED  BY <2>1, <2>2 DEF Concatenates
<1>6. PICK i \in Nat : IsList(a \o b, i) /\ Range(a \o b) = Range(a) \cup Range(b)
  BY <1>1, <1>2, <1>5
<1> DEFINE ab == a \o b
<1>7. IsList(ab, i) /\ Range(ab) = Range(a) \cup Range(b)
  BY <1>6
<1>8. Q35!LayerNames(c, l) = ab \o e
  BY <1>4
<1> HIDE DEF ab
<1>9. PICK j \in Nat : IsList(ab \o e, j) /\ Range(ab \o e) = Range(ab) \cup Range(e)
  BY <1>3, <1>5, <1>7
<1>10. Range(ab \o e) = Qwen35Kinds(c, l)
  BY <1>1, <1>2, <1>3, <1>7, <1>9 DEF Qwen35Kinds
<1> QED  BY <1>8, <1>9, <1>10

\* The model of a Qwen3.6 configuration is made of its dense tensors.
LEMMA Qwen35Fits ==
    ASSUME NEW c, c.family = "qwen3_5_moe", Q35!ConfigType(c), Q35!Validate(c)
    PROVE  IsModel(c)
<1> DEFINE layer(l) == Joined(Q35!LayerParameters(c, l), Q35!RouterParameters(c))
           L == [l \in 0..(c.layers - 1) |-> layer(l)]
           G == Q35!GlobalParameters(c)
           names == [l \in 1..c.layers |-> Q35!LayerNames(c, l - 1)]
           sizes == [l \in 1..c.layers |-> CHOOSE n \in Nat : IsList(Q35!LayerNames(c, l - 1), n)]
           global == <<<<"embed">>, <<"norm">>, <<"lm_head">>>>
<1>1. /\ c.layers \in Nat /\ c.layers # 0 /\ c.vocab \in Nat /\ c.hidden \in Nat
  BY DEF Q35!ConfigType, Q35!Validate, Q35!NonZero
<1>2. ASSUME NEW l
      PROVE  /\ IsShapes(layer(l)) /\ DOMAIN layer(l) = Qwen35Kinds(c, l)
             /\ layer(l)["router"] = <<c.experts, c.hidden>>
  BY Qwen35Layer
<1>3. IsShapes(G) /\ DOMAIN G = {"embed", "norm", "lm_head"}
  <2>1. /\ DOMAIN G = {"embed", "norm", "lm_head"}
        /\ G.embed \in ShapeSet /\ G.norm \in ShapeSet /\ G.lm_head \in ShapeSet
    BY <1>1, ShapeOf DEF Q35!GlobalParameters
  <2> HIDE DEF G
  <2> QED  BY <2>1 DEF IsShapes
<1>4. ModelParameters(c) = Parameters(G, L)
  BY SharedJoined, SharedParameters DEF ModelParameters, InFamily, Q35!ModelParameters
<1>5. DenseNames(c) = NameList(global, names, c.layers)
  <2>1. [l \in 1..c.layers |-> LET given == Q35!LayerNames(c, l - 1)
                               IN [n \in DOMAIN given |-> <<l - 1, given[n]>>]]
          = Numbered(names, c.layers)
    BY DEF Numbered
  <2>2. DenseNames(c) = Q35!DenseNames(c)
    BY DEF DenseNames, InFamily
  <2> QED  BY <2>1, <2>2, SharedFlatten DEF Q35!DenseNames, NameList
<1>6. SparseLayers(c) = Indices(c.layers)
  BY SharedIndices DEF SparseLayers, InFamily, Q35!SparseLayers
<1>7. /\ Range(SparseLayers(c)) = 0..(c.layers - 1) /\ Len(SparseLayers(c)) = c.layers
      /\ IsList(SparseLayers(c), c.layers)
  BY <1>1, <1>6, IndicesList
<1>8. GlobalsFit(global, 3, G)
  <2>1. IsList(global, 3) /\ Range(global) = {<<"embed">>, <<"norm">>, <<"lm_head">>}
    BY DEF IsList, Range
  <2> HIDE DEF global, G
  <2>2. Range(global) = GlobalNamesOf(DOMAIN G)
    BY <1>3, <2>1 DEF GlobalNamesOf
  <2> QED  BY <2>1, <2>2 DEF GlobalsFit
<1> HIDE DEF layer, G, global
<1>9. NamesFit(names, sizes, L, c.layers)
  <2>1. ASSUME NEW l \in 1..c.layers
        PROVE  sizes[l] \in Nat /\ IsList(names[l], sizes[l]) /\ Range(names[l]) = DOMAIN L[l - 1]
    <3> DEFINE given == Q35!LayerNames(c, l - 1)
    <3>1. /\ names[l] = given /\ L[l - 1] = layer(l - 1)
          /\ sizes[l] = CHOOSE n \in Nat : IsList(given, n)
      BY <1>1
    <3>2. \E n \in Nat : IsList(given, n) /\ Range(given) = Qwen35Kinds(c, l - 1)
      BY <1>1, Qwen35Names
    <3> HIDE DEF given, names, sizes, L
    <3>3. Range(given) = DOMAIN L[l - 1]
      BY <1>2, <3>1, <3>2
    <3>4. sizes[l] \in Nat /\ IsList(given, sizes[l])
      BY <3>1, <3>2
    <3> QED  BY <3>1, <3>3, <3>4
  <2>2. DOMAIN L = 0..(c.layers - 1)
    OBVIOUS
  <2> HIDE DEF names, sizes, L
  <2> QED  BY <1>1, <2>1, <2>2 DEF NamesFit
<1>10. DOMAIN L = 0..(c.layers - 1) /\ \A l \in DOMAIN L : L[l] = layer(l)
  OBVIOUS
<1> HIDE DEF L, names, sizes
<1>11. ListsAll(DenseNames(c), G, L)
  BY <1>5, <1>8, <1>9, NamesModel
<1>12. {"embed", "norm"} \subseteq DOMAIN G /\ DOMAIN G \subseteq GlobalKinds
  BY <1>3 DEF GlobalKinds
<1>13. ASSUME NEW l \in DOMAIN L
       PROVE  /\ IsShapes(L[l]) /\ DOMAIN L[l] \cap FusedKinds = {}
              /\ "router" \in DOMAIN L[l] /\ L[l]["router"] = <<c.experts, c.hidden>>
  <2>1. L[l] = layer(l) /\ DOMAIN L[l] = Qwen35Kinds(c, l)
    BY <1>2, <1>10
  <2>2. Qwen35Kinds(c, l) \cap FusedKinds = {} /\ "router" \in Qwen35Kinds(c, l)
    BY DEF Qwen35Kinds, FusedKinds, SharedKinds, FullKinds, LinearKinds
  <2> QED  BY <1>2, <2>1, <2>2
<1>14. /\ \A l \in DOMAIN L : "router" \in DOMAIN L[l] <=> l \in Range(SparseLayers(c))
       /\ \A l \in Range(SparseLayers(c)) :
            l \in DOMAIN L /\ L[l]["router"] = <<c.experts, c.hidden>>
  BY <1>7, <1>10, <1>13
<1>15. SparseLayers(c) # <<>>
  BY <1>1, <1>7
<1>16. Fits(c, G, L)
  BY <1>1, <1>3, <1>4, <1>7, <1>10, <1>11, <1>12, <1>13, <1>14, <1>15 DEF Fits, ListsAll
<1> QED  BY <1>16, FitsIsModel

\* The model of any valid configuration is made of its dense tensors.
LEMMA ConfigIsModel ==
    ASSUME NEW c, Detect(c), ConfigType(c), Validate(c)
    PROVE  IsModel(c)
<1>1. CASE c.family = "olmoe"
  BY <1>1, OlmoeFits DEF ConfigType, Validate, InFamily
<1>2. CASE c.family = "qwen3_moe"
  BY <1>2, Qwen3Fits DEF ConfigType, Validate, InFamily
<1>3. CASE c.family = "qwen3_5_moe"
  BY <1>3, Qwen35Fits DEF ConfigType, Validate, InFamily
<1> QED  BY <1>1, <1>2, <1>3 DEF Detect

(***************************************************************************)
(* The source of a job.                                                    *)
(***************************************************************************)

DenseShard(j) == Source(j).files.first

ExpertShard(j) == Source(j).files.second

\* Tensors no model asks for.
Extra(j) == IF j.flaw = "extra" THEN {<<"extra">>}
            ELSE IF j.flaw = "ignored" THEN {<<"visual">>} ELSE {}

\* The two shards of a source.
LEMMA SourceParts ==
    ASSUME NEW j
    PROVE  /\ DenseShard(j) =
                Joined([n \in DOMAIN ModelParameters(j.base) |->
                          DenseTensor(j, n, ModelParameters(j.base)[n])],
                       [n \in Extra(j) |-> [scalar |-> "f32", shape |-> <<1>>, owner |-> "own"]])
           /\ ExpertShard(j) = [n \in DOMAIN ExpertShapes(j.base, j.layout) |->
                ExpertTensor(j, n, ExpertShapes(j.base, j.layout)[n])]
           /\ InDirectory(Source(j)) = Joined(DenseShard(j), ExpertShard(j))
BY Zenon DEF DenseShard, ExpertShard, Extra, InDirectory, Source

\* What the experts of a valid configuration are made of.
LEMMA Geometry ==
    ASSUME NEW c, Detect(c), ConfigType(c)
    PROVE  /\ MoeConfig(c).hidden = c.hidden /\ MoeConfig(c).intermediate = c.intermediate
           /\ MoeConfig(c).experts = c.experts /\ IsGeometry(MoeConfig(c))
           /\ Validate(c) => c.hidden # 0 /\ c.intermediate # 0 /\ c.experts # 0
<1>1. CASE c.family = "olmoe"
  BY <1>1 DEF MoeConfig, ConfigType, Validate, InFamily, O!MoeConfig, O!ConfigType, O!Validate,
     O!NonZero, IsGeometry
<1>2. CASE c.family = "qwen3_moe"
  BY <1>2 DEF MoeConfig, ConfigType, Validate, InFamily, Q3!MoeConfig, Q3!ConfigType, Q3!Validate,
     Q3!NonZero, IsGeometry
<1>3. CASE c.family = "qwen3_5_moe"
  BY <1>3 DEF MoeConfig, ConfigType, Validate, InFamily, Q35!MoeConfig, Q35!ConfigType,
     Q35!Validate, Q35!NonZero, IsGeometry
<1> QED  BY <1>1, <1>2, <1>3 DEF Detect

\* What is known of the configuration the tensors were made for.
LEMMA JobBase ==
    ASSUME NEW j \in Jobs
    PROVE  /\ Detect(j.base) /\ IsModel(j.base) /\ IsGeometry(MoeConfig(j.base))
           /\ j.base.family = "olmoe" => j.layout = "split"
           /\ j.base.family = "qwen3_5_moe" => j.layout = "fused"
           /\ j.layout \in {"split", "fused"} /\ j.scalar \in Scalars
           /\ j.perFile \in Nat /\ j.maxBuffer \in Nat
<1>1. /\ Detect(j.base) /\ ConfigType(j.base) /\ Validate(j.base)
      /\ j.layout \in LayoutsOf(j.base) /\ j.scalar \in Scalars
      /\ j.perFile \in Nat /\ j.maxBuffer \in Nat
  BY JobsAssumption, Zenon
<1>2. IsModel(j.base) /\ IsGeometry(MoeConfig(j.base))
  BY <1>1, ConfigIsModel, Geometry
<1>3. Range(Q3!Layouts) = {"split", "fused"}
  BY DEF Q3!Layouts, Range
<1>4. CASE j.base.family = "olmoe"
  BY <1>1, <1>2, <1>4 DEF LayoutsOf, InFamily
<1>5. CASE j.base.family = "qwen3_moe"
  BY <1>1, <1>2, <1>3, <1>5 DEF LayoutsOf, InFamily
<1>6. CASE j.base.family = "qwen3_5_moe"
  BY <1>1, <1>2, <1>6 DEF LayoutsOf, InFamily
<1> QED  BY <1>1, <1>4, <1>5, <1>6 DEF Detect

\* The name of a matrix of one expert, or of an array of all experts of a layer.
MatrixName(name) == \E l, e, m : name = <<l, e, m>>

FusedName(name) == \E l, n : n \in FusedKinds /\ name = <<l, n>>

IgnoredName(name) == name \in {<<"extra">>, <<"visual">>, <<"mtp">>}

\* A name is of one kind.
LEMMA NameKinds ==
    ASSUME NEW name
    PROVE  /\ ~(DenseName(name) /\ MatrixName(name)) /\ ~(DenseName(name) /\ FusedName(name))
           /\ ~(MatrixName(name) /\ FusedName(name)) /\ ~(DenseName(name) /\ IgnoredName(name))
           /\ ~(IgnoredName(name) /\ MatrixName(name)) /\ ~(IgnoredName(name) /\ FusedName(name))
<1>1. ~(DenseName(name) /\ MatrixName(name))
  BY KindsDiffer DEF DenseName, MatrixName
<1>2. ~(MatrixName(name) /\ FusedName(name))
  BY KindsDiffer DEF MatrixName, FusedName
<1>3. ASSUME DenseName(name), FusedName(name) PROVE FALSE
  <2>1. PICK l, n : n \in FusedKinds /\ name = <<l, n>>
    BY <1>3 DEF FusedName
  <2>2. \A g : name # <<g>>
    BY <2>1, KindsDiffer
  <2>3. PICK k, m : m \notin FusedKinds /\ name = <<k, m>>
    BY <1>3, <2>2 DEF DenseName
  <2> QED  BY <2>1, <2>3
<1>4. ASSUME IgnoredName(name) PROVE \E x \in {"extra", "visual", "mtp"} : name = <<x>>
  BY <1>4 DEF IgnoredName
<1>5. ASSUME IgnoredName(name), DenseName(name) PROVE FALSE
  <2>1. PICK x \in {"extra", "visual", "mtp"} : name = <<x>>
    BY <1>4, <1>5
  <2>2. PICK g \in GlobalKinds : name = <<g>>
    BY <1>5, <2>1, KindsDiffer DEF DenseName
  <2>3. x = g
    BY <2>1, <2>2
  <2> QED  BY <2>3 DEF GlobalKinds
<1>6. ~(IgnoredName(name) /\ MatrixName(name)) /\ ~(IgnoredName(name) /\ FusedName(name))
  BY <1>4, KindsDiffer DEF MatrixName, FusedName
<1> QED  BY <1>1, <1>2, <1>3, <1>5, <1>6

\* A shape with its dimensions in the other order is a shape.
LEMMA ReversedShape ==
    ASSUME NEW shape \in ShapeSet
    PROVE  Reverse(shape) \in ShapeSet
<1>1. /\ Len(shape) \in Nat /\ \A i \in 1..Len(shape) : shape[i] \in Nat
  BY DEF ShapeSet
<1>2. \A i \in 1..Len(shape) : (Len(shape) - i) + 1 \in 1..Len(shape)
  BY <1>1
<1>3. Reverse(shape) \in [1..Len(shape) -> Nat]
  BY <1>1, <1>2 DEF Reverse
<1> QED  BY <1>1, <1>3, SeqDef DEF ShapeSet

\* The experts' tensors: their names, and that each has a shape.
LEMMA ExpertTensors ==
    ASSUME NEW b, IsGeometry(MoeConfig(b)), NEW layout \in {"split", "fused"}
    PROVE  LET shapes == ExpertShapes(b, layout) IN
           /\ IsShapes(shapes)
           /\ layout = "split" => \A name \in DOMAIN shapes : MatrixName(name)
           /\ layout = "fused" => \A name \in DOMAIN shapes : FusedName(name)
           /\ layout = "fused" => \A l \in Range(SparseLayers(b)) :
                /\ <<l, "gate_up_proj">> \in DOMAIN shapes
                /\ shapes[<<l, "gate_up_proj">>] =
                     <<MoeConfig(b).experts, 2 * MoeConfig(b).intermediate, MoeConfig(b).hidden>>
<1> DEFINE moe == MoeConfig(b)
           shapes == ExpertShapes(b, layout)
<1>1. /\ moe.hidden \in Nat /\ moe.intermediate \in Nat /\ moe.experts \in Nat
      /\ 2 * moe.intermediate \in Nat
  BY DEF IsGeometry
<1>2. CASE layout = "split"
  <2>1. shapes = SplitParameters(moe, SparseLayers(b))
    BY <1>2 DEF ExpertShapes
  <2>2. ASSUME NEW name \in DOMAIN shapes PROVE MatrixName(name) /\ shapes[name] \in ShapeSet
    <3>1. PICK l, e : name \in Range(MatrixNames(l, e))
      BY <2>1 DEF SplitParameters
    <3>2. MatrixName(name)
      BY <3>1 DEF MatrixName, MatrixNames, Range
    <3>3. shapes[name] \in {<<moe.hidden, moe.intermediate>>, <<moe.intermediate, moe.hidden>>}
      BY <2>1 DEF SplitParameters
    <3>4. <<moe.hidden, moe.intermediate>> \in ShapeSet /\ <<moe.intermediate, moe.hidden>> \in ShapeSet
      BY <1>1, ShapeOf
    <3> QED  BY <3>2, <3>3, <3>4
  <2> QED  BY <1>2, <2>2 DEF IsShapes
<1>3. CASE layout = "fused"
  <2>1. shapes = FusedParameters(moe, SparseLayers(b))
    BY <1>3 DEF ExpertShapes
  <2>2. ASSUME NEW name \in DOMAIN shapes PROVE FusedName(name) /\ shapes[name] \in ShapeSet
    <3>1. PICK l : name \in FusedNames(l)
      BY <2>1 DEF FusedParameters
    <3>2. FusedName(name)
      BY <3>1 DEF FusedName, FusedNames, FusedKinds
    <3>3. shapes[name] \in {<<moe.experts, moe.hidden, moe.intermediate>>,
                            <<moe.experts, 2 * moe.intermediate, moe.hidden>>}
      BY <2>1 DEF FusedParameters
    <3>4. /\ <<moe.experts, moe.hidden, moe.intermediate>> \in ShapeSet
          /\ <<moe.experts, 2 * moe.intermediate, moe.hidden>> \in ShapeSet
      BY <1>1, ShapeOf
    <3> QED  BY <3>2, <3>3, <3>4
  <2>3. ASSUME NEW l \in Range(SparseLayers(b))
        PROVE  /\ <<l, "gate_up_proj">> \in DOMAIN shapes
               /\ shapes[<<l, "gate_up_proj">>] = <<moe.experts, 2 * moe.intermediate, moe.hidden>>
    <3>1. <<l, "gate_up_proj">> \in FusedNames(l)
      BY DEF FusedNames
    <3> QED  BY <2>1, <3>1 DEF FusedParameters
  <2> QED  BY <1>3, <2>2, <2>3 DEF IsShapes
<1> QED  BY <1>2, <1>3
\* The dense tensors of a source.
LEMMA DenseTensors ==
    ASSUME NEW j \in Jobs
    PROVE  /\ DOMAIN DenseShard(j) = DOMAIN ModelParameters(j.base) \cup Extra(j)
           /\ \A name \in DOMAIN ModelParameters(j.base) :
                DenseShard(j)[name].shape = ModelParameters(j.base)[name]
           /\ \A name \in DOMAIN DenseShard(j) :
                /\ DenseShard(j)[name].shape \in ShapeSet
                /\ DenseName(name) \/ IgnoredName(name)
<1> DEFINE shapes == ModelParameters(j.base)
           own == [n \in DOMAIN shapes |-> DenseTensor(j, n, shapes[n])]
           other == [n \in Extra(j) |-> [scalar |-> "f32", shape |-> <<1>>, owner |-> "own"]]
<1>1. DenseShard(j) = Joined(own, other)
  BY SourceParts
<1>2. IsShapes(shapes) /\ \A name \in DOMAIN shapes : DenseName(name)
  BY JobBase DEF IsModel
<1>3. DOMAIN own = DOMAIN shapes /\ \A n \in DOMAIN shapes : own[n].shape = shapes[n]
  <2>1. \A n, x : DenseTensor(j, n, x).shape = x
    BY DEF DenseTensor
  <2>2. DOMAIN own = DOMAIN shapes /\ \A n \in DOMAIN shapes : own[n] = DenseTensor(j, n, shapes[n])
    OBVIOUS
  <2> HIDE DEF own, shapes
  <2> QED  BY <2>1, <2>2
<1>4. DOMAIN other = Extra(j) /\ \A n \in Extra(j) : other[n].shape = <<1>>
  OBVIOUS
<1>5. \A n \in Extra(j) : IgnoredName(n)
  BY DEF Extra, IgnoredName
<1>6. <<1>> \in ShapeSet
  BY DEF ShapeSet
<1> HIDE DEF own, other, shapes
<1>7. DOMAIN DenseShard(j) = DOMAIN shapes \cup Extra(j)
  <2>1. DOMAIN Joined(own, other) = DOMAIN own \cup DOMAIN other
    BY JoinedHolds
  <2> QED  BY <1>1, <1>3, <1>4, <2>1
<1>8. ASSUME NEW name \in DOMAIN shapes PROVE DenseShard(j)[name].shape = shapes[name]
  BY <1>1, <1>3, JoinedFirst
<1>9. ASSUME NEW name \in Extra(j) PROVE name \notin DOMAIN shapes /\ DenseShard(j)[name].shape = <<1>>
  <2>1. name \notin DOMAIN shapes
    BY <1>2, <1>5, NameKinds
  <2> QED  BY <1>1, <1>3, <1>4, <2>1, JoinedSecond
<1>10. ASSUME NEW name \in DOMAIN DenseShard(j)
       PROVE  DenseShard(j)[name].shape \in ShapeSet /\ (DenseName(name) \/ IgnoredName(name))
  <2>1. CASE name \in DOMAIN shapes
    BY <1>2, <1>8, <2>1 DEF IsShapes
  <2>2. CASE name \in Extra(j)
    BY <1>5, <1>6, <1>9, <2>2
  <2> QED  BY <1>7, <2>1, <2>2
<1> QED  BY <1>7, <1>8, <1>10 DEF shapes

IsTensor(t) == t.shape \in ShapeSet /\ IsBytes(t.bytes)

\* The experts' tensors of a source.
LEMMA MatrixTensors ==
    ASSUME NEW j \in Jobs
    PROVE  /\ DOMAIN ExpertShard(j) = DOMAIN ExpertShapes(j.base, j.layout)
           /\ \A name \in DOMAIN ExpertShard(j) : IsTensor(ExpertShard(j)[name])
           /\ j.layout = "split" => \A name \in DOMAIN ExpertShard(j) : MatrixName(name)
           /\ j.layout = "fused" =>
                /\ \A name \in DOMAIN ExpertShard(j) : FusedName(name)
                /\ \A l \in Range(SparseLayers(j.base)) :
                     LET t == ExpertShard(j)[<<l, "gate_up_proj">>] IN
                     /\ <<l, "gate_up_proj">> \in DOMAIN ExpertShard(j)
                     /\ t.shape = <<MoeConfig(j.base).experts, 2 * MoeConfig(j.base).intermediate,
                                    MoeConfig(j.base).hidden>>
<1> DEFINE shapes == ExpertShapes(j.base, j.layout)
           moe == MoeConfig(j.base)
           dims == <<moe.experts, 2 * moe.intermediate, moe.hidden>>
<1>1. ExpertShard(j) = [n \in DOMAIN shapes |-> ExpertTensor(j, n, shapes[n])]
  BY SourceParts
<1>2. j.layout \in {"split", "fused"} /\ IsGeometry(moe)
  BY JobBase
<1>3. /\ IsShapes(shapes)
      /\ j.layout = "split" => \A name \in DOMAIN shapes : MatrixName(name)
      /\ j.layout = "fused" => \A name \in DOMAIN shapes : FusedName(name)
      /\ j.layout = "fused" => \A l \in Range(SparseLayers(j.base)) :
           <<l, "gate_up_proj">> \in DOMAIN shapes /\ shapes[<<l, "gate_up_proj">>] = dims
  BY <1>2, ExpertTensors
<1> HIDE DEF shapes, dims
<1>4. ASSUME NEW name, NEW shape \in ShapeSet
      PROVE  /\ IsTensor(ExpertTensor(j, name, shape))
             /\ name # LastMatrix(j.base, j.layout) => ExpertTensor(j, name, shape).shape = shape
  <2> DEFINE t == ExpertTensor(j, name, shape)
             last == LastMatrix(j.base, j.layout)
             scalar == IF \/ j.flaw = "mixed expert" /\ name = last
                          \/ j.flaw = "mixed collection" /\ name[1] = last[1]
                       THEN Other(j.scalar) ELSE j.scalar
             n == Elements(shape) * ByteWidth(scalar)
  <2>1. /\ t.shape = IF j.flaw = "shape" /\ name = last THEN Reverse(shape) ELSE shape
        /\ t.bytes = Content(name, shape, scalar, last, j.flaw)
    BY DEF ExpertTensor
  <2>2. n \in Nat
    <3>1. Elements(shape) \in Nat
      BY ElementsNat DEF ShapeSet
    <3>2. ByteWidth(scalar) \in Nat
      BY DEF ByteWidth
    <3>3. \A a, b \in Nat : a * b \in Nat
      OBVIOUS
    <3> HIDE DEF scalar
    <3> QED  BY <3>1, <3>2, <3>3
  <2>3. IsList(t.bytes, n)
    <3> HIDE DEF scalar, last, t
    <3> QED  BY <2>1 DEF Content, IsList
  <2> HIDE DEF t, n, last, scalar
  <2>4. Len(t.bytes) = n
    BY <2>2, <2>3, ListSeq
  <2>5. IsBytes(t.bytes)
    BY <2>2, <2>3, <2>4 DEF IsBytes
  <2>6. t.shape \in ShapeSet
    BY <2>1, ReversedShape
  <2> QED  BY <2>1, <2>5, <2>6 DEF IsTensor, t, last
<1>5. DOMAIN ExpertShard(j) = DOMAIN shapes
  BY <1>1
<1>6. ASSUME NEW name \in DOMAIN shapes
      PROVE  /\ IsTensor(ExpertShard(j)[name])
             /\ name # LastMatrix(j.base, j.layout) => ExpertShard(j)[name].shape = shapes[name]
  <2>1. shapes[name] \in ShapeSet
    BY <1>3 DEF IsShapes
  <2>2. ExpertShard(j)[name] = ExpertTensor(j, name, shapes[name])
    BY <1>1
  <2> DEFINE shape == shapes[name]
  <2> HIDE DEF shape
  <2>3. shape \in ShapeSet /\ ExpertShard(j)[name] = ExpertTensor(j, name, shape)
    BY <2>1, <2>2 DEF shape
  <2>4. /\ IsTensor(ExpertTensor(j, name, shape))
        /\ name # LastMatrix(j.base, j.layout) => ExpertTensor(j, name, shape).shape = shape
    BY <1>4, <2>3
  <2> QED  BY <2>3, <2>4 DEF shape
<1>7. ASSUME NEW l, j.layout = "fused" PROVE <<l, "gate_up_proj">> # LastMatrix(j.base, j.layout)
  <2> DEFINE m == SparseLayers(j.base)[Len(SparseLayers(j.base))]
  <2>1. LastMatrix(j.base, j.layout) = <<m>> \o <<"down_proj">>
    BY <1>7 DEF LastMatrix
  <2> HIDE DEF m
  <2>2. (<<m>> \o <<"down_proj">>)[2] = "down_proj"
    <3>1. IsList(<<m>>, 1) /\ IsList(<<"down_proj">>, 1)
      BY DEF IsList
    <3>2. Concatenates(<<m>>, 1, <<"down_proj">>, 1)
      BY <3>1, ListConcat
    <3> QED  BY <3>2 DEF Concatenates
  <2>3. <<l, "gate_up_proj">>[2] = "gate_up_proj"
    OBVIOUS
  <2> QED  BY <2>1, <2>2, <2>3
<1>8. ASSUME NEW l \in Range(SparseLayers(j.base)), j.layout = "fused"
      PROVE  /\ <<l, "gate_up_proj">> \in DOMAIN ExpertShard(j)
             /\ ExpertShard(j)[<<l, "gate_up_proj">>].shape = dims
  BY <1>3, <1>5, <1>6, <1>7, <1>8
<1>9. /\ \A name \in DOMAIN ExpertShard(j) : IsTensor(ExpertShard(j)[name])
      /\ j.layout = "split" => \A name \in DOMAIN ExpertShard(j) : MatrixName(name)
      /\ j.layout = "fused" => \A name \in DOMAIN ExpertShard(j) : FusedName(name)
  BY <1>3, <1>5, <1>6
<1> QED  BY <1>5, <1>8, <1>9 DEF dims, shapes

\* Every tensor of the directory has a shape; those of single experts have as
\* many bytes as they have, and are in the second shard only.
LEMMA DirectoryTensors ==
    ASSUME NEW j \in Jobs
    PROVE  LET all == InDirectory(Source(j)) IN
           /\ DOMAIN all = DOMAIN DenseShard(j) \cup DOMAIN ExpertShard(j)
           /\ \A name \in DOMAIN all : all[name].shape \in ShapeSet
           /\ \A name \in DOMAIN DenseShard(j) : all[name] = DenseShard(j)[name]
           /\ \A name \in DOMAIN all : MatrixName(name) =>
                /\ j.layout = "split" /\ name \in DOMAIN ExpertShard(j)
                /\ all[name] = ExpertShard(j)[name] /\ IsTensor(all[name])
           /\ \A name \in DOMAIN all : FusedName(name) =>
                /\ j.layout = "fused" /\ name \in DOMAIN ExpertShard(j)
                /\ all[name] = ExpertShard(j)[name] /\ IsTensor(all[name])
<1> DEFINE all == InDirectory(Source(j))
           first == DenseShard(j)  second == ExpertShard(j)
<1>1. all = Joined(first, second)
  BY SourceParts
<1>2. \A name \in DOMAIN first :
         first[name].shape \in ShapeSet /\ (DenseName(name) \/ IgnoredName(name))
  BY DenseTensors
<1>3. /\ \A name \in DOMAIN second : IsTensor(second[name])
      /\ j.layout = "split" => \A name \in DOMAIN second : MatrixName(name)
      /\ j.layout = "fused" => \A name \in DOMAIN second : FusedName(name)
      /\ j.layout \in {"split", "fused"}
  BY MatrixTensors, JobBase
<1> HIDE DEF first, second, all
<1>4. /\ DOMAIN all = DOMAIN first \cup DOMAIN second
      /\ \A x \in DOMAIN first : all[x] = first[x]
      /\ \A x \in DOMAIN second : x \notin DOMAIN first => all[x] = second[x]
  BY <1>1 DEF Joined
<1>5. ASSUME NEW name \in DOMAIN all, MatrixName(name) \/ FusedName(name)
      PROVE  name \in DOMAIN second /\ all[name] = second[name] /\ IsTensor(all[name])
  <2>1. name \notin DOMAIN first
    BY <1>2, <1>5, NameKinds
  <2> QED  BY <1>3, <1>4, <2>1
<1>6. ASSUME NEW name \in DOMAIN all PROVE all[name].shape \in ShapeSet
  BY <1>2, <1>3, <1>4 DEF IsTensor
<1>7. ASSUME NEW name \in DOMAIN second
      PROVE  (MatrixName(name) => j.layout = "split") /\ (FusedName(name) => j.layout = "fused")
  BY <1>3, NameKinds
<1> QED  BY <1>4, <1>5, <1>6, <1>7 DEF all, first, second

\* The index of a source.
LEMMA SourceIndex ==
    ASSUME NEW j \in Jobs
    PROVE  LET index == Source(j).index IN
           /\ DOMAIN index \subseteq DOMAIN DenseShard(j) \cup DOMAIN ExpertShard(j)
           /\ (DOMAIN DenseShard(j) \cup DOMAIN ExpertShard(j)) \ {<<"norm">>} \subseteq DOMAIN index
           /\ Range(index) \subseteq {"first", "second"}
           /\ <<"embed">> \in DOMAIN index /\ index[<<"embed">>] = "first"
<1> DEFINE first == DenseShard(j)  second == ExpertShard(j)
           plain == Joined([n \in DOMAIN first |-> "first"], [n \in DOMAIN second |-> "second"])
           index == Source(j).index
<1>1. index = IF j.flaw = "misplaced" THEN [plain EXCEPT ![<<"norm">>] = "second"]
              ELSE IF j.flaw = "missing"
              THEN [n \in DOMAIN plain \ {<<"norm">>} |-> plain[n]] ELSE plain
  BY Zenon DEF Source, DenseShard, ExpertShard
<1>2. {<<"embed">>, <<"norm">>} \subseteq DOMAIN first
  BY DenseTensors, JobBase DEF IsModel
<1>3. /\ DOMAIN plain = DOMAIN first \cup DOMAIN second
      /\ \A x \in DOMAIN first : plain[x] = "first"
      /\ \A x \in DOMAIN plain : plain[x] \in {"first", "second"}
  BY DEF Joined
<1> HIDE DEF plain, first, second, index
<1>4. <<"embed">> # <<"norm">>
  OBVIOUS
<1>5. DOMAIN index \subseteq DOMAIN plain /\ DOMAIN plain \ {<<"norm">>} \subseteq DOMAIN index
  BY <1>1
<1>6. \A x \in DOMAIN index : index[x] \in {"first", "second"}
  BY <1>1, <1>3
<1>7. <<"embed">> \in DOMAIN index /\ index[<<"embed">>] = plain[<<"embed">>]
  BY <1>1, <1>2, <1>3, <1>4
<1>8. Range(index) \subseteq {"first", "second"}
  BY <1>6 DEF Range
<1> QED  BY <1>2, <1>3, <1>5, <1>7, <1>8 DEF first, second, index

(***************************************************************************)
(* Opening a checkpoint.                                                   *)
(***************************************************************************)

\* The tensors of a configuration's experts in one of the layouts.
ExpertNames(c, layout) ==
    IF layout = "split"
    THEN UNION {Range(MatrixNames(l, e)) : l \in Range(SparseLayers(c)), e \in 0..(c.experts - 1)}
    ELSE UNION {FusedNames(l) : l \in Range(SparseLayers(c))}

Required(c, layout) == Range(DenseNames(c)) \cup ExpertNames(c, layout)

\* The families name the tensors of experts in the same way.
LEMMA SharedNames ==
    ASSUME NEW l, NEW e
    PROVE  /\ O!Range(O!MatrixNames(l, e)) = Range(MatrixNames(l, e))
           /\ Q3!Range(Q3!MatrixNames(l, e)) = Range(MatrixNames(l, e))
           /\ Q3!FusedNames(l) = FusedNames(l) /\ Q35!FusedNames(l) = FusedNames(l)
BY DEF O!Range, Q3!Range, Range, O!MatrixNames, Q3!MatrixNames, MatrixNames, Q3!FusedNames,
   Q35!FusedNames, FusedNames

\* What a checkpoint that opened declares: every tensor the configuration
\* requires in its layout, and beside them at most ignored ones.
Declares(index, c, layout) ==
    /\ Required(c, layout) \subseteq DOMAIN index
    /\ \A name \in DOMAIN index : name \in Required(c, layout) \/ IgnoredName(name)
    /\ c.family # "qwen3_5_moe" => DOMAIN index = Required(c, layout)

\* OLMoE.
LEMMA OlmoeOpened ==
    ASSUME NEW s, NEW c, c.family = "olmoe", O!ConfigType(c), O!OpenCheckpoint(s, c) # Refused
    PROVE  O!OpenCheckpoint(s, c).layout = "split" /\ Declares(s.index, c, "split")
<1>1. O!OpenCheckpoint(s, c).layout = "split" /\ O!OpenOneOf(s, <<O!RequiredNames(c, "split")>>) # 0
  BY DEF O!OpenCheckpoint
<1> DEFINE R == O!RequiredNames(c, "split")
<1>2. DOMAIN s.index = R
  <2> HIDE DEF R
  <2>1. {k \in DOMAIN <<R>> : DOMAIN s.index = <<R>>[k]} # {}
    BY <1>1 DEF O!OpenOneOf, R
  <2> QED  BY <2>1
<1>3. R = Required(c, "split")
  <2>1. Range(SparseLayers(c)) = 0..(c.layers - 1)
    <3>1. SparseLayers(c) = Indices(c.layers) /\ c.layers \in Nat
      BY SharedIndices DEF SparseLayers, InFamily, O!SparseLayers, O!ConfigType
    <3> QED  BY <3>1, IndicesList
  <2>2. O!Range(O!DenseNames(c)) = Range(DenseNames(c))
    BY DEF O!Range, Range, DenseNames, InFamily
  <2>3. UNION {O!Range(O!MatrixNames(l, e)) : l \in 0..(c.layers - 1), e \in 0..(c.experts - 1)}
          = UNION {Range(MatrixNames(l, e)) : l \in 0..(c.layers - 1), e \in 0..(c.experts - 1)}
    BY SharedNames
  <2> QED  BY <2>1, <2>2, <2>3 DEF O!RequiredNames, Required, ExpertNames
<1> HIDE DEF R
<1> QED  BY <1>1, <1>2, <1>3 DEF Declares

\* The first layout found is one of those found.
LEMMA LeastOfTwo ==
    ASSUME NEW S, S \subseteq {1, 2}, S # {}
    PROVE  Q3!Min(S) \in S
<1>1. \E x \in S : \A y \in S : x <= y
  <2>1. CASE 1 \in S
    BY <2>1
  <2>2. CASE 1 \notin S
    <3>1. S = {2}
      BY <2>2
    <3> QED  BY <3>1
  <2> QED  BY <2>1, <2>2
<1> QED  BY <1>1 DEF Q3!Min

\* Qwen3.
LEMMA Qwen3Opened ==
    ASSUME NEW s, NEW c, c.family = "qwen3_moe", Q3!OpenCheckpoint(s, c) # Refused
    PROVE  LET layout == Q3!OpenCheckpoint(s, c).layout IN
           layout \in {"split", "fused"} /\ Declares(s.index, c, layout)
<1> DEFINE lists == [k \in DOMAIN Q3!Layouts |-> Q3!RequiredNames(c, Q3!Layouts[k])]
           exact == {k \in DOMAIN lists : DOMAIN s.index = lists[k]}
           found == Q3!OpenOneOf(s, lists)
           layout == Q3!OpenCheckpoint(s, c).layout
<1>1. layout = Q3!Layouts[found] /\ found # 0
  BY DEF Q3!OpenCheckpoint
<1>2. DOMAIN Q3!Layouts = {1, 2} /\ \A k \in {1, 2} : Q3!Layouts[k] \in {"split", "fused"}
  BY DEF Q3!Layouts
<1>3. exact # {} /\ found = Q3!Min(exact)
  BY <1>1 DEF Q3!OpenOneOf
<1>4. exact \subseteq {1, 2}
  BY <1>2
<1> HIDE DEF found
<1>5. found \in exact
  <2> HIDE DEF exact
  <2> QED  BY <1>3, <1>4, LeastOfTwo
<1>6. layout \in {"split", "fused"} /\ DOMAIN s.index = Q3!RequiredNames(c, layout)
  BY <1>1, <1>2, <1>5
<1> HIDE DEF layout
<1>7. Q3!RequiredNames(c, layout) = Required(c, layout)
  <2>1. Q3!Range(Q3!SparseLayers(c)) = Range(SparseLayers(c))
    BY DEF Q3!Range, Range, SparseLayers, InFamily
  <2>2. Q3!Range(Q3!DenseNames(c)) = Range(DenseNames(c))
    BY DEF Q3!Range, Range, DenseNames, InFamily
  <2> DEFINE L == Range(SparseLayers(c))
  <2> HIDE DEF L
  <2>3. UNION {Q3!Range(Q3!MatrixNames(l, e)) : l \in L, e \in 0..(c.experts - 1)}
          = UNION {Range(MatrixNames(l, e)) : l \in L, e \in 0..(c.experts - 1)}
    BY SharedNames
  <2>4. UNION {Q3!FusedNames(l) : l \in L} = UNION {FusedNames(l) : l \in L}
    BY SharedNames
  <2>5. CASE layout = "split"
    BY <2>1, <2>2, <2>3, <2>5 DEF Q3!RequiredNames, Required, ExpertNames, L
  <2>6. CASE layout = "fused"
    BY <2>1, <2>2, <2>4, <2>6 DEF Q3!RequiredNames, Required, ExpertNames, L
  <2> QED  BY <1>6, <2>5, <2>6
<1> QED  BY <1>6, <1>7 DEF Declares, layout

\* The tensors Qwen3.6 requires.
LEMMA Qwen35Required ==
    ASSUME NEW c, c.family = "qwen3_5_moe", Q35!ConfigType(c)
    PROVE  Q35!RequiredNames(c, "fused") = Required(c, "fused")
<1>1. Range(SparseLayers(c)) = 0..(c.layers - 1)
  <2>1. SparseLayers(c) = Indices(c.layers) /\ c.layers \in Nat
    BY SharedIndices DEF SparseLayers, InFamily, Q35!SparseLayers, Q35!ConfigType
  <2> QED  BY <2>1, IndicesList
<1>2. Q35!Range(Q35!DenseNames(c)) = Range(DenseNames(c))
  BY DEF Q35!Range, Range, DenseNames, InFamily
<1>3. UNION {Q35!FusedNames(l) : l \in 0..(c.layers - 1)}
        = UNION {FusedNames(l) : l \in 0..(c.layers - 1)}
  BY SharedNames
<1> QED  BY <1>1, <1>2, <1>3 DEF Q35!RequiredNames, Required, ExpertNames

\* Qwen3.6.
LEMMA Qwen35Opened ==
    ASSUME NEW s, NEW c, c.family = "qwen3_5_moe", Q35!ConfigType(c),
           Q35!OpenCheckpoint(s, c) # Refused
    PROVE  Q35!OpenCheckpoint(s, c).layout = "fused" /\ Declares(s.index, c, "fused")
<1> DEFINE R == Q35!RequiredNames(c, "fused")
<1>1. /\ Q35!OpenCheckpoint(s, c).layout = "fused"
      /\ R \subseteq DOMAIN s.index /\ DOMAIN s.index \subseteq R \cup Q35!Ignored
  BY DEF Q35!OpenCheckpoint, Q35!OpenWithIgnored
<1>2. \A name \in Q35!Ignored : IgnoredName(name)
  BY DEF Q35!Ignored, IgnoredName
<1>3. R = Required(c, "fused")
  BY Qwen35Required
<1> HIDE DEF R
<1> QED  BY <1>1, <1>2, <1>3 DEF Declares

\* A checkpoint that opened has a layout its family knows, and declares what
\* the configuration requires in it.
LEMMA OpenedLayout ==
    ASSUME NEW s, NEW c, Detect(c), ConfigType(c), OpenCheckpoint(s, c) # Refused
    PROVE  LET k == OpenCheckpoint(s, c) IN
           /\ KnownLayout(k) /\ k.layout \in {"split", "fused"}
           /\ Declares(s.index, c, k.layout)
<1> DEFINE k == OpenCheckpoint(s, c)
<1>0. k.config = c
  BY OpenedConfig
<1>1. CASE c.family = "olmoe"
  <2>1. k = O!OpenCheckpoint(s, c) /\ O!ConfigType(c)
    BY <1>1 DEF OpenCheckpoint, ConfigType, InFamily
  <2>2. k.layout = "split" /\ Declares(s.index, c, "split")
    BY <1>1, <2>1, OlmoeOpened
  <2> HIDE DEF k
  <2> QED  BY <1>0, <1>1, <2>2 DEF KnownLayout, k
<1>2. CASE c.family = "qwen3_moe"
  <2>1. k = Q3!OpenCheckpoint(s, c)
    BY <1>2 DEF OpenCheckpoint, InFamily
  <2>2. k.layout \in {"split", "fused"} /\ Declares(s.index, c, k.layout)
    BY <1>2, <2>1, Qwen3Opened
  <2> HIDE DEF k
  <2> QED  BY <1>0, <1>2, <2>2 DEF KnownLayout, k
<1>3. CASE c.family = "qwen3_5_moe"
  <2>1. k = Q35!OpenCheckpoint(s, c) /\ Q35!ConfigType(c)
    BY <1>3 DEF OpenCheckpoint, ConfigType, InFamily
  <2>2. k.layout = "fused" /\ Declares(s.index, c, "fused")
    BY <1>3, <2>1, Qwen35Opened
  <2> HIDE DEF k
  <2> QED  BY <1>0, <1>3, <2>2 DEF KnownLayout, k
<1> QED  BY <1>1, <1>2, <1>3 DEF Detect

(***************************************************************************)
(* The groups of experts.                                                  *)
(***************************************************************************)

\* The smaller of two numbers.
LEMMA MinOfTwo ==
    ASSUME NEW a \in Int, NEW b \in Int
    PROVE  Min({a, b}) = IF a <= b THEN a ELSE b
BY DEF Min

\* Products grow with their factors.
LEMMA ProductGrows ==
    ASSUME NEW a \in Nat, NEW b \in Nat, NEW p \in Nat, a <= b
    PROVE  a * p \in Nat /\ b * p \in Nat /\ a * p <= b * p
<1>1. \A x, y \in Nat : x * y \in Nat
  OBVIOUS
<1>2. b - a \in Nat /\ b = a + (b - a)
  OBVIOUS
<1>3. b * p = a * p + (b - a) * p
  BY <1>2
<1> QED  BY <1>1, <1>2, <1>3

\* A quotient, multiplied again.
LEMMA QuotientBounds ==
    ASSUME NEW a \in Nat, NEW p \in Nat, p # 0
    PROVE  a \div p \in Nat /\ (a \div p) * p <= a /\ a < (a \div p) * p + p
OBVIOUS

\* Group g of a model with these layers and experts.
IsGroup(g, layers, experts) ==
    /\ g = [layer |-> g.layer, first |-> g.first, end |-> g.end]
    /\ g.layer \in Range(layers) /\ g.first \in Nat /\ g.end \in Nat
    /\ g.first < g.end /\ g.end <= experts

\* The groups of one layer are not empty, and every expert is in one.
LEMMA LayerGroups ==
    ASSUME NEW experts \in Nat, NEW p \in 1..experts, NEW l,
           NEW count, count = (experts + p - 1) \div p
    PROVE  /\ count \in Nat
           /\ \A k \in 1..count :
                LET first == (k - 1) * p  end == Min({k * p, experts}) IN
                first \in Nat /\ end \in Nat /\ first < end /\ end <= experts
           /\ \A e \in 0..(experts - 1) : \E k \in 1..count :
                (k - 1) * p <= e /\ e < Min({k * p, experts})
<1>1. experts + p - 1 \in Nat /\ p \in Nat /\ p # 0
  OBVIOUS
<1>2. count \in Nat /\ count * p <= experts + p - 1 /\ experts + p - 1 < count * p + p
  <2> DEFINE a == experts + p - 1
  <2>1. a \in Nat /\ count = a \div p
    BY <1>1
  <2> HIDE DEF a
  <2>2. count \in Nat /\ count * p <= a /\ a < count * p + p
    BY <1>1, <2>1, QuotientBounds
  <2> QED  BY <2>2 DEF a
<1>3. count * p \in Nat
  <2>1. \A x, y \in Nat : x * y \in Nat
    OBVIOUS
  <2> QED  BY <1>1, <1>2, <2>1
<1>4. ASSUME NEW k \in 1..count
      PROVE  /\ (k - 1) * p \in Nat /\ k * p \in Nat /\ k * p = (k - 1) * p + p
             /\ (k - 1) * p < experts
  <2>1. k - 1 \in Nat /\ k \in Nat /\ k <= count
    BY <1>2
  <2>2. k * p \in Nat /\ k * p <= count * p
    BY <1>1, <1>2, <2>1, ProductGrows
  <2>3. (k - 1) * p \in Nat
    BY <1>1, <2>1, ProductGrows
  <2>4. k * p = (k - 1) * p + p
    BY <1>1, <2>1
  <2> DEFINE x == k * p  y == (k - 1) * p  z == count * p
  <2>5. x \in Nat /\ y \in Nat /\ z \in Nat /\ x = y + p /\ x <= z /\ z <= experts + p - 1
    BY <1>2, <1>3, <2>2, <2>3, <2>4
  <2> HIDE DEF x, y, z
  <2>6. y < experts
    BY <1>1, <2>5
  <2> QED  BY <2>5, <2>6 DEF x, y
<1>5. ASSUME NEW k \in 1..count
      PROVE  LET first == (k - 1) * p  end == Min({k * p, experts}) IN
             first \in Nat /\ end \in Nat /\ first < end /\ end <= experts
  <2> DEFINE x == k * p  y == (k - 1) * p
  <2>1. x \in Nat /\ y \in Nat /\ x = y + p /\ y < experts
    BY <1>4
  <2> HIDE DEF x, y
  <2>2. Min({x, experts}) = IF x <= experts THEN x ELSE experts
    BY <2>1, MinOfTwo
  <2>3. y \in Nat /\ Min({x, experts}) \in Nat /\ y < Min({x, experts})
        /\ Min({x, experts}) <= experts
    BY <1>1, <2>1, <2>2
  <2> QED  BY <2>3 DEF x, y
<1>6. ASSUME NEW e \in 0..(experts - 1)
      PROVE  \E k \in 1..count : (k - 1) * p <= e /\ e < Min({k * p, experts})
  <2> DEFINE q == e \div p
  <2>1. q \in Nat /\ q * p <= e /\ e < q * p + p
    BY <1>1, QuotientBounds
  <2> HIDE DEF q
  <2>2. q < count
    <3>1. SUFFICES ASSUME count <= q PROVE FALSE
      BY <1>2, <2>1
    <3>2. count * p <= q * p /\ q * p \in Nat
      BY <1>1, <1>2, <2>1, <3>1, ProductGrows
    <3> DEFINE x == count * p  y == q * p
    <3>3. x \in Nat /\ y \in Nat /\ x <= y /\ y <= e /\ experts + p - 1 < x + p
      BY <1>2, <1>3, <2>1, <3>2
    <3> HIDE DEF x, y
    <3> QED  BY <1>1, <3>3
  <2> DEFINE k == q + 1
  <2>3. k \in 1..count
    BY <1>2, <2>1, <2>2
  <2>4. k - 1 = q
    BY <2>1
  <2> HIDE DEF k
  <2> DEFINE x == k * p  y == (k - 1) * p
  <2>5. x \in Nat /\ y \in Nat /\ x = y + p /\ y < experts
    BY <1>4, <2>3
  <2>6. y <= e /\ e < y + p
    BY <2>1, <2>4
  <2> HIDE DEF x, y
  <2>7. Min({x, experts}) = IF x <= experts THEN x ELSE experts
    BY <2>5, MinOfTwo
  <2>8. y <= e /\ e < Min({x, experts})
    BY <1>1, <2>5, <2>6, <2>7
  <2> QED  BY <2>3, <2>8 DEF x, y
<1> QED  BY <1>2, <1>5, <1>6

\* The groups of a model: none is empty, and every expert is in one of its layer.
LEMMA GroupsCover ==
    ASSUME NEW layers, NEW n \in Nat, IsList(layers, n), NEW experts \in Nat,
           NEW p \in 1..experts
    PROVE  LET gs == GroupsOf(layers, experts, p) IN
           /\ IsBytes(gs)
           /\ \A g \in Range(gs) : IsGroup(g, layers, experts)
           /\ \A l \in Range(layers), e \in 0..(experts - 1) :
                \E g \in Range(gs) : g.layer = l /\ e \in GroupExperts(g)
<1> DEFINE count == (experts + p - 1) \div p
           Group(l, k) == [layer |-> l, first |-> (k - 1) * p, end |-> Min({k * p, experts})]
           Of(l) == [k \in 1..count |-> Group(l, k)]
           seqs == [i \in DOMAIN layers |-> Of(layers[i])]
           gs == GroupsOf(layers, experts, p)
<1>1. DOMAIN layers = 1..n
  BY ListSeq
<1>2. gs = FlattenSeq(seqs)
  BY DEF GroupsOf
<1>3. /\ count \in Nat
      /\ \A k \in 1..count :
           LET first == (k - 1) * p  end == Min({k * p, experts}) IN
           first \in Nat /\ end \in Nat /\ first < end /\ end <= experts
      /\ \A e \in 0..(experts - 1) : \E k \in 1..count :
           (k - 1) * p <= e /\ e < Min({k * p, experts})
  BY LayerGroups
<1> HIDE DEF count
<1>4. ASSUME NEW l PROVE IsList(Of(l), count) /\ Len(Of(l)) = count
  <2>1. IsList(Of(l), count)
    BY DEF IsList
  <2> HIDE DEF Of
  <2> QED  BY <1>3, <2>1, ListSeq
<1>5. ASSUME NEW l PROVE Range(Of(l)) = {Group(l, k) : k \in 1..count}
  BY DEF Range
<1>6. IsList(seqs, n) /\ \A i \in 1..n : seqs[i] = Of(layers[i])
  BY <1>1 DEF IsList
<1> HIDE DEF seqs, Of, gs
<1>7. Lists(seqs, n)
  BY <1>3, <1>4, <1>6 DEF Lists
<1>8. IsBytes(gs) /\ Range(gs) = UNION {Range(seqs[i]) : i \in 1..n}
  BY <1>2, <1>7, FlattenRange DEF IsBytes
<1>9. ASSUME NEW g \in Range(gs) PROVE IsGroup(g, layers, experts)
  <2>1. PICK i \in 1..n : g \in Range(seqs[i])
    BY <1>8
  <2>2. PICK k \in 1..count : g = Group(layers[i], k)
    <3> DEFINE l == layers[i]
    <3>1. g \in Range(Of(l))
      BY <1>6, <2>1
    <3> HIDE DEF l, Group
    <3>2. g \in {Group(l, k) : k \in 1..count}
      BY <1>5, <3>1
    <3> QED  BY <3>2 DEF l
  <2>3. layers[i] \in Range(layers)
    BY <1>1 DEF Range
  <2>4. (k - 1) * p \in Nat /\ Min({k * p, experts}) \in Nat
        /\ (k - 1) * p < Min({k * p, experts}) /\ Min({k * p, experts}) <= experts
    BY <1>3
  <2> QED  BY <2>2, <2>3, <2>4 DEF IsGroup
<1>10. ASSUME NEW l \in Range(layers), NEW e \in 0..(experts - 1)
       PROVE  \E g \in Range(gs) : g.layer = l /\ e \in GroupExperts(g)
  <2>1. PICK i \in 1..n : layers[i] = l
    BY <1>1 DEF Range
  <2>2. PICK k \in 1..count : (k - 1) * p <= e /\ e < Min({k * p, experts})
    BY <1>3
  <2>3. Group(l, k) \in Range(gs)
    <3>1. Group(l, k) \in Range(Of(l))
      BY <1>5
    <3>2. seqs[i] = Of(l)
      BY <1>6, <2>1
    <3> HIDE DEF Group
    <3> QED  BY <1>8, <3>1, <3>2
  <2>4. (k - 1) * p \in Nat /\ Min({k * p, experts}) \in Nat
    BY <1>3
  <2>5. Group(l, k).layer = l /\ e \in GroupExperts(Group(l, k))
    <3> DEFINE a == (k - 1) * p  b == Min({k * p, experts})
    <3>1. Group(l, k).layer = l /\ Group(l, k).first = a /\ Group(l, k).end = b
      OBVIOUS
    <3>2. a \in Nat /\ b \in Nat /\ a <= e /\ e < b
      BY <2>2, <2>4
    <3> HIDE DEF a, b, Group
    <3>3. e \in a..(b - 1)
      BY <3>2
    <3> QED  BY <3>1, <3>3 DEF GroupExperts
  <2> QED  BY <2>3, <2>5
<1> QED  BY <1>8, <1>9, <1>10 DEF gs

(***************************************************************************)
(* Converting one group of a source.                                       *)
(***************************************************************************)

\* What is read of one expert is bytes of a known scalar type.
LEMMA ReadsAreBytes ==
    ASSUME NEW j \in Jobs, NEW layout, NEW moe, IsGeometry(moe), NEW l, NEW e,
           NEW read, read = ReadAs(layout, InDirectory(Source(j)), moe, l, e), read # Refused
    PROVE  ReadsBytes(read) /\ read.scalar \in Scalars
<1> DEFINE all == InDirectory(Source(j))
<1>0. \A name \in DOMAIN all : MatrixName(name) => IsBytes(all[name].bytes)
  BY DirectoryTensors DEF IsTensor
<1> HIDE DEF all
<1>1. CASE layout = "split"
  <2> DEFINE names == MatrixNames(l, e)
             Name(m) == <<l, e, m>>
  <2>1. read = ReadSplit(all, moe, l, e)
    BY <1>1 DEF ReadAs, all
  <2>2. \A m \in {"gate", "up", "down"} : names[m] = Name(m)
    BY DEF MatrixNames
  <2>3. Range(names) = {Name("gate"), Name("up"), Name("down")}
    BY DEF MatrixNames, Range
  <2>4. \A m : MatrixName(Name(m))
    BY DEF MatrixName
  <2> HIDE DEF Name, names
  <2>5. /\ Range(names) \subseteq DOMAIN all /\ all[names["gate"]].scalar \in Scalars
        /\ read = [scalar |-> all[names["gate"]].scalar, gate |-> all[names["gate"]].bytes,
                   up |-> all[names["up"]].bytes, down |-> all[names["down"]].bytes]
    BY <2>1 DEF ReadSplit, names
  <2>6. ASSUME NEW m \in {"gate", "up", "down"} PROVE IsBytes(all[names[m]].bytes)
    <3>1. Name(m) \in DOMAIN all
      BY <2>3, <2>5
    <3> QED  BY <1>0, <2>2, <2>4, <3>1
  <2> QED  BY <2>5, <2>6 DEF ReadsBytes
<1>2. CASE layout # "split"
  <2> DEFINE gateUp == all[<<l, "gate_up_proj">>]
             down == all[<<l, "down_proj">>].bytes
             section == SectionBytes(moe, gateUp.scalar)
             pair == Slice(gateUp.bytes, GateUpOffset(e, section), 2 * section)
  <2>1. read = ReadFused(all, moe, l, e)
    BY <1>2 DEF ReadAs, all
  <2>2. /\ gateUp.scalar \in Scalars
        /\ read = [scalar |-> gateUp.scalar, gate |-> Slice(pair, 0, section),
                   up |-> Slice(pair, section, section), down |-> Slice(down, e * section, section)]
    BY <2>1 DEF ReadFused, FusedValid
  <2>3. section \in Nat
    BY SectionNat
  <2> HIDE DEF section, pair, gateUp, down
  <2>4. ASSUME NEW b, NEW from PROVE IsBytes(Slice(b, from, section))
    <3>1. IsList(Slice(b, from, section), section)
      BY DEF Slice, IsList
    <3> QED  BY <2>3, <3>1, ListSeq DEF IsBytes
  <2>5. IsBytes(read.gate) /\ IsBytes(read.up) /\ IsBytes(read.down)
    <3>1. IsBytes(Slice(pair, 0, section)) /\ IsBytes(Slice(pair, section, section))
      BY <2>4
    <3>2. IsBytes(Slice(down, e * section, section))
      BY <2>4
    <3> QED  BY <2>2, <3>1, <3>2
  <2> QED  BY <2>2, <2>5 DEF ReadsBytes
<1> QED  BY <1>1, <1>2

\* The experts of a group as the opened checkpoint k of job j is read.
Reads(j, k, g) == ReadGroup(k.layout, InDirectory(Source(j)), MoeConfig(k.config), g)

\* An opened checkpoint of a job.
Opened(j, k) ==
    /\ j \in Jobs /\ k.config = j.config /\ Detect(j.config) /\ KnownLayout(k)
    /\ IsGeometry(MoeConfig(j.config))

\* A group that is converted was packed as a whole.
LEMMA ConvertedGroup ==
    ASSUME NEW j, NEW k, Opened(j, k), NEW g, NEW layers, NEW experts, experts \in Nat,
           IsGroup(g, layers, experts), NEW scalar,
           NEW work, work = ConvertExperts(InDirectory(Source(j)), k, g, j, scalar), work # Refused
    PROVE  /\ g.end - g.first \in Nat /\ g.end - g.first # 0
           /\ Packed(work, Reads(j, k, g), g, MoeConfig(j.config), j, scalar, g.end - g.first)
<1> DEFINE moe == MoeConfig(j.config)
           read == Reads(j, k, g)
           n == g.end - g.first
<1>1. j \in Jobs /\ k.config = j.config /\ Detect(k.config) /\ KnownLayout(k) /\ IsGeometry(moe)
  BY DEF Opened
<1>2. work = ConvertGroup(read, g, moe, j, scalar)
  BY <1>1, ConvertsGroup DEF Reads
<1>3. n \in Nat /\ n # 0
  BY DEF IsGroup
<1>4. j.maxBuffer \in Nat
  BY <1>1, JobBase
<1>5. ASSUME NEW i \in 1..n, read[g.first + i - 1] # Refused
      PROVE  ReadsBytes(read[g.first + i - 1]) /\ read[g.first + i - 1].scalar \in Scalars
  <2> DEFINE e == g.first + i - 1
  <2>1. e \in GroupExperts(g)
    BY DEF IsGroup, GroupExperts
  <2> HIDE DEF e
  <2>2. read[e] = ReadAs(k.layout, InDirectory(Source(j)), moe, g.layer, e)
    BY <1>1, <2>1 DEF Reads, ReadGroup
  <2>3. read[e] # Refused
    BY <1>5 DEF e
  <2> HIDE DEF read, moe
  <2>4. ReadsBytes(read[e]) /\ read[e].scalar \in Scalars
    BY <1>1, <2>2, <2>3, ReadsAreBytes
  <2> QED  BY <2>4 DEF e
<1> HIDE DEF moe, read, n
<1>6. Packed(ConvertGroup(read, g, moe, j, scalar), read, g, moe, j, scalar, n)
  <2>1. n = g.end - g.first
    BY DEF n
  <2>2. ConvertGroup(read, g, moe, j, scalar) # Refused
    BY <1>2
  <2> QED  BY <1>1, <1>3, <1>4, <1>5, <2>1, <2>2, GroupPacked
<1> QED  BY <1>2, <1>3, <1>6 DEF moe, read, n

\* The first of a list and the rest of it.
LEMMA ListTail ==
    ASSUME NEW f, IsBytes(f), f # <<>>
    PROVE  Head(f) \in Range(f) /\ IsBytes(Tail(f)) /\ Range(f) = {Head(f)} \cup Range(Tail(f))
<1> DEFINE n == Len(f)  S == {f[k] : k \in 1..n}
<1>1. n \in Nat /\ IsList(f, n)
  BY DEF IsBytes
<1>2. f \in Seq(S) /\ DOMAIN f = 1..n
  BY <1>1, ListSeq
<1> HIDE DEF S
<1>3. n # 0
  BY <1>2, EmptySeq
<1>a. /\ Tail(f) \in Seq(S) /\ Len(Tail(f)) = n - 1
      /\ \A i \in 1..Len(Tail(f)) : Tail(f)[i] = f[i + 1]
  BY <1>2, HeadTailProperties
<1>b. Head(f) = f[1]
  BY <1>2
<1> DEFINE t == Tail(f)
<1>c. t \in Seq(S) /\ Len(t) = n - 1 /\ \A i \in 1..Len(t) : t[i] = f[i + 1]
  BY <1>a
<1> HIDE DEF n, t
<1>4. Head(f) = f[1] /\ \A i \in 1..(n - 1) : t[i] = f[i + 1]
  BY <1>b, <1>c
<1>5. n - 1 \in Nat /\ IsList(t, n - 1)
  BY <1>1, <1>3, <1>c, SeqList
<1>6. Len(t) = n - 1 /\ DOMAIN t = 1..(n - 1)
  BY <1>5, ListSeq
<1>7. ASSUME NEW k \in 1..n, k # 1 PROVE k - 1 \in 1..(n - 1) /\ f[k] = t[k - 1]
  <2>1. k - 1 \in 1..(n - 1) /\ (k - 1) + 1 = k
    BY <1>1, <1>7
  <2> QED  BY <1>4, <2>1
<1>8. ASSUME NEW k \in 1..(n - 1) PROVE k + 1 \in 1..n /\ t[k] = f[k + 1]
  BY <1>1, <1>4
<1>9. 1 \in 1..n
  BY <1>1, <1>3
<1>10. Range(f) = {Head(f)} \cup Range(t)
  <2>1. ASSUME NEW k \in 1..n PROVE f[k] \in {Head(f)} \cup Range(t)
    <3>1. CASE k = 1
      BY <1>4, <3>1
    <3>2. CASE k # 1
      <4>1. k - 1 \in 1..(n - 1) /\ f[k] = t[k - 1]
        BY <1>7, <3>2
      <4> QED  BY <1>6, <4>1 DEF Range
    <3> QED  BY <3>1, <3>2
  <2>2. ASSUME NEW k \in 1..(n - 1) PROVE t[k] \in Range(f)
    BY <1>2, <1>8 DEF Range
  <2>3. Head(f) \in Range(f)
    BY <1>2, <1>4, <1>9 DEF Range
  <2> QED  BY <1>2, <1>6, <2>1, <2>2, <2>3 DEF Range
<1> QED  BY <1>5, <1>6, <1>10 DEF IsBytes, t

(***************************************************************************)
(* Buffers.                                                                *)
(***************************************************************************)

\* The largest of numbers that are bounded is one of them.
LEMMA LargestBelow ==
    ASSUME NEW S, S \subseteq Int, S # {}, NEW bound \in Nat, \A x \in S : x <= bound
    PROVE  Max(S) \in S /\ \A x \in S : x <= Max(S)
<1> DEFINE T == {bound - x : x \in S}
<1>1. T \subseteq Nat /\ T # {}
  <2>1. \A x \in S : bound - x \in Nat
    OBVIOUS
  <2> QED  BY <2>1
<1>2. PICK m \in T : \A k \in T : m <= k
  <2> HIDE DEF T
  <2> QED  BY <1>1, Least
<1>3. PICK x \in S : m = bound - x
  BY <1>2
<1>4. \A y \in S : x >= y
  <2>1. \A y \in S : m <= bound - y
    BY <1>2
  <2> QED  BY <1>3, <2>1
<1>5. \E z \in S : \A y \in S : z >= y
  BY <1>4
<1>6. Max(S) \in S /\ \A y \in S : Max(S) >= y
  BY <1>5 DEF Max
<1> QED  BY <1>6

\* No range of a tensor is longer than a chunk.
LEMMA RangesBelow ==
    ASSUME NEW bytes \in Nat, NEW chunk \in Nat, chunk # 0, NEW r \in Range(Ranges(bytes, chunk))
    PROVE  r[2] \in Int /\ r[2] <= chunk
<1> DEFINE count == (bytes + chunk - 1) \div chunk
           Left(k) == bytes - (k - 1) * chunk
<1>1. PICK k \in 1..count : r = <<(k - 1) * chunk, Min({chunk, Left(k)})>>
  BY DEF Ranges, Range
<1>2. count \in Nat
  <2> DEFINE a == bytes + chunk - 1
  <2>1. a \in Nat /\ count = a \div chunk
    OBVIOUS
  <2> HIDE DEF a, count
  <2> QED  BY <2>1, QuotientBounds
<1> HIDE DEF count
<1>3. Left(k) \in Int
  <2>1. k - 1 \in Nat
    BY <1>2
  <2>2. (k - 1) * chunk \in Nat
    BY <2>1, ProductGrows
  <2> QED  BY <2>2
<1>4. r[2] = Min({chunk, Left(k)})
  BY <1>1
<1> HIDE DEF Left
<1>5. Min({chunk, Left(k)}) = IF chunk <= Left(k) THEN chunk ELSE Left(k)
  BY <1>3, MinOfTwo
<1> QED  BY <1>3, <1>4, <1>5

\* The buffers reported for dense tensors are within the budget.
LEMMA DenseWithinBudget ==
    ASSUME NEW all, \A name \in DOMAIN all : all[name].shape \in ShapeSet,
           NEW names, NEW n \in Nat, n # 0, IsList(names, n), NEW chunk \in Nat, chunk # 0,
           NEW files, files = ConvertDense(all, names, chunk), files # Refused
    PROVE  DensePeak(files) \in Nat /\ DensePeak(files) <= chunk
<1> DEFINE Written(k) == [name \in {names[k]} |-> WriteRawTensor(all, name, chunk)]
           X == UNION {UNION {{range[2] : range \in Range(f.tensors[t].ranges)} :
                                 t \in DOMAIN f.tensors} : f \in Range(files)}
<1>1. DOMAIN names = 1..n
  BY ListSeq
<1>2. /\ \A k \in 1..n : CanWriteRaw(all, names[k], chunk)
      /\ files = [k \in 1..n |-> [file |-> DenseFile(k - 1), tensors |-> Written(k)]]
  BY <1>1 DEF ConvertDense
<1>3. DenseHeader \in Nat /\ DenseHeader <= chunk
  <2>1. 1 \in 1..n
    OBVIOUS
  <2> QED  BY <1>2, <2>1, HeaderAssumption DEF CanWriteRaw
<1>4. ASSUME NEW x \in X PROVE x \in Int /\ x <= chunk
  <2>1. PICK f \in Range(files) : \E t \in DOMAIN f.tensors :
            x \in {range[2] : range \in Range(f.tensors[t].ranges)}
    OBVIOUS
  <2>2. PICK t \in DOMAIN f.tensors : x \in {range[2] : range \in Range(f.tensors[t].ranges)}
    BY <2>1
  <2>3. PICK r \in Range(f.tensors[t].ranges) : x = r[2]
    BY <2>2
  <2>4. PICK k \in 1..n : f = files[k]
    BY <1>2 DEF Range
  <2>5. f.tensors = Written(k)
    BY <1>2, <2>4
  <2>6. t = names[k] /\ f.tensors[t] = WriteRawTensor(all, t, chunk)
    BY <2>5
  <2>7. f.tensors[t].ranges = Ranges(Size(all[t]), chunk)
    BY <2>6 DEF WriteRawTensor
  <2>8. Size(all[t]) \in Nat
    <3>1. t \in DOMAIN all
      BY <1>2, <2>6 DEF CanWriteRaw
    <3>2. Elements(all[t].shape) \in Nat
      BY <3>1, ElementsNat DEF ShapeSet
    <3>3. ByteWidth(all[t].scalar) \in Nat
      BY DEF ByteWidth
    <3>4. \A a, b \in Nat : a * b \in Nat
      OBVIOUS
    <3> QED  BY <3>2, <3>3, <3>4 DEF Size
  <2>9. r[2] \in Int /\ r[2] <= chunk
    BY <2>3, <2>7, <2>8, RangesBelow
  <2> QED  BY <2>3, <2>9
<1>5. DensePeak(files) = Max({DenseHeader} \cup X)
  BY DEF DensePeak
<1> HIDE DEF X
<1> DEFINE S == {DenseHeader} \cup X
<1>6. S \subseteq Int /\ S # {} /\ \A x \in S : x <= chunk
  BY <1>3, <1>4
<1>7. DenseHeader \in S
  OBVIOUS
<1> HIDE DEF S
<1>8. Max(S) \in S /\ \A x \in S : x <= Max(S)
  BY <1>6, LargestBelow
<1>9. Max(S) \in Int /\ Max(S) <= chunk /\ DenseHeader <= Max(S)
  BY <1>6, <1>7, <1>8
<1>10. Max(S) \in Nat
  BY <1>3, <1>9
<1> QED  BY <1>5, <1>9, <1>10 DEF S

\* The checkpoint at hand is the job's, once it is opened.
LEMMA CheckpointOpened ==
    ASSUME SourceOpened, phase \notin {"source", "refused"}
    PROVE  /\ Opened(job, checkpoint) /\ ConfigType(job.config) /\ Validate(job.config)
           /\ IsModel(job.config) /\ checkpoint.layout \in {"split", "fused"}
           /\ Declares(Source(job).index, job.config, checkpoint.layout)
           /\ job.config.experts \in Nat
<1>1. /\ job \in Jobs /\ Detect(job.config)
      /\ checkpoint = OpenCheckpoint(Source(job), job.config) /\ checkpoint # Refused
  BY DEF SourceOpened
<1>2. ConfigType(job.config)
  BY <1>1, JobsAssumption, Zenon
<1>3. checkpoint.config = job.config /\ Validate(job.config)
  BY <1>1, OpenedConfig
<1>4. /\ KnownLayout(checkpoint) /\ checkpoint.layout \in {"split", "fused"}
      /\ Declares(Source(job).index, job.config, checkpoint.layout)
  BY <1>1, <1>2, OpenedLayout
<1>5. IsModel(job.config)
  BY <1>1, <1>2, <1>3, ConfigIsModel
<1>6. IsGeometry(MoeConfig(job.config)) /\ MoeConfig(job.config).experts = job.config.experts
  BY <1>1, <1>2, Geometry
<1> QED  BY <1>1, <1>2, <1>3, <1>4, <1>5, <1>6 DEF Opened, IsGeometry

StagedFields == {"dense", "experts", "scalar", "peak", "live"}

\* The groups of job j.
JobGroups(j) == GroupsOf(SparseLayers(j.config), j.config.experts, j.perFile)

\* What is still to be packed, and the buffers so far.
BuffersKept ==
    /\ staged = [f \in StagedFields |-> staged[f]]
    /\ staged.peak \in Nat /\ staged.live \in Nat /\ staged.live <= staged.peak
    /\ staged.peak = 0 \/ staged.peak <= job.maxBuffer
    /\ phase \in {"source", "opened"} => staged = Nothing
    /\ phase = "packing" =>
         /\ job.perFile \in 1..job.config.experts
         /\ IsBytes(groups) /\ Range(groups) \subseteq Range(JobGroups(job))

\* The groups of a job: lists of experts that cover all of them.
LEMMA JobGroupsCover ==
    ASSUME NEW j, IsModel(j.config), j.config.experts \in Nat, j.perFile \in 1..j.config.experts
    PROVE  LET layers == SparseLayers(j.config)  experts == j.config.experts IN
           /\ IsBytes(JobGroups(j))
           /\ \A g \in Range(JobGroups(j)) : IsGroup(g, layers, experts)
           /\ \A l \in Range(layers), e \in 0..(experts - 1) :
                \E g \in Range(JobGroups(j)) : g.layer = l /\ e \in GroupExperts(g)
<1>1. Len(SparseLayers(j.config)) \in Nat /\ IsList(SparseLayers(j.config), Len(SparseLayers(j.config)))
  BY DEF IsModel
<1> QED  BY <1>1, GroupsCover DEF JobGroups

\* Dense tensors are converted within the budget.
LEMMA DenseStep ==
    ASSUME SourceOpened, BuffersKept, ConvertDenseTensors, phase' = "packing"
    PROVE  BuffersKept'
<1> DEFINE c == job.config
           files == ConvertDense(InDirectory(Source(job)), DenseNames(c), job.maxBuffer)
<1>1. Opened(job, checkpoint) /\ IsModel(c) /\ c.experts \in Nat /\ phase = "opened"
  BY CheckpointOpened DEF ConvertDenseTensors
<1>2. checkpoint.config = c /\ job \in Jobs
  BY <1>1 DEF Opened
<1>3. /\ UNCHANGED job /\ ValidOptions(job, c.experts) /\ files # Refused
      /\ staged' = [staged EXCEPT !.dense = files, !.peak = DensePeak(files)]
      /\ groups' = GroupsOf(SparseLayers(c), c.experts, job.perFile)
  BY <1>2 DEF ConvertDenseTensors, Refuse
<1>4. job.maxBuffer \in Nat /\ job.maxBuffer # 0 /\ job.perFile \in 1..c.experts
  BY <1>2, <1>3, JobBase DEF ValidOptions
<1>5. DensePeak(files) \in Nat /\ DensePeak(files) <= job.maxBuffer
  <2> DEFINE names == DenseNames(c)  n == Len(names)  all == InDirectory(Source(job))
  <2>1. n \in Nat /\ IsList(names, n) /\ <<"embed">> \in Range(names)
    BY <1>1 DEF IsModel
  <2>2. \A name \in DOMAIN all : all[name].shape \in ShapeSet
    BY <1>2, DirectoryTensors
  <2>3. files = ConvertDense(all, names, job.maxBuffer)
    OBVIOUS
  <2> HIDE DEF names, n, all, files
  <2>4. n # 0
    <3>1. DOMAIN names = 1..n
      BY <2>1, ListSeq
    <3>2. n = 0 => DOMAIN names = {}
      BY <3>1
    <3> QED  BY <2>1, <3>2 DEF Range
  <2> QED  BY <1>3, <1>4, <2>1, <2>2, <2>3, <2>4, DenseWithinBudget
<1>6. IsBytes(JobGroups(job))
  BY <1>1, <1>4, JobGroupsCover
<1>7. staged = Nothing
  BY <1>1 DEF BuffersKept
<1> HIDE DEF files
<1>8. /\ staged' = [f \in StagedFields |-> staged'[f]]
      /\ staged'.peak = DensePeak(files) /\ staged'.live = 0
  BY <1>3, <1>7 DEF Nothing, StagedFields
<1>9. groups' = JobGroups(job) /\ JobGroups(job)' = JobGroups(job)
  BY <1>3 DEF JobGroups
<1>10. /\ IsBytes(groups') /\ Range(groups') \subseteq Range(JobGroups(job'))
       /\ staged'.live <= staged'.peak /\ staged'.live \in Nat /\ staged'.peak \in Nat
       /\ staged'.peak <= job'.maxBuffer /\ job'.perFile \in 1..job'.config.experts
  BY <1>3, <1>4, <1>5, <1>6, <1>8, <1>9
<1> QED  BY <1>8, <1>10, Zenon DEF BuffersKept

\* So is a group of experts.
LEMMA GroupStep ==
    ASSUME SourceOpened, BuffersKept, ConvertGroupOfExperts
    PROVE  BuffersKept'
<1> DEFINE c == job.config
           g == Head(groups)
           work == ConvertExperts(InDirectory(Source(job)), checkpoint, g, job, staged.scalar)
<1>1. Opened(job, checkpoint) /\ IsModel(c) /\ c.experts \in Nat /\ phase = "packing"
  BY CheckpointOpened DEF ConvertGroupOfExperts
<1>2. CASE work = Refused
  <2>1. phase' = "refused" /\ UNCHANGED <<job, groups, staged>>
    BY <1>2 DEF ConvertGroupOfExperts, Refuse
  <2> QED  BY <2>1 DEF BuffersKept
<1>3. CASE work # Refused
  <2>1. /\ UNCHANGED <<job, phase>> /\ groups' = Tail(groups) /\ groups # <<>>
        /\ staged' = [staged EXCEPT
             !.experts = Append(@, [file |-> ExpertFile(g), tensors |-> WritePackedRecords(work.records)]),
             !.scalar = work.scalar, !.peak = Max({@, work.peak}), !.live = Max({@, work.live})]
    BY <1>3 DEF ConvertGroupOfExperts
  <2>2. /\ job.perFile \in 1..c.experts /\ IsBytes(groups)
        /\ Range(groups) \subseteq Range(JobGroups(job))
    BY <1>1 DEF BuffersKept
  <2>3. g \in Range(groups) /\ IsBytes(Tail(groups)) /\ Range(Tail(groups)) \subseteq Range(groups)
    BY <2>1, <2>2, ListTail
  <2>4. IsGroup(g, SparseLayers(c), c.experts)
    BY <1>1, <2>2, <2>3, JobGroupsCover
  <2> DEFINE n == g.end - g.first
  <2>5. Packed(work, Reads(job, checkpoint, g), g, MoeConfig(c), job, staged.scalar, n)
    BY <1>1, <1>3, <2>4, ConvertedGroup
  <2> HIDE DEF work, g, n
  <2>6. /\ work.peak \in Nat /\ work.live \in Nat /\ work.live <= work.peak
        /\ work.peak = 0 \/ work.peak <= job.maxBuffer
    BY <2>5 DEF Packed
  <2>7. /\ staged = [f \in StagedFields |-> staged[f]]
        /\ staged.peak \in Nat /\ staged.live \in Nat /\ staged.live <= staged.peak
        /\ staged.peak = 0 \/ staged.peak <= job.maxBuffer
    BY DEF BuffersKept
  <2>8. /\ staged' = [f \in StagedFields |-> staged'[f]]
        /\ staged'.peak = Max({staged.peak, work.peak})
        /\ staged'.live = Max({staged.live, work.live})
    BY <2>1, <2>7 DEF StagedFields
  <2>9. /\ Max({staged.peak, work.peak}) = IF staged.peak >= work.peak THEN staged.peak ELSE work.peak
        /\ Max({staged.live, work.live}) = IF staged.live >= work.live THEN staged.live ELSE work.live
    BY <2>6, <2>7, MaxOfTwo
  <2>10. JobGroups(job)' = JobGroups(job)
    BY <2>1 DEF JobGroups
  <2>11. /\ staged'.peak \in Nat /\ staged'.live \in Nat /\ staged'.live <= staged'.peak
         /\ staged'.peak = 0 \/ staged'.peak <= job.maxBuffer
    BY <2>6, <2>7, <2>8, <2>9
  <2>12. /\ IsBytes(groups') /\ Range(groups') \subseteq Range(JobGroups(job'))
         /\ staged'.peak = 0 \/ staged'.peak <= job'.maxBuffer
         /\ job'.perFile \in 1..job'.config.experts /\ phase' = "packing"
    BY <1>1, <2>1, <2>2, <2>3, <2>10, <2>11
  <2>13. phase' \notin {"source", "opened"}
    BY <2>12
  <2> QED  BY <2>8, <2>11, <2>12, <2>13, Zenon DEF BuffersKept
<1> QED  BY <1>2, <1>3

\* Every step stays within the budget.
LEMMA BuffersStep == SourceOpened /\ BuffersKept /\ [Next]_vars => BuffersKept'
<1> SUFFICES ASSUME SourceOpened, BuffersKept, [Next]_vars
             PROVE  BuffersKept'
  OBVIOUS
<1>1. CASE OpenSource
  <2>1. UNCHANGED <<job, staged, groups>> /\ phase = "source" /\ phase' \in {"opened", "refused"}
    BY <1>1 DEF OpenSource, Refuse
  <2> QED  BY <2>1 DEF BuffersKept
<1>2. CASE ConvertDenseTensors
  <2>1. CASE phase' = "packing"
    BY <1>2, <2>1, DenseStep
  <2>2. CASE phase' # "packing"
    <3>1. UNCHANGED <<job, staged, groups>> /\ phase' = "refused"
      BY <1>2, <2>2 DEF ConvertDenseTensors, Refuse
    <3> QED  BY <3>1 DEF BuffersKept
  <2> QED  BY <2>1, <2>2
<1>3. CASE ConvertGroupOfExperts
  BY <1>3, GroupStep
<1>4. CASE Publish \/ Edit
  <2>1. UNCHANGED <<job, staged, groups>> /\ phase' \in {"published", "edited", "refused"}
    BY <1>4 DEF Publish, Edit, Refuse
  <2> QED  BY <2>1 DEF BuffersKept
<1>5. CASE UNCHANGED <<job, phase, staged, groups>>
  <2>1. JobGroups(job)' = JobGroups(job)
    BY <1>5 DEF JobGroups
  <2> QED  BY <1>5, <2>1 DEF BuffersKept
<1>6. CASE LoadResident \/ Open \/ Load \/ UNCHANGED vars
  BY <1>5, <1>6 DEF LoadResident, Open, Load, vars
<1> QED  BY <1>1, <1>2, <1>3, <1>4, <1>6 DEF Next, Finished

\* The bytes really held while experts are packed are within the peak that is
\* reported, and the peak is within the budget, whatever the sizes.
THEOREM BuffersBounded == Spec => []BuffersWithinBudget
<1>1. Init => BuffersKept
  BY DEF Init, BuffersKept, Nothing, StagedFields
<1>2. BuffersKept => BuffersWithinBudget
  BY DEF BuffersKept, BuffersWithinBudget
<1>3. SourceOpened /\ BuffersKept /\ [Next]_vars => BuffersKept'
  BY BuffersStep
<1> QED  BY <1>1, <1>2, <1>3, OrderCorrect, PTL DEF Spec

(***************************************************************************)
(* The files of experts.                                                   *)
(***************************************************************************)

\* The file of group g: one record for each of its experts, made of what is
\* read of the source.
FileOf(j, k, g) ==
    [file    |-> ExpertFile(g),
     tensors |-> [name \in {PackedName(g.layer, e) : e \in GroupExperts(g)} |->
                    RecordOf(MoeConfig(j.config), Reads(j, k, g)[name[2]])]]

\* Every expert of the group could be read and packed, with this scalar type.
WellRead(j, k, g, scalar) ==
    /\ scalar \in Scalars
    /\ \A e \in GroupExperts(g) :
         LET read == Reads(j, k, g)[e] IN
         read # Refused /\ RecordOf(MoeConfig(j.config), read) # Refused /\ read.scalar = scalar

\* Files of well-read groups.
WellWritten(j, k, scalar, w) ==
    \E g \in Range(JobGroups(j)) : w = FileOf(j, k, g) /\ WellRead(j, k, g, scalar)

\* What has been written: files of groups, of one scalar type, and for every
\* group that is not waiting any more its file; before that, every dense tensor.
FilesKept ==
    phase \in {"packing", "published", "edited"} =>
        /\ job.perFile \in 1..job.config.experts /\ IsBytes(staged.experts)
        /\ \A w \in Range(staged.experts) : WellWritten(job, checkpoint, staged.scalar, w)
        /\ \A g \in Range(JobGroups(job)) :
             g \in Range(groups) \/ FileOf(job, checkpoint, g) \in Range(staged.experts)
        /\ staged.scalar = "any" => Range(staged.experts) = {}
        /\ phase # "packing" => groups = <<>>
        /\ staged.dense = ConvertDense(InDirectory(Source(job)), DenseNames(job.config), job.maxBuffer)
        /\ staged.dense # Refused

\* A group that is converted is well read, and its file is the one written.
LEMMA GroupFile ==
    ASSUME NEW j, NEW k, Opened(j, k), NEW g, NEW layers, NEW experts, experts \in Nat,
           IsGroup(g, layers, experts), NEW scalar,
           NEW work, work = ConvertExperts(InDirectory(Source(j)), k, g, j, scalar), work # Refused
    PROVE  /\ WellRead(j, k, g, work.scalar) /\ work.scalar \in Scalars
           /\ scalar # "any" => work.scalar = scalar
           /\ [file |-> ExpertFile(g), tensors |-> WritePackedRecords(work.records)] = FileOf(j, k, g)
<1> DEFINE moe == MoeConfig(j.config)
           read == Reads(j, k, g)
           n == g.end - g.first
<1>1. n \in Nat /\ n # 0 /\ Packed(work, read, g, moe, j, scalar, n)
  BY ConvertedGroup
<1>2. g.first \in Nat /\ g.end \in Nat
  BY DEF IsGroup
<1>3. ASSUME NEW e \in GroupExperts(g)
      PROVE  /\ read[e] # Refused /\ RecordOf(moe, read[e]) # Refused
             /\ read[e].scalar = work.scalar /\ read[e].scalar \in Scalars
  <2> DEFINE i == e - g.first + 1
  <2>1. i \in 1..n /\ g.first + i - 1 = e
    BY <1>2 DEF GroupExperts
  <2> HIDE DEF i, n, read, moe
  <2>2. LET x == g.first + i - 1 IN
        /\ read[x] # Refused /\ RecordOf(moe, read[x]) # Refused
        /\ read[x].scalar = work.scalar /\ read[x].scalar \in Scalars
    BY <1>1, <2>1 DEF Packed
  <2> QED  BY <2>1, <2>2
<1>4. work.scalar \in Scalars
  <2>1. g.first \in GroupExperts(g)
    BY <1>1, <1>2 DEF GroupExperts
  <2> HIDE DEF read, moe
  <2> QED  BY <1>3, <2>1
<1>5. WellRead(j, k, g, work.scalar)
  <2> HIDE DEF n
  <2> QED  BY <1>3, <1>4 DEF WellRead
<1>6. scalar # "any" => work.scalar = scalar
  <2> HIDE DEF read, moe, n
  <2> QED  BY <1>1 DEF Packed
<1>7. WritePackedRecords(work.records) =
        [name \in {PackedName(g.layer, e) : e \in GroupExperts(g)} |-> RecordOf(moe, read[name[2]])]
  <2>1. n = g.end - g.first /\ g.first \in Int /\ g.end \in Int
    BY <1>2
  <2> HIDE DEF read, moe, n
  <2> QED  BY <1>1, <2>1, GroupWritten
<1> QED  BY <1>4, <1>5, <1>6, <1>7 DEF FileOf

\* One file more.
LEMMA FileStep ==
    ASSUME SourceOpened, BuffersKept, FilesKept, ConvertGroupOfExperts
    PROVE  FilesKept'
<1> DEFINE c == job.config
           g == Head(groups)
           work == ConvertExperts(InDirectory(Source(job)), checkpoint, g, job, staged.scalar)
           file == FileOf(job, checkpoint, g)
<1>1. Opened(job, checkpoint) /\ IsModel(c) /\ c.experts \in Nat /\ phase = "packing"
  BY CheckpointOpened DEF ConvertGroupOfExperts
<1>2. CASE work = Refused
  <2>1. phase' = "refused"
    BY <1>2 DEF ConvertGroupOfExperts, Refuse
  <2> QED  BY <2>1 DEF FilesKept
<1>3. CASE work # Refused
  <2>1. /\ UNCHANGED <<job, phase, checkpoint>> /\ groups' = Tail(groups) /\ groups # <<>>
        /\ staged' = [staged EXCEPT
             !.experts = Append(@, [file |-> ExpertFile(g), tensors |-> WritePackedRecords(work.records)]),
             !.scalar = work.scalar, !.peak = Max({@, work.peak}), !.live = Max({@, work.live})]
    BY <1>3 DEF ConvertGroupOfExperts
  <2>2. /\ job.perFile \in 1..c.experts /\ IsBytes(groups)
        /\ Range(groups) \subseteq Range(JobGroups(job))
        /\ staged = [f \in StagedFields |-> staged[f]]
    BY <1>1 DEF BuffersKept
  <2>3. g \in Range(groups) /\ Range(groups) = {g} \cup Range(Tail(groups))
    BY <2>1, <2>2, ListTail
  <2>4. IsGroup(g, SparseLayers(c), c.experts) /\ g \in Range(JobGroups(job))
    BY <1>1, <2>2, <2>3, JobGroupsCover
  <2>5. /\ WellRead(job, checkpoint, g, work.scalar) /\ work.scalar \in Scalars
        /\ staged.scalar # "any" => work.scalar = staged.scalar
        /\ [file |-> ExpertFile(g), tensors |-> WritePackedRecords(work.records)] = file
    BY <1>1, <1>3, <2>4, GroupFile
  <2> DEFINE written == staged.experts
  <2>6. /\ staged'.experts = Append(written, file) /\ staged'.scalar = work.scalar
        /\ staged'.dense = staged.dense
    BY <2>1, <2>2, <2>5 DEF StagedFields
  <2>7. /\ IsBytes(written)
        /\ \A w \in Range(written) : WellWritten(job, checkpoint, staged.scalar, w)
        /\ \A h \in Range(JobGroups(job)) :
             h \in Range(groups) \/ FileOf(job, checkpoint, h) \in Range(written)
        /\ staged.scalar = "any" => Range(written) = {}
        /\ staged.dense = ConvertDense(InDirectory(Source(job)), DenseNames(c), job.maxBuffer)
        /\ staged.dense # Refused
    BY <1>1 DEF FilesKept
  <2> HIDE DEF work, written, file
  <2>8. IsBytes(Append(written, file)) /\ Range(Append(written, file)) = Range(written) \cup {file}
    <3> DEFINE n == Len(written)
    <3>1. n \in Nat /\ IsList(written, n)
      BY <2>7 DEF IsBytes
    <3> HIDE DEF n
    <3>2. /\ IsList(Append(written, file), n + 1) /\ Len(Append(written, file)) = n + 1
          /\ Range(Append(written, file)) = Range(written) \cup {file}
      BY <3>1, RangeAppend
    <3> QED  BY <3>1, <3>2 DEF IsBytes
  <2>9. ASSUME NEW w \in Range(written) \cup {file}
        PROVE  WellWritten(job, checkpoint, work.scalar, w)
    <3>1. CASE w \in Range(written)
      BY <2>5, <2>7, <3>1
    <3>2. CASE w = file
      BY <2>4, <2>5, <3>2 DEF WellWritten, file
    <3> QED  BY <3>1, <3>2
  <2>10. ASSUME NEW h \in Range(JobGroups(job))
         PROVE  \/ h \in Range(Tail(groups))
                \/ FileOf(job, checkpoint, h) \in Range(written) \cup {file}
    BY <2>3, <2>7 DEF file
  <2>11. work.scalar # "any"
    BY <2>5 DEF Scalars
  <2>12. /\ JobGroups(job)' = JobGroups(job)
         /\ \A h : FileOf(job, checkpoint, h)' = FileOf(job, checkpoint, h)
         /\ \A s, w : WellWritten(job, checkpoint, s, w)' = WellWritten(job, checkpoint, s, w)
         /\ Source(job)' = Source(job) /\ DenseNames(job.config)' = DenseNames(c)
    BY <2>1
  <2>13. /\ \A w \in Range(staged'.experts) : WellWritten(job', checkpoint', staged'.scalar, w)
         /\ \A h \in Range(JobGroups(job')) :
              h \in Range(groups') \/ FileOf(job', checkpoint', h) \in Range(staged'.experts)
         /\ IsBytes(staged'.experts) /\ job'.perFile \in 1..job'.config.experts
    BY <2>1, <2>2, <2>6, <2>8, <2>9, <2>10
  <2>14. /\ staged'.dense = ConvertDense(InDirectory(Source(job')), DenseNames(job'.config), job'.maxBuffer)
         /\ staged'.dense # Refused /\ phase' = "packing" /\ staged'.scalar # "any"
    BY <1>1, <2>1, <2>6, <2>7, <2>11
  <2> QED  BY <2>13, <2>14, Zenon DEF FilesKept
<1> QED  BY <1>2, <1>3

\* Before the first one.
LEMMA FirstFile ==
    ASSUME SourceOpened, BuffersKept, ConvertDenseTensors, phase' = "packing"
    PROVE  FilesKept'
<1> DEFINE c == job.config
           files == ConvertDense(InDirectory(Source(job)), DenseNames(c), job.maxBuffer)
<1>1. Opened(job, checkpoint) /\ IsModel(c) /\ c.experts \in Nat /\ phase = "opened"
  BY CheckpointOpened DEF ConvertDenseTensors
<1>2. checkpoint.config = c /\ job \in Jobs
  BY <1>1 DEF Opened
<1>3. /\ UNCHANGED job /\ ValidOptions(job, c.experts) /\ files # Refused
      /\ staged' = [staged EXCEPT !.dense = files, !.peak = DensePeak(files)]
      /\ groups' = GroupsOf(SparseLayers(c), c.experts, job.perFile)
  BY <1>2 DEF ConvertDenseTensors, Refuse
<1>4. staged = Nothing
  BY <1>1 DEF BuffersKept
<1> HIDE DEF files
<1>5. staged'.experts = <<>> /\ staged'.dense = files /\ staged'.scalar = "any"
  BY <1>3, <1>4 DEF Nothing
<1>6. IsBytes(<<>>) /\ Range(<<>>) = {}
  BY DEF IsBytes, IsList, Range
<1>7. job'.perFile \in 1..job'.config.experts /\ groups' = JobGroups(job')
  BY <1>3 DEF JobGroups, ValidOptions
<1>8. staged'.dense = ConvertDense(InDirectory(Source(job')), DenseNames(job'.config), job'.maxBuffer)
      /\ staged'.dense # Refused
  BY <1>3, <1>5 DEF files
<1>9. IsBytes(staged'.experts) /\ Range(staged'.experts) = {}
  BY <1>5, <1>6
<1> QED  BY <1>7, <1>8, <1>9, Zenon DEF FilesKept

\* The files survive every step.
LEMMA FilesStep == SourceOpened /\ BuffersKept /\ FilesKept /\ [Next]_vars => FilesKept'
<1> SUFFICES ASSUME SourceOpened, BuffersKept, FilesKept, [Next]_vars
             PROVE  FilesKept'
  OBVIOUS
<1>1. CASE OpenSource
  <2>1. phase' \in {"opened", "refused"}
    BY <1>1 DEF OpenSource, Refuse
  <2> QED  BY <2>1 DEF FilesKept
<1>2. CASE ConvertDenseTensors
  <2>1. CASE phase' = "packing"
    BY <1>2, <2>1, FirstFile
  <2>2. CASE phase' # "packing"
    <3>1. phase' = "refused"
      BY <1>2, <2>2 DEF ConvertDenseTensors, Refuse
    <3> QED  BY <3>1 DEF FilesKept
  <2> QED  BY <2>1, <2>2
<1>3. CASE ConvertGroupOfExperts
  BY <1>3, FileStep
<1>4. ASSUME UNCHANGED <<job, checkpoint, staged, groups>>,
             phase' \in {"packing", "published", "edited"} => phase \in {"packing", "published", "edited"},
             phase' # "packing" => phase' = phase \/ groups = <<>> \/ phase' \notin {"published", "edited"}
      PROVE  FilesKept'
  <2>1. /\ JobGroups(job)' = JobGroups(job)
        /\ \A h : FileOf(job, checkpoint, h)' = FileOf(job, checkpoint, h)
        /\ \A s, w : WellWritten(job, checkpoint, s, w)' = WellWritten(job, checkpoint, s, w)
        /\ Source(job)' = Source(job) /\ DenseNames(job.config)' = DenseNames(job.config)
    BY <1>4
  <2> QED  BY <1>4, <2>1 DEF FilesKept
<1>5. CASE Publish
  <2>1. /\ UNCHANGED <<job, checkpoint, staged, groups>> /\ phase = "packing" /\ groups = <<>>
    BY <1>5 DEF Publish
  <2> QED  BY <1>4, <2>1
<1>6. CASE Edit
  <2>1. /\ UNCHANGED <<job, checkpoint, staged, groups>> /\ phase = "published"
    BY <1>6 DEF Edit
  <2>2. groups = <<>>
    BY <2>1 DEF FilesKept
  <2> QED  BY <1>4, <2>1, <2>2
<1>7. CASE LoadResident \/ Open \/ Load \/ UNCHANGED vars
  <2>1. UNCHANGED <<job, phase, checkpoint, staged, groups>>
    BY <1>7 DEF LoadResident, Open, Load, vars
  <2> QED  BY <1>4, <2>1
<1> QED  BY <1>1, <1>2, <1>3, <1>5, <1>6, <1>7 DEF Next, Finished

(***************************************************************************)
(* File names.                                                             *)
(***************************************************************************)

\* The five digits of a number below 10^5 give it.
LEMMA DigitsOf ==
    ASSUME NEW n \in Nat, n < 100000, NEW x, x = Padded(n)
    PROVE  n = x[1] * 10000 + x[2] * 1000 + x[3] * 100 + x[4] * 10 + x[5]
<1>1. \A d \in 1..5 : x[d] = (n \div PowersOfTen[d]) % 10
  BY DEF Padded, DecimalDigits
<1>2. /\ PowersOfTen[1] = 10000 /\ PowersOfTen[2] = 1000 /\ PowersOfTen[3] = 100
      /\ PowersOfTen[4] = 10 /\ PowersOfTen[5] = 1
  BY DEF PowersOfTen
<1>3. /\ x[1] = (n \div 10000) % 10 /\ x[2] = (n \div 1000) % 10 /\ x[3] = (n \div 100) % 10
      /\ x[4] = (n \div 10) % 10 /\ x[5] = (n \div 1) % 10
  BY <1>1, <1>2
<1> DEFINE a == n \div 10  b == n \div 100  c == n \div 1000  d == n \div 10000
<1>4. /\ a \in Nat /\ b \in Nat /\ c \in Nat /\ d \in Nat /\ n \div 1 = n
      /\ a * 10 <= n /\ n < a * 10 + 10 /\ b * 100 <= n /\ n < b * 100 + 100
      /\ c * 1000 <= n /\ n < c * 1000 + 1000 /\ d * 10000 <= n /\ n < d * 10000 + 10000
  OBVIOUS
<1>5. x[1] = d % 10 /\ x[2] = c % 10 /\ x[3] = b % 10 /\ x[4] = a % 10 /\ x[5] = n % 10
  BY <1>3, <1>4
<1> HIDE DEF a, b, c, d
<1>6. d % 10 = d
  BY <1>4
<1>7. c % 10 = c - 10 * d
  BY <1>4
<1>8. b % 10 = b - 10 * c
  BY <1>4
<1>9. a % 10 = a - 10 * b
  BY <1>4
<1>10. n % 10 = n - 10 * a
  BY <1>4
<1> QED  BY <1>4, <1>5, <1>6, <1>7, <1>8, <1>9, <1>10

\* Five digits tell numbers below 10^5 apart.
LEMMA DigitsDiffer ==
    ASSUME NEW a \in Nat, NEW b \in Nat, a < 100000, b < 100000, Padded(a) = Padded(b)
    PROVE  a = b
BY DigitsOf

\* A number is written as a list of five digits.
LEMMA FiveDigits ==
    ASSUME NEW n
    PROVE  IsList(Padded(n), 5)
BY DEF Padded, DecimalDigits, IsList

Splits(f, m, n, a, b) == IsList(a, m) /\ IsList(b, n) /\ f = a \o b

\* A list splits in one way into lists of given lengths.
LEMMA SplitsOnce ==
    ASSUME NEW m \in Nat, NEW n \in Nat, NEW f, NEW a, NEW b, NEW c, NEW d,
           Splits(f, m, n, a, b), Splits(f, m, n, c, d)
    PROVE  a = c /\ b = d
<1>0. /\ IsList(a, m) /\ IsList(b, n) /\ IsList(c, m) /\ IsList(d, n)
      /\ f = a \o b /\ f = c \o d
  BY DEF Splits
<1>1. Concatenates(a, m, b, n) /\ Concatenates(c, m, d, n)
  BY <1>0, ListConcat
<1>2. \A k \in 1..m : a[k] = c[k]
  BY <1>0, <1>1 DEF Concatenates
<1>3. \A k \in 1..n : b[k] = d[k]
  BY <1>0, <1>1 DEF Concatenates
<1>4. a = c
  BY <1>0, <1>2, ListEqual
<1>5. b = d
  BY <1>0, <1>3, ListEqual
<1> QED  BY <1>4, <1>5

Fives(f, a, b, c) == IsList(a, 5) /\ IsList(b, 5) /\ IsList(c, 5) /\ f = a \o b \o c

\* Three numbers of five digits can be read off the digits one after the other.
LEMMA FivesOnce ==
    ASSUME NEW f, NEW a, NEW b, NEW c, NEW x, NEW y, NEW z,
           Fives(f, a, b, c), Fives(f, x, y, z)
    PROVE  a = x /\ b = y /\ c = z
<1>1. ASSUME NEW p, NEW q, NEW r, Fives(f, p, q, r)
      PROVE  \E pq : Splits(f, 10, 5, pq, r) /\ Splits(pq, 5, 5, p, q)
  <2>1. IsList(p, 5) /\ IsList(q, 5) /\ IsList(r, 5) /\ f = (p \o q) \o r
    BY <1>1 DEF Fives
  <2>2. 5 \in Nat /\ 5 + 5 = 10
    OBVIOUS
  <2>3. Concatenates(p, 5, q, 5)
    BY <2>1, <2>2, ListConcat
  <2>4. IsList(p \o q, 10)
    BY <2>2, <2>3 DEF Concatenates
  <2>5. Splits(f, 10, 5, p \o q, r) /\ Splits(p \o q, 5, 5, p, q)
    BY <2>1, <2>4, Zenon DEF Splits
  <2> QED  BY <2>5, Zenon
<1>2. PICK ab : Splits(f, 10, 5, ab, c) /\ Splits(ab, 5, 5, a, b)
  BY <1>1, Zenon
<1>3. PICK xy : Splits(f, 10, 5, xy, z) /\ Splits(xy, 5, 5, x, y)
  BY <1>1, Zenon
<1>4. 10 \in Nat /\ 5 \in Nat
  OBVIOUS
<1>5. ab = xy /\ c = z
  BY <1>2, <1>3, <1>4, SplitsOnce
<1> QED  BY <1>2, <1>3, <1>4, <1>5, SplitsOnce

\* Groups of one job have files of different names.
LEMMA FilesDiffer ==
    ASSUME NEW layers, NEW experts, NEW g, IsGroup(g, layers, experts), NEW h, IsGroup(h, layers, experts),
           g.layer \in Nat, h.layer \in Nat, g.layer < 100000, h.layer < 100000,
           experts \in Nat, experts <= 100000, ExpertFile(g) = ExpertFile(h)
    PROVE  g = h
<1>1. \A i : Fives(ExpertFile(i), Padded(i.layer), Padded(i.first), Padded(i.end - 1))
  BY FiveDigits DEF ExpertFile, Fives
<1>2. /\ Padded(g.layer) = Padded(h.layer) /\ Padded(g.first) = Padded(h.first)
      /\ Padded(g.end - 1) = Padded(h.end - 1)
  <2>1. /\ Fives(ExpertFile(g), Padded(g.layer), Padded(g.first), Padded(g.end - 1))
        /\ Fives(ExpertFile(g), Padded(h.layer), Padded(h.first), Padded(h.end - 1))
    BY <1>1
  <2> QED  BY <2>1, FivesOnce
<1>3. g.layer = h.layer
  BY <1>2, DigitsDiffer
<1>4. g.first = h.first
  <2>1. g.first \in Nat /\ h.first \in Nat /\ g.first < 100000 /\ h.first < 100000
    BY DEF IsGroup
  <2> QED  BY <1>2, <2>1, DigitsDiffer
<1>5. g.end = h.end
  <2>1. /\ g.end - 1 \in Nat /\ h.end - 1 \in Nat /\ g.end - 1 < 100000 /\ h.end - 1 < 100000
        /\ g.end \in Nat /\ h.end \in Nat
    BY DEF IsGroup
  <2>2. g.end - 1 = h.end - 1
    BY <1>2, <2>1, DigitsDiffer
  <2> QED  BY <2>1, <2>2
<1> QED  BY <1>3, <1>4, <1>5 DEF IsGroup

(***************************************************************************)
(* What a store finds in the files of experts.                             *)
(***************************************************************************)

AllWritten(j, k, scalar, written) == \A w \in Range(written) : WellWritten(j, k, scalar, w)

\* A record of a well-read group of the job under the name t.
IsFound(j, k, scalar, t, record, g) ==
    /\ g \in Range(JobGroups(j)) /\ WellRead(j, k, g, scalar)
    /\ t \in DOMAIN FileOf(j, k, g).tensors /\ record = FileOf(j, k, g).tensors[t]

\* Every record found in files of well-read groups is one of such a group.
LEMMA FoundRecord ==
    ASSUME NEW j, NEW k, NEW scalar, NEW written,
           AllWritten(j, k, scalar, written),
           NEW t \in DOMAIN OpenStore(OnDisk(written)).inventory
    PROVE  \E g : IsFound(j, k, scalar, t, OpenStore(OnDisk(written)).inventory[t], g)
<1> DEFINE files == OnDisk(written)
           f == CHOOSE f \in DOMAIN files : t \in DOMAIN files[f]
           names == {w.file : w \in Range(written)}
<1>1. t \in UNION {DOMAIN files[x] : x \in DOMAIN files}
      /\ OpenStore(files).inventory[t] = files[f][t]
  <2> HIDE DEF files
  <2>1. OpenStore(files).inventory =
          [u \in UNION {DOMAIN files[x] : x \in DOMAIN files} |->
             files[CHOOSE x \in DOMAIN files : u \in DOMAIN files[x]][u]]
    BY DEF OpenStore
  <2>2. t \in DOMAIN OpenStore(files).inventory
    BY DEF files
  <2> HIDE DEF f
  <2>3. t \in UNION {DOMAIN files[x] : x \in DOMAIN files}
    BY <2>1, <2>2
  <2> QED  BY <2>1, <2>3 DEF f
<1>2. f \in DOMAIN files /\ t \in DOMAIN files[f]
  <2> HIDE DEF files
  <2> QED  BY <1>1
<1> HIDE DEF f
<1>3. DOMAIN files = names /\ files[f] = (CHOOSE w \in Range(written) : w.file = f).tensors
  BY <1>2 DEF OnDisk
<1>4. PICK w \in Range(written) : files[f] = w.tensors
  <2>1. \E w \in Range(written) : w.file = f
    BY <1>2, <1>3
  <2>2. (CHOOSE w \in Range(written) : w.file = f) \in Range(written)
    BY <2>1
  <2> HIDE DEF files
  <2> QED  BY <1>3, <2>2
<1>5. PICK g \in Range(JobGroups(j)) : w = FileOf(j, k, g) /\ WellRead(j, k, g, scalar)
  BY DEF WellWritten, AllWritten
<1> HIDE DEF files
<1>6. files[f] = FileOf(j, k, g).tensors
  BY <1>4, <1>5
<1> QED  BY <1>1, <1>2, <1>5, <1>6 DEF files, IsFound

\* The record of one expert as it is read of the source.
RecordKept(j, k, scalar, record, l, e) ==
    LET moe  == MoeConfig(j.config)
        read == ReadAs(k.layout, InDirectory(Source(j)), moe, l, e)
    IN /\ read # Refused /\ RecordOf(moe, read) # Refused
       /\ read.scalar = scalar /\ scalar \in Scalars /\ record = RecordOf(moe, read)

\* A record found under the name of an expert is that expert's.
LEMMA FoundExpert ==
    ASSUME NEW j, NEW k, Opened(j, k), NEW scalar, NEW written,
           AllWritten(j, k, scalar, written),
           NEW l, NEW e, PackedName(l, e) \in DOMAIN OpenStore(OnDisk(written)).inventory
    PROVE  RecordKept(j, k, scalar, OpenStore(OnDisk(written)).inventory[PackedName(l, e)], l, e)
<1> DEFINE t == PackedName(l, e)
           moe == MoeConfig(j.config)
           record == OpenStore(OnDisk(written)).inventory[t]
<1>0. PICK g : IsFound(j, k, scalar, t, record, g)
  BY FoundRecord
<1> HIDE DEF record
<1>1. /\ g \in Range(JobGroups(j)) /\ WellRead(j, k, g, scalar)
      /\ t \in DOMAIN FileOf(j, k, g).tensors /\ record = FileOf(j, k, g).tensors[t]
  BY <1>0 DEF IsFound
<1> DEFINE names == {PackedName(g.layer, x) : x \in GroupExperts(g)}
<1>2. FileOf(j, k, g).tensors = [name \in names |-> RecordOf(moe, Reads(j, k, g)[name[2]])]
  BY DEF FileOf
<1>3. t \in names /\ FileOf(j, k, g).tensors[t] = RecordOf(moe, Reads(j, k, g)[t[2]])
  BY <1>1, <1>2
<1>4. g.layer = l /\ e \in GroupExperts(g) /\ t[2] = e
  <2>1. PICK x \in GroupExperts(g) : t = PackedName(g.layer, x)
    BY <1>3
  <2> QED  BY <2>1 DEF PackedName
<1>5. Reads(j, k, g)[e] = ReadAs(k.layout, InDirectory(Source(j)), moe, l, e)
  BY <1>4 DEF Reads, ReadGroup, Opened
<1>6. /\ Reads(j, k, g)[e] # Refused /\ RecordOf(moe, Reads(j, k, g)[e]) # Refused
      /\ Reads(j, k, g)[e].scalar = scalar /\ scalar \in Scalars
  BY <1>1, <1>4 DEF WellRead
<1> HIDE DEF t, moe
<1> QED  BY <1>1, <1>3, <1>4, <1>5, <1>6 DEF RecordKept, t, moe, record

\* Files of groups that have different names all hold what was written.
LEMMA WrittenFound ==
    ASSUME NEW j, NEW k, NEW scalar, NEW written,
           AllWritten(j, k, scalar, written),
           \A g, h \in Range(JobGroups(j)) : ExpertFile(g) = ExpertFile(h) => g = h,
           NEW g \in Range(JobGroups(j)), FileOf(j, k, g) \in Range(written),
           NEW e \in GroupExperts(g)
    PROVE  PackedName(g.layer, e) \in DOMAIN OpenStore(OnDisk(written)).inventory
<1> DEFINE files == OnDisk(written)
           w == FileOf(j, k, g)
           f == ExpertFile(g)
           v == CHOOSE v \in Range(written) : v.file = f
           t == PackedName(g.layer, e)
<1>1. \A h : FileOf(j, k, h).file = ExpertFile(h)
  BY DEF FileOf
<1>2. v \in Range(written) /\ v.file = f
  <2>1. w \in Range(written) /\ w.file = f
    BY <1>1
  <2> HIDE DEF w, f
  <2> QED  BY <2>1
<1> HIDE DEF v
<1>3. PICK h \in Range(JobGroups(j)) : v = FileOf(j, k, h)
  BY <1>2 DEF WellWritten, AllWritten
<1>4. h = g
  BY <1>1, <1>2, <1>3
<1>5. f \in DOMAIN files /\ files[f] = w.tensors
  <2>1. f \in {x.file : x \in Range(written)}
    BY <1>2
  <2>2. files[f] = v.tensors
    BY <2>1 DEF OnDisk, v
  <2> QED  BY <1>3, <1>4, <2>1, <2>2 DEF OnDisk
<1>6. t \in DOMAIN w.tensors
  <2>1. DOMAIN w.tensors = {PackedName(g.layer, x) : x \in GroupExperts(g)}
    BY DEF FileOf
  <2> QED  BY <2>1
<1> HIDE DEF files, w, f, t
<1>7. t \in UNION {DOMAIN files[x] : x \in DOMAIN files}
  BY <1>5, <1>6
<1> QED  BY <1>7 DEF OpenStore, files, t

(***************************************************************************)
(* The resident model.                                                     *)
(***************************************************************************)

\* Every tensor of one of the shards is the one the directory has.
LEMMA InOneShard ==
    ASSUME NEW j \in Jobs, NEW f \in {"first", "second"}, NEW name \in DOMAIN Source(j).files[f]
    PROVE  Source(j).files[f][name] = InDirectory(Source(j))[name]
<1>1. CASE f = "first"
  <2>1. name \in DOMAIN DenseShard(j) /\ Source(j).files[f] = DenseShard(j)
    BY <1>1 DEF DenseShard
  <2> QED  BY <2>1, DirectoryTensors
<1>2. CASE f = "second"
  <2>1. name \in DOMAIN ExpertShard(j) /\ Source(j).files[f] = ExpertShard(j)
    BY <1>2 DEF ExpertShard
  <2>2. MatrixName(name) \/ FusedName(name)
    BY <2>1, MatrixTensors, JobBase
  <2>3. name \in DOMAIN InDirectory(Source(j))
    BY <2>1, DirectoryTensors
  <2>4. InDirectory(Source(j))[name] = ExpertShard(j)[name]
    BY <2>2, <2>3, DirectoryTensors
  <2> QED  BY <2>1, <2>4
<1> QED  BY <1>1, <1>2

\* What the shards the index names hold is what the directory holds.
LEMMA IndexedContents ==
    ASSUME NEW j \in Jobs, NEW name \in DOMAIN ShardContents(Source(j))
    PROVE  ShardContents(Source(j))[name] = InDirectory(Source(j))[name]
<1> DEFINE s == Source(j)
           shards == Range(s.index)
           f == CHOOSE f \in shards : name \in DOMAIN s.files[f]
<1>1. shards \subseteq {"first", "second"}
  BY SourceIndex
<1> HIDE DEF s, shards
<1>2. ShardContents(s) = [n \in UNION {DOMAIN s.files[x] : x \in shards} |->
                            s.files[CHOOSE x \in shards : n \in DOMAIN s.files[x]][n]]
  BY DEF ShardContents, shards
<1>3. name \in DOMAIN ShardContents(s)
  BY DEF s
<1> HIDE DEF f
<1>4. name \in UNION {DOMAIN s.files[x] : x \in shards}
  BY <1>2, <1>3
<1>5. ShardContents(s)[name] = s.files[f][name]
  BY <1>2, <1>4 DEF f
<1>6. f \in shards /\ name \in DOMAIN s.files[f]
  BY <1>4 DEF f
<1>7. f \in {"first", "second"}
  BY <1>1, <1>6
<1>8. s.files[f][name] = InDirectory(s)[name]
  BY <1>6, <1>7, InOneShard DEF s
<1> QED  BY <1>5, <1>8 DEF s

\* Tensors of a resident model: at least the required ones, none that the index
\* does not declare, each as it is in the directory.
IsResident(j, k, t) ==
    /\ Required(k.config, k.layout) \subseteq DOMAIN t
    /\ DOMAIN t \subseteq DOMAIN Source(j).index
    /\ \A name \in DOMAIN t : t[name] = InDirectory(Source(j))[name]

\* All tensors of the index make one.
LEMMA AllResident ==
    ASSUME NEW j \in Jobs, NEW k, Declares(Source(j).index, k.config, k.layout),
           NEW t, t = LoadCpu(Source(j)), t # Refused
    PROVE  IsResident(j, k, t)
<1>1. t = ShardContents(Source(j)) /\ DOMAIN t = DOMAIN Source(j).index
  BY DEF LoadCpu
<1>2. \A name \in DOMAIN t : t[name] = InDirectory(Source(j))[name]
  BY <1>1, IndexedContents
<1> QED  BY <1>1, <1>2 DEF IsResident, Declares

\* So do the selected ones.
LEMMA SelectedResident ==
    ASSUME NEW j \in Jobs, NEW k, NEW t, t # Refused,
           t = LoadCpuSelected(Source(j), Required(k.config, k.layout))
    PROVE  IsResident(j, k, t)
<1> DEFINE R == Required(k.config, k.layout)
<1> HIDE DEF R
<1>1. /\ t = [name \in R |-> ShardContents(Source(j))[name]]
      /\ R \subseteq DOMAIN Source(j).index
      /\ DOMAIN ShardContents(Source(j)) = DOMAIN Source(j).index
  BY DEF LoadCpuSelected, R
<1>2. DOMAIN t = R /\ \A name \in R : t[name] = ShardContents(Source(j))[name]
  BY <1>1
<1>3. \A name \in DOMAIN t : t[name] = InDirectory(Source(j))[name]
  BY <1>1, <1>2, IndexedContents
<1> QED  BY <1>1, <1>2, <1>3 DEF IsResident, R

\* The families load tensors with the same operators.
LEMMA SharedLoads ==
    ASSUME NEW s, NEW names
    PROVE  /\ O!LoadCpu(s) = LoadCpu(s) /\ Q3!LoadCpu(s) = LoadCpu(s)
           /\ Q35!LoadCpuSelected(s, names) = LoadCpuSelected(s, names)
<1>1. O!LoadCpu(s) = LoadCpu(s)
  BY DEF O!LoadCpu, LoadCpu, O!ShardsAsDeclared, ShardsAsDeclared, O!ShardContents, ShardContents,
     O!Range, Range
<1>2. Q3!LoadCpu(s) = LoadCpu(s)
  BY DEF Q3!LoadCpu, LoadCpu, Q3!ShardsAsDeclared, ShardsAsDeclared, Q3!ShardContents, ShardContents,
     Q3!Range, Range
<1>3. Q35!LoadCpuSelected(s, names) = LoadCpuSelected(s, names)
  BY DEF Q35!LoadCpuSelected, LoadCpuSelected, Q35!ShardsAsDeclared, ShardsAsDeclared,
     Q35!ShardContents, ShardContents, Q35!Range, Range
<1> QED  BY <1>1, <1>2, <1>3

\* The resident model of an opened checkpoint.
LEMMA ResidentTensors ==
    ASSUME NEW j, NEW k, Opened(j, k), ConfigType(j.config),
           Declares(Source(j).index, k.config, k.layout),
           NEW t, t = LoadResidentModel(Source(j), k), t # Refused
    PROVE  IsResident(j, k, t)
<1> DEFINE s == Source(j)  c == k.config
<1>1. j \in Jobs /\ c = j.config /\ Detect(c) /\ KnownLayout(k)
  BY DEF Opened
<1> HIDE DEF s
<1>2. CASE c.family = "olmoe"
  <2>1. t = O!LoadResident(s, k)
    BY <1>2 DEF LoadResidentModel, InFamily, s
  <2>2. t = O!LoadCpu(s)
    BY <2>1 DEF O!LoadResident
  <2> QED  BY <1>1, <2>2, SharedLoads, AllResident DEF s
<1>3. CASE c.family = "qwen3_moe"
  <2>1. t = Q3!LoadResident(s, k)
    BY <1>3 DEF LoadResidentModel, InFamily, s
  <2>2. t = Q3!LoadCpu(s)
    BY <2>1 DEF Q3!LoadResident
  <2> QED  BY <1>1, <2>2, SharedLoads, AllResident DEF s
<1>4. CASE c.family = "qwen3_5_moe"
  <2>1. t = Q35!LoadResident(s, k) /\ Q35!ConfigType(c) /\ k.layout = "fused"
    BY <1>1, <1>4 DEF LoadResidentModel, InFamily, s, ConfigType, KnownLayout
  <2>2. t = Q35!LoadCpuSelected(s, Q35!RequiredNames(c, "fused"))
    BY <2>1 DEF Q35!LoadResident
  <2>3. t = LoadCpuSelected(s, Required(c, k.layout))
    BY <1>4, <2>1, <2>2, SharedLoads, Qwen35Required
  <2> QED  BY <1>1, <2>3, SelectedResident DEF s
<1> QED  BY <1>1, <1>2, <1>3, <1>4 DEF Detect

(***************************************************************************)
(* The matrices of one expert, read for packing and read resident.         *)
(***************************************************************************)

\* What is left of a fused layer by slices of slices and by narrowing.
LEMMA SlicesNarrow ==
    ASSUME NEW moe, IsGeometry(moe), NEW e \in Nat, NEW scalar, NEW bytes, NEW s,
           s = SectionBytes(moe, scalar), NEW half, half = moe.intermediate * moe.hidden * ByteWidth(scalar)
    PROVE  LET pair == Slice(bytes, GateUpOffset(e, s), 2 * s) IN
           /\ half = s
           /\ Slice(pair, 0, s) = Slice(bytes, 2 * e * half, half)
           /\ Slice(pair, s, s) = Slice(bytes, 2 * e * half + half, half)
<1>1. s \in Nat
  BY SectionNat
<1>2. half = s
  <2>1. \A a, b \in Nat : a * b = b * a
    OBVIOUS
  <2>2. moe.intermediate * moe.hidden = moe.hidden * moe.intermediate
    BY <2>1 DEF IsGeometry
  <2> QED  BY <2>2 DEF SectionBytes
<1> DEFINE from == GateUpOffset(e, s)
           pair == Slice(bytes, from, 2 * s)
<1>3. from \in Nat /\ 2 * e * s = from
  <2>1. \A a, b \in Nat : a * 2 * b = 2 * a * b /\ a * 2 * b \in Nat
    OBVIOUS
  <2> QED  BY <1>1, <2>1 DEF GateUpOffset
<1> HIDE DEF from
<1>4. \A k \in 1..(2 * s) : pair[k] = bytes[from + k]
  BY DEF Slice
<1> HIDE DEF pair
<1>5. Slice(pair, 0, s) = Slice(bytes, from, s)
  <2>1. \A k \in 1..s : 0 + k \in 1..(2 * s) /\ 0 + k = k
    BY <1>1
  <2>2. \A k \in 1..s : pair[0 + k] = bytes[from + k]
    BY <1>4, <2>1
  <2> QED  BY <2>2 DEF Slice
<1>6. Slice(pair, s, s) = Slice(bytes, from + s, s)
  <2>1. \A k \in 1..s : s + k \in 1..(2 * s) /\ from + (s + k) = (from + s) + k
    BY <1>1, <1>3
  <2>2. \A k \in 1..s : pair[s + k] = bytes[(from + s) + k]
    BY <1>4, <2>1
  <2> QED  BY <2>2 DEF Slice
<1>7. 2 * e * half = from /\ 2 * e * half + half = from + s
  BY <1>2, <1>3
<1> QED  BY <1>2, <1>5, <1>6, <1>7 DEF pair, from

\* Three matrices read one by one.
LEMMA SplitMatrices ==
    ASSUME NEW all, NEW moe, NEW l, NEW e, NEW read, read = ReadSplit(all, moe, l, e), read # Refused,
           NEW t, \A m \in {"gate", "up", "down"} : t[<<l, e, m>>] = all[<<l, e, m>>]
    PROVE  Matrices(read) = SplitExpert(t, l, e)
<1> DEFINE names == MatrixNames(l, e)
<1>1. \A m \in {"gate", "up", "down"} : names[m] = <<l, e, m>>
  BY DEF MatrixNames
<1> HIDE DEF names
<1>2. read = [scalar |-> all[names["gate"]].scalar, gate |-> all[names["gate"]].bytes,
              up |-> all[names["up"]].bytes, down |-> all[names["down"]].bytes]
  BY DEF ReadSplit, names
<1> DEFINE kept == SplitExpert(t, l, e)
<1>3. /\ kept = [m \in {"gate", "up", "down"} |-> kept[m]]
      /\ \A m \in {"gate", "up", "down"} : kept[m] = t[<<l, e, m>>].bytes
  BY DEF SplitExpert
<1> HIDE DEF kept
<1>4. kept["gate"] = read.gate /\ kept["up"] = read.up /\ kept["down"] = read.down
  BY <1>1, <1>2, <1>3
<1>5. kept = [gate |-> kept["gate"], up |-> kept["up"], down |-> kept["down"]]
  BY <1>3
<1> QED  BY <1>4, <1>5 DEF Matrices, kept

\* Slices of the two arrays of a layer.
LEMMA FusedMatrices ==
    ASSUME NEW all, NEW moe, IsGeometry(moe), NEW l, NEW e \in Nat,
           NEW read, read = ReadFused(all, moe, l, e), read # Refused,
           NEW t, \A name \in FusedNames(l) : t[name] = all[name],
           NEW own, own.hidden = moe.hidden, own.intermediate = moe.intermediate
    PROVE  Matrices(read) = NarrowFused(t, own, l, e)
<1> DEFINE gateUp == all[<<l, "gate_up_proj">>]
           down == all[<<l, "down_proj">>]
           s == SectionBytes(moe, gateUp.scalar)
           pair == Slice(gateUp.bytes, GateUpOffset(e, s), 2 * s)
           half == moe.intermediate * moe.hidden * ByteWidth(gateUp.scalar)
<1>1. read = [scalar |-> gateUp.scalar, gate |-> Slice(pair, 0, s), up |-> Slice(pair, s, s),
              down |-> Slice(down.bytes, e * s, s)]
  BY DEF ReadFused
<1>2. t[<<l, "gate_up_proj">>] = gateUp /\ t[<<l, "down_proj">>] = down
  BY DEF FusedNames
<1>3. NarrowFused(t, own, l, e) =
        [gate |-> Slice(gateUp.bytes, 2 * e * half, half),
         up   |-> Slice(gateUp.bytes, 2 * e * half + half, half),
         down |-> Slice(down.bytes, e * half, half)]
  BY <1>2 DEF NarrowFused
<1>4. /\ half = s
      /\ Slice(pair, 0, s) = Slice(gateUp.bytes, 2 * e * half, half)
      /\ Slice(pair, s, s) = Slice(gateUp.bytes, 2 * e * half + half, half)
  <2> DEFINE bytes == gateUp.bytes  scalar == gateUp.scalar
  <2>1. s = SectionBytes(moe, scalar) /\ half = moe.intermediate * moe.hidden * ByteWidth(scalar)
        /\ pair = Slice(bytes, GateUpOffset(e, s), 2 * s)
    OBVIOUS
  <2> HIDE DEF bytes, scalar, s, half, pair
  <2>2. /\ half = s
        /\ Slice(pair, 0, s) = Slice(bytes, 2 * e * half, half)
        /\ Slice(pair, s, s) = Slice(bytes, 2 * e * half + half, half)
    BY <2>1, SlicesNarrow
  <2> QED  BY <2>2 DEF bytes
<1> HIDE DEF gateUp, down, s, pair, half
<1> QED  BY <1>1, <1>3, <1>4 DEF Matrices

\* The families keep an expert's matrices in the same way.
LEMMA SharedMatrices ==
    ASSUME NEW t, NEW moe, NEW l, NEW e
    PROVE  /\ O!SplitExpert(t, l, e) = SplitExpert(t, l, e)
           /\ Q3!SplitExpert(t, l, e) = SplitExpert(t, l, e)
           /\ Q3!NarrowFused(t, moe, l, e) = NarrowFused(t, moe, l, e)
           /\ Q35!NarrowFused(t, moe, l, e) = NarrowFused(t, moe, l, e)
<1>1. O!SplitExpert(t, l, e) = SplitExpert(t, l, e)
  BY DEF O!SplitExpert, SplitExpert
<1>2. Q3!SplitExpert(t, l, e) = SplitExpert(t, l, e)
  BY DEF Q3!SplitExpert, SplitExpert
<1>3. Q3!NarrowFused(t, moe, l, e) = NarrowFused(t, moe, l, e)
  BY DEF Q3!NarrowFused, NarrowFused, Q3!Slice, Slice, Q3!ByteWidth, ByteWidth
<1>4. Q35!NarrowFused(t, moe, l, e) = NarrowFused(t, moe, l, e)
  BY DEF Q35!NarrowFused, NarrowFused, Q35!Slice, Slice, Q35!ByteWidth, ByteWidth
<1> QED  BY <1>1, <1>2, <1>3, <1>4

\* The tensors an expert is made of in a layout, and none of the other.
HasExpert(t, l, e, layout) ==
    IF layout = "split"
    THEN <<l, "gate_up_proj">> \notin DOMAIN t
    ELSE <<l, "gate_up_proj">> \in DOMAIN t

\* An expert computes with what its family finds in the tensors: three
\* matrices in the one layout, its part of two arrays in the other.
LEMMA ExpertMatrices ==
    ASSUME NEW t, NEW c, Detect(c), NEW layout \in {"split", "fused"}, NEW l, NEW e,
           c.family = "olmoe" => layout = "split", c.family = "qwen3_5_moe" => layout = "fused",
           HasExpert(t, l, e, layout)
    PROVE  ResidentExpert(t, c, l, e) =
             IF layout = "split" THEN SplitExpert(t, l, e) ELSE NarrowFused(t, MoeConfig(c), l, e)
<1>1. CASE c.family = "olmoe"
  <2>1. ResidentExpert(t, c, l, e) = O!ResidentExpert(t, c, l, e) /\ layout = "split"
    BY <1>1 DEF ResidentExpert, InFamily
  <2> QED  BY <2>1, SharedMatrices DEF O!ResidentExpert
<1>2. CASE c.family = "qwen3_moe"
  <2>1. ResidentExpert(t, c, l, e) = Q3!ResidentExpert(t, c, l, e) /\ MoeConfig(c) = Q3!MoeConfig(c)
    BY <1>2 DEF ResidentExpert, MoeConfig, InFamily
  <2>2. Q3!ResidentLayout(t, l) = layout
    BY DEF HasExpert, Q3!ResidentLayout
  <2> QED  BY <2>1, <2>2, SharedMatrices DEF Q3!ResidentExpert
<1>3. CASE c.family = "qwen3_5_moe"
  <2>1. ResidentExpert(t, c, l, e) = Q35!ResidentExpert(t, c, l, e) /\ MoeConfig(c) = Q35!MoeConfig(c)
        /\ layout = "fused"
    BY <1>3 DEF ResidentExpert, MoeConfig, InFamily
  <2> QED  BY <2>1, SharedMatrices DEF Q35!ResidentExpert
<1> QED  BY <1>1, <1>2, <1>3 DEF Detect

\* The names of a configuration's experts in one layout are not names of the other.
LEMMA LayoutNames ==
    ASSUME NEW c, IsModel(c), NEW l, NEW name, name = <<l, "gate_up_proj">>
    PROVE  name \notin Required(c, "split")
<1>1. FusedName(name)
  BY DEF FusedName, FusedKinds
<1>2. \A n \in Range(DenseNames(c)) : DenseName(n)
  BY DEF IsModel
<1>3. \A n \in ExpertNames(c, "split") : MatrixName(n)
  BY DEF ExpertNames, MatrixName, MatrixNames, Range
<1> QED  BY <1>1, <1>2, <1>3, NameKinds DEF Required

\* The names of the tensors of one expert are required.
LEMMA ExpertRequired ==
    ASSUME NEW c, NEW l \in Range(SparseLayers(c)), NEW e \in 0..(c.experts - 1)
    PROVE  /\ \A m \in {"gate", "up", "down"} : <<l, e, m>> \in Required(c, "split")
           /\ FusedNames(l) \subseteq Required(c, "fused")
<1>1. ASSUME NEW m \in {"gate", "up", "down"} PROVE <<l, e, m>> \in Range(MatrixNames(l, e))
  BY DEF MatrixNames, Range
<1>2. Range(MatrixNames(l, e)) \subseteq ExpertNames(c, "split")
  BY DEF ExpertNames
<1>3. FusedNames(l) \subseteq ExpertNames(c, "fused")
  BY DEF ExpertNames
<1> QED  BY <1>1, <1>2, <1>3 DEF Required

\* An opened checkpoint with what its opening has shown.
Ready(j, k) ==
    /\ Opened(j, k) /\ IsModel(j.config) /\ k.layout \in {"split", "fused"}
    /\ Declares(Source(j).index, j.config, k.layout)

IsExpert(c, l, e) == l \in Range(SparseLayers(c)) /\ e \in 0..(c.experts - 1) /\ e \in Nat

ReadOf(j, k, l, e) == ReadAs(k.layout, InDirectory(Source(j)), MoeConfig(j.config), l, e)

\* An expert of the resident model computes with the matrices that are packed.
LEMMA ResidentMatrices ==
    ASSUME NEW j, NEW k, Ready(j, k), NEW t, IsResident(j, k, t),
           NEW l, NEW e, IsExpert(j.config, l, e), ReadOf(j, k, l, e) # Refused
    PROVE  Matrices(ReadOf(j, k, l, e)) = ResidentExpert(t, j.config, l, e)
<1> DEFINE c == j.config  moe == MoeConfig(c)  all == InDirectory(Source(j))
           read == ReadOf(j, k, l, e)
<1>1. /\ k.config = c /\ Detect(c) /\ KnownLayout(k) /\ IsGeometry(moe)
      /\ IsModel(c) /\ k.layout \in {"split", "fused"}
      /\ Declares(Source(j).index, c, k.layout)
      /\ l \in Range(SparseLayers(c)) /\ e \in 0..(c.experts - 1) /\ e \in Nat
      /\ read # Refused /\ read = ReadAs(k.layout, all, moe, l, e)
  BY DEF Opened, Ready, IsExpert, ReadOf
<1>2. /\ Required(c, k.layout) \subseteq DOMAIN t
      /\ \A name \in Required(c, k.layout) : t[name] = all[name]
      /\ DOMAIN t \subseteq DOMAIN Source(j).index
  BY <1>1 DEF IsResident
<1> HIDE DEF all, read, c
<1>3. CASE k.layout = "split"
  <2>1. \A m \in {"gate", "up", "down"} : t[<<l, e, m>>] = all[<<l, e, m>>]
    BY <1>1, <1>2, <1>3, ExpertRequired
  <2>2. Matrices(read) = SplitExpert(t, l, e)
    <3>1. read = ReadSplit(all, moe, l, e)
      BY <1>1, <1>3 DEF ReadAs
    <3> HIDE DEF moe
    <3> QED  BY <1>1, <2>1, <3>1, SplitMatrices
  <2>3. c.family # "qwen3_5_moe"
    BY <1>1, <1>3 DEF KnownLayout
  <2>4. HasExpert(t, l, e, "split")
    <3>1. DOMAIN Source(j).index = Required(c, "split")
      BY <1>1, <1>3, <2>3 DEF Declares
    <3> QED  BY <1>1, <1>2, <3>1, LayoutNames DEF HasExpert
  <2>5. ResidentExpert(t, c, l, e) = SplitExpert(t, l, e)
    BY <1>1, <2>3, <2>4, ExpertMatrices
  <2> QED  BY <2>2, <2>5 DEF read, c
<1>4. CASE k.layout = "fused"
  <2>1. FusedNames(l) \subseteq Required(c, "fused")
    BY <1>1, ExpertRequired
  <2>2. Matrices(read) = NarrowFused(t, moe, l, e)
    <3>1. read = ReadFused(all, moe, l, e)
      BY <1>1, <1>4 DEF ReadAs
    <3>2. \A name \in FusedNames(l) : t[name] = all[name]
      BY <1>2, <1>4, <2>1
    <3> HIDE DEF moe
    <3> QED  BY <1>1, <3>1, <3>2, FusedMatrices
  <2>3. c.family # "olmoe"
    BY <1>1, <1>4 DEF KnownLayout
  <2>4. HasExpert(t, l, e, "fused")
    <3>1. <<l, "gate_up_proj">> \in FusedNames(l)
      BY DEF FusedNames
    <3> QED  BY <1>2, <1>4, <2>1, <3>1 DEF HasExpert
  <2>5. ResidentExpert(t, c, l, e) = NarrowFused(t, MoeConfig(c), l, e)
    BY <1>1, <2>3, <2>4, ExpertMatrices
  <2> QED  BY <2>2, <2>5 DEF read, c
<1> QED  BY <1>1, <1>3, <1>4 DEF read, c

(***************************************************************************)
(* The streamed expert is the resident one.                                *)
(***************************************************************************)

\* The tensors of the resident model are those of the checkpoint at hand.
ResidentKept ==
    /\ phase = "source" => resident = None
    /\ resident \notin {None, Refused} => resident = LoadResidentModel(Source(job), checkpoint)

\* Every step leaves the resident model as it was loaded.
LEMMA ResidentStep == SourceOpened /\ ResidentKept /\ [Next]_vars => ResidentKept'
<1> SUFFICES ASSUME SourceOpened, ResidentKept, [Next]_vars
             PROVE  ResidentKept'
  OBVIOUS
<1>1. CASE OpenSource
  <2>1. resident' = None
    BY <1>1 DEF OpenSource, ResidentKept
  <2> QED  BY <2>1 DEF ResidentKept
<1>2. CASE LoadResident
  <2>1. /\ UNCHANGED <<job, phase, checkpoint>> /\ phase = "opened"
        /\ resident' = LoadResidentModel(Source(job), checkpoint)
    BY <1>2 DEF LoadResident
  <2>2. LoadResidentModel(Source(job), checkpoint)' = LoadResidentModel(Source(job), checkpoint)
    BY <2>1
  <2> QED  BY <2>1, <2>2, Zenon DEF ResidentKept
<1>3. CASE UNCHANGED <<job, checkpoint, resident>> /\ (phase' = "source" => phase = "source")
  <2>1. LoadResidentModel(Source(job), checkpoint)' = LoadResidentModel(Source(job), checkpoint)
    BY <1>3
  <2> QED  BY <1>3, <2>1, Zenon DEF ResidentKept
<1>4. CASE ConvertDenseTensors \/ ConvertGroupOfExperts \/ Publish \/ Edit
  <2>1. UNCHANGED <<job, checkpoint, resident>>
    BY <1>4 DEF ConvertDenseTensors, ConvertGroupOfExperts, Publish, Edit
  <2>2. phase' # "source"
    BY <1>4 DEF ConvertDenseTensors, ConvertGroupOfExperts, Publish, Edit, Refuse
  <2> QED  BY <1>3, <2>1, <2>2
<1>5. CASE Open \/ Load \/ UNCHANGED vars
  BY <1>3, <1>5 DEF Open, Load, vars
<1> QED  BY <1>1, <1>2, <1>4, <1>5 DEF Next, Finished

\* A record found under the name of an expert parses to what is read of it.
Parses(j, k, scalar, record, l, e) ==
    LET moe == MoeConfig(j.config)  read == ReadOf(j, k, l, e)
    IN /\ read # Refused /\ read.scalar = scalar /\ record.scalar = scalar /\ scalar \in Scalars
       /\ EncodedLength(record) = HeaderBytes + 3 * SectionBytes(moe, scalar)
       /\ CanParse(record, moe) /\ Parse(record, moe) = Matrices(read)

\* A record of the files of a job is that of its expert.
LEMMA ExpertParses ==
    ASSUME NEW j, NEW k, Opened(j, k), NEW scalar, NEW written,
           AllWritten(j, k, scalar, written),
           NEW l, NEW e, PackedName(l, e) \in DOMAIN OpenStore(OnDisk(written)).inventory
    PROVE  Parses(j, k, scalar, OpenStore(OnDisk(written)).inventory[PackedName(l, e)], l, e)
<1> DEFINE record == OpenStore(OnDisk(written)).inventory[PackedName(l, e)]
           moe == MoeConfig(j.config)
           read == ReadOf(j, k, l, e)
<1>1. RecordKept(j, k, scalar, record, l, e)
  BY FoundExpert
<1>2. j \in Jobs /\ IsGeometry(moe)
  BY DEF Opened
<1> HIDE DEF record
<1>3. /\ read # Refused /\ RecordOf(moe, read) # Refused
      /\ read.scalar = scalar /\ scalar \in Scalars /\ record = RecordOf(moe, read)
  BY <1>1 DEF RecordKept, ReadOf
<1>4. read = ReadAs(k.layout, InDirectory(Source(j)), moe, l, e)
  BY DEF ReadOf
<1>5. moe = MoeConfig(j.config)
  OBVIOUS
<1> HIDE DEF read, moe
<1>6. ReadsBytes(read)
  BY <1>2, <1>3, <1>4, ReadsAreBytes
<1>7. /\ EncodedLength(record) = HeaderBytes + 3 * SectionBytes(moe, scalar)
      /\ record.scalar = scalar /\ CanParse(record, moe) /\ Parse(record, moe) = Matrices(read)
  BY <1>2, <1>3, <1>6, RecordRoundTrip
<1> QED  BY <1>3, <1>5, <1>7, Zenon DEF Parses, record, read

\* Layers and experts are counted.
LEMMA Counted ==
    ASSUME NEW c, Detect(c), ConfigType(c)
    PROVE  c.layers \in Nat /\ c.experts \in Nat
<1>1. CASE c.family = "olmoe"
  BY <1>1 DEF ConfigType, InFamily, O!ConfigType
<1>2. CASE c.family = "qwen3_moe"
  BY <1>2 DEF ConfigType, InFamily, Q3!ConfigType
<1>3. CASE c.family = "qwen3_5_moe"
  BY <1>3 DEF ConfigType, InFamily, Q35!ConfigType
<1> QED  BY <1>1, <1>2, <1>3 DEF Detect

\* No two groups of a job have files of one name.
LEMMA JobFilesDiffer ==
    ASSUME NEW j \in Jobs, Detect(j.config), ConfigType(j.config), IsModel(j.config),
           j.perFile \in 1..j.config.experts,
           NEW g \in Range(JobGroups(j)), NEW h \in Range(JobGroups(j)), ExpertFile(g) = ExpertFile(h)
    PROVE  g = h
<1> DEFINE c == j.config  layers == SparseLayers(c)
<1>1. /\ c.layers \in Nat /\ c.experts \in Nat /\ c.layers <= 100000 /\ c.experts <= 100000
  BY Counted, NamesAssumption
<1>2. IsGroup(g, layers, c.experts) /\ IsGroup(h, layers, c.experts)
  BY <1>1, JobGroupsCover
<1>3. Range(layers) \subseteq 0..(c.layers - 1)
  BY DEF IsModel
<1>4. g.layer \in Nat /\ h.layer \in Nat /\ g.layer < 100000 /\ h.layer < 100000
  BY <1>1, <1>2, <1>3 DEF IsGroup
<1> HIDE DEF layers
<1> QED  BY <1>1, <1>2, <1>4, FilesDiffer

\* When all groups are packed, every expert of the job is found.
LEMMA AllExpertsFound ==
    ASSUME SourceOpened, FilesKept, phase \in {"published", "edited"},
           NEW l \in Range(SparseLayers(job.config)), NEW e \in 0..(job.config.experts - 1)
    PROVE  PackedName(l, e) \in DOMAIN OpenStore(OnDisk(staged.experts)).inventory
<1> DEFINE c == job.config
<1>1. /\ Opened(job, checkpoint) /\ ConfigType(c) /\ IsModel(c) /\ c.experts \in Nat
  BY CheckpointOpened
<1>2. job \in Jobs /\ Detect(c)
  BY <1>1 DEF Opened
<1>3. /\ job.perFile \in 1..c.experts /\ groups = <<>>
      /\ AllWritten(job, checkpoint, staged.scalar, staged.experts)
      /\ \A g \in Range(JobGroups(job)) :
           g \in Range(groups) \/ FileOf(job, checkpoint, g) \in Range(staged.experts)
  BY DEF FilesKept, AllWritten
<1>4. Range(groups) = {}
  BY <1>3 DEF Range
<1>5. PICK g \in Range(JobGroups(job)) : g.layer = l /\ e \in GroupExperts(g)
  BY <1>1, <1>3, JobGroupsCover
<1>6. FileOf(job, checkpoint, g) \in Range(staged.experts)
  BY <1>3, <1>4
<1>7. \A h, i \in Range(JobGroups(job)) : ExpertFile(h) = ExpertFile(i) => h = i
  BY <1>1, <1>2, <1>3, JobFilesDiffer
<1> QED  BY <1>3, <1>5, <1>6, <1>7, WrittenFound

\* What the invariants say of a published directory.
LEMMA StreamedExperts ==
    ASSUME SourceOpened, DirectoryKept, FilesKept, ResidentKept
    PROVE  StreamedIsResident
<1> DEFINE c == checkpoint.config
           experts == OpenStore(directory.experts)
<1>1. SUFFICES ASSUME phase = "published", resident \notin {None, Refused}, NEW x \in Experts(c)
               PROVE  StreamedExpert(experts, c, x[1], x[2]) = ResidentExpert(resident, c, x[1], x[2])
  BY DEF StreamedIsResident
<1> DEFINE l == x[1]  e == x[2]
           record == experts.inventory[PackedName(l, e)]
           moe == MoeConfig(job.config)
           read == ReadOf(job, checkpoint, l, e)
<1>2. /\ Opened(job, checkpoint) /\ ConfigType(job.config) /\ IsModel(job.config)
      /\ checkpoint.layout \in {"split", "fused"} /\ job.config.experts \in Nat
      /\ Declares(Source(job).index, job.config, checkpoint.layout)
  BY <1>1, CheckpointOpened
<1>3. c = job.config
  BY <1>2 DEF Opened
<1>4. l \in Range(SparseLayers(job.config)) /\ e \in 0..(job.config.experts - 1) /\ e \in Nat
  BY <1>2, <1>3 DEF Experts
<1>5. directory.experts = OnDisk(staged.experts)
  BY <1>1 DEF DirectoryKept
<1> HIDE DEF l, e
<1>6. PackedName(l, e) \in DOMAIN OpenStore(OnDisk(staged.experts)).inventory
  BY <1>1, <1>4, AllExpertsFound
<1>7. AllWritten(job, checkpoint, staged.scalar, staged.experts)
  BY <1>1 DEF FilesKept, AllWritten
<1>8. Parses(job, checkpoint, staged.scalar, record, l, e)
  BY <1>2, <1>5, <1>6, <1>7, ExpertParses
<1> HIDE DEF record
<1>9. read # Refused /\ Parse(record, moe) = Matrices(read)
  BY <1>8 DEF Parses
<1>10. IsResident(job, checkpoint, resident)
  <2>1. resident = LoadResidentModel(Source(job), checkpoint) /\ resident # Refused
    BY <1>1 DEF ResidentKept
  <2>2. Declares(Source(job).index, checkpoint.config, checkpoint.layout)
    BY <1>2, <1>3
  <2> QED  BY <1>2, <2>1, <2>2, ResidentTensors
<1>11. Matrices(read) = ResidentExpert(resident, job.config, l, e)
  <2>1. Ready(job, checkpoint)
    BY <1>2, <1>3 DEF Ready
  <2>2. IsExpert(job.config, l, e)
    BY <1>4 DEF IsExpert
  <2> QED  BY <1>9, <1>10, <2>1, <2>2, ResidentMatrices
<1>12. StreamedExpert(experts, c, l, e) = Parse(record, moe)
  BY <1>3 DEF StreamedExpert, record
<1> QED  BY <1>3, <1>9, <1>11, <1>12 DEF l, e

\* What has been written stays what was read of the source, whatever is packed next.
THEOREM FilesCorrect == Spec => [](FilesKept /\ DirectoryKept)
<1>1. Init => BuffersKept /\ FilesKept /\ DirectoryKept
  BY DEF Init, BuffersKept, Nothing, StagedFields, FilesKept, DirectoryKept
<1>2. SourceOpened /\ BuffersKept /\ [Next]_vars => BuffersKept'
  BY BuffersStep
<1>3. SourceOpened /\ BuffersKept /\ FilesKept /\ [Next]_vars => FilesKept'
  BY FilesStep
<1>4. SourceOpened /\ DirectoryStays /\ DirectoryKept /\ [Next]_vars => DirectoryKept'
  BY DirectoryStep
<1> QED  BY <1>1, <1>2, <1>3, <1>4, OrderCorrect, PTL DEF Spec

\* Every expert of a published directory parses to exactly the matrices the
\* resident model computes that expert with.
THEOREM StreamedMatches == Spec => []StreamedIsResident
<1>1. Init => ResidentKept
  BY DEF Init, ResidentKept
<1>2. SourceOpened /\ ResidentKept /\ [Next]_vars => ResidentKept'
  BY ResidentStep
<1>3. SourceOpened /\ DirectoryKept /\ FilesKept /\ ResidentKept => StreamedIsResident
  BY StreamedExperts
<1> QED  BY <1>1, <1>2, <1>3, OrderCorrect, FilesCorrect, PTL DEF Spec

(***************************************************************************)
(* A directory that is accepted and loaded.                                *)
(***************************************************************************)

\* The record of every expert has the size it must have.
HasRecords(store, moe, scalar, layers) ==
    \A n \in DOMAIN layers, e \in 0..(moe.experts - 1) :
        EncodedLength(store.inventory[PackedName(layers[n], e)])
            = RecordBytes(SectionBytes(moe, scalar))

\* What the opening of directory d and the loading of its model have shown.
IsAccepted(d) ==
    LET m == d.manifest  c == d.config
        dense == OpenStore(d.dense)  experts == OpenStore(d.experts)
    IN /\ Detect(c) /\ Validate(c) /\ m.schema = c.family
       /\ m.hidden = MoeConfig(c).hidden /\ m.intermediate = MoeConfig(c).intermediate
       /\ m.experts = MoeConfig(c).experts
       /\ d.dense = m.dense /\ d.experts = m.expert
       /\ DOMAIN dense.inventory = Range(DenseNames(c))
       /\ HasRecords(experts, MoeConfig(c), m.scalar, SparseLayers(c))
       /\ Provides(DenseShapes(dense), ModelParameters(c))

\* The families accept a directory with the same operators.
LEMMA SharedInventories ==
    ASSUME NEW store, NEW moe, NEW scalar, NEW layers, NEW names, NEW shapes
    PROVE  /\ O!ExpertInventory(store, moe, scalar, layers) => HasRecords(store, moe, scalar, layers)
           /\ Q3!ExpertInventory(store, moe, scalar, layers) => HasRecords(store, moe, scalar, layers)
           /\ Q35!ExpertInventory(store, moe, scalar, layers) => HasRecords(store, moe, scalar, layers)
           /\ O!Provides(O!DenseShapes(store), shapes) = Provides(DenseShapes(store), shapes)
           /\ Q3!Provides(Q3!DenseShapes(store), shapes) = Provides(DenseShapes(store), shapes)
           /\ Q35!Provides(Q35!DenseShapes(store), shapes) = Provides(DenseShapes(store), shapes)
           /\ O!Range(names) = Range(names) /\ Q3!Range(names) = Range(names)
           /\ Q35!Range(names) = Range(names)
<1>1. O!ExpertInventory(store, moe, scalar, layers) => HasRecords(store, moe, scalar, layers)
  <2>1. O!RecordBytes(O!SectionBytes(moe, scalar)) = RecordBytes(SectionBytes(moe, scalar))
    BY DEF O!RecordBytes, RecordBytes, O!SectionBytes, SectionBytes, O!ByteWidth, ByteWidth,
       O!HeaderBytes, HeaderBytes
  <2>2. \A x : O!EncodedLength(x) = EncodedLength(x)
    BY DEF O!EncodedLength, EncodedLength, O!HeaderBytes, HeaderBytes
  <2>3. \A l, e : O!PackedName(l, e) = PackedName(l, e)
    BY DEF O!PackedName, PackedName
  <2> QED  BY <2>1, <2>2, <2>3, Zenon DEF O!ExpertInventory, HasRecords
<1>2. Q3!ExpertInventory(store, moe, scalar, layers) => HasRecords(store, moe, scalar, layers)
  <2>1. Q3!RecordBytes(Q3!SectionBytes(moe, scalar)) = RecordBytes(SectionBytes(moe, scalar))
    BY DEF Q3!RecordBytes, RecordBytes, Q3!SectionBytes, SectionBytes, Q3!ByteWidth, ByteWidth,
       Q3!HeaderBytes, HeaderBytes
  <2>2. \A x : Q3!EncodedLength(x) = EncodedLength(x)
    BY DEF Q3!EncodedLength, EncodedLength, Q3!HeaderBytes, HeaderBytes
  <2>3. \A l, e : Q3!PackedName(l, e) = PackedName(l, e)
    BY DEF Q3!PackedName, PackedName
  <2> QED  BY <2>1, <2>2, <2>3, Zenon DEF Q3!ExpertInventory, HasRecords
<1>3. Q35!ExpertInventory(store, moe, scalar, layers) => HasRecords(store, moe, scalar, layers)
  <2>1. Q35!RecordBytes(Q35!SectionBytes(moe, scalar)) = RecordBytes(SectionBytes(moe, scalar))
    BY DEF Q35!RecordBytes, RecordBytes, Q35!SectionBytes, SectionBytes, Q35!ByteWidth, ByteWidth,
       Q35!HeaderBytes, HeaderBytes
  <2>2. \A x : Q35!EncodedLength(x) = EncodedLength(x)
    BY DEF Q35!EncodedLength, EncodedLength, Q35!HeaderBytes, HeaderBytes
  <2>3. \A l, e : Q35!PackedName(l, e) = PackedName(l, e)
    BY DEF Q35!PackedName, PackedName
  <2> QED  BY <2>1, <2>2, <2>3, Zenon DEF Q35!ExpertInventory, HasRecords
<1>4. O!Provides(O!DenseShapes(store), shapes) = Provides(DenseShapes(store), shapes)
  BY DEF O!Provides, Provides, O!DenseShapes, DenseShapes
<1>5. Q3!Provides(Q3!DenseShapes(store), shapes) = Provides(DenseShapes(store), shapes)
  BY DEF Q3!Provides, Provides, Q3!DenseShapes, DenseShapes
<1>6. Q35!Provides(Q35!DenseShapes(store), shapes) = Provides(DenseShapes(store), shapes)
  BY DEF Q35!Provides, Provides, Q35!DenseShapes, DenseShapes
<1>7. O!Range(names) = Range(names) /\ Q3!Range(names) = Range(names) /\ Q35!Range(names) = Range(names)
  BY DEF O!Range, Q3!Range, Q35!Range, Range
<1> QED  BY <1>1, <1>2, <1>3, <1>4, <1>5, <1>6, <1>7

\* OLMoE.
LEMMA OlmoeAccepted ==
    ASSUME NEW d, d.config.family = "olmoe", Accepts(d),
           LoadStreamingModel(d.config, OpenStore(d.dense), OpenStore(d.experts))
    PROVE  IsAccepted(d)
<1> DEFINE m == d.manifest  c == d.config
           dense == OpenStore(d.dense)  experts == OpenStore(d.experts)
<1>1. /\ Detect(c) /\ Validate(c) /\ O!ValidateManifest(m, c, d.tokenizer # None)
      /\ O!Opens(m, c, dense, experts) /\ O!LoadStreaming(c, dense, experts)
  BY DEF Accepts, ValidateManifest, Opens, LoadStreamingModel, InFamily
<1>2. /\ MoeConfig(c) = O!MoeConfig(c) /\ SparseLayers(c) = O!SparseLayers(c)
      /\ DenseNames(c) = O!DenseNames(c) /\ ModelParameters(c) = O!ModelParameters(c)
  BY DEF MoeConfig, SparseLayers, DenseNames, ModelParameters, InFamily
<1>3. dense.digest = d.dense /\ experts.digest = d.experts
  BY DEF OpenStore
<1> HIDE DEF m, c, dense, experts
<1>4. /\ m.schema = "olmoe" /\ m.hidden = MoeConfig(c).hidden
      /\ m.intermediate = MoeConfig(c).intermediate /\ m.experts = MoeConfig(c).experts
  BY <1>1, <1>2 DEF O!ValidateManifest, O!ManifestAgrees
<1>5. /\ dense.digest = m.dense /\ experts.digest = m.expert
      /\ DOMAIN dense.inventory = O!Range(O!DenseNames(c))
      /\ O!ExpertInventory(experts, O!MoeConfig(c), m.scalar, O!SparseLayers(c))
  BY <1>1 DEF O!Opens, O!DigestsHold, O!ValidateDense, O!DenseInventory, O!ValidateExperts
<1>6. O!Provides(O!DenseShapes(dense), O!ModelParameters(c))
  BY <1>1 DEF O!LoadStreaming
<1>7. /\ DOMAIN dense.inventory = Range(DenseNames(c))
      /\ HasRecords(experts, MoeConfig(c), m.scalar, SparseLayers(c))
      /\ Provides(DenseShapes(dense), ModelParameters(c))
  BY <1>2, <1>5, <1>6, SharedInventories
<1>8. m.schema = c.family
  BY <1>4 DEF c
<1> QED  BY <1>1, <1>3, <1>4, <1>5, <1>7, <1>8, Zenon DEF IsAccepted, m, c, dense, experts

\* Qwen3.
LEMMA Qwen3Accepted ==
    ASSUME NEW d, d.config.family = "qwen3_moe", Accepts(d),
           LoadStreamingModel(d.config, OpenStore(d.dense), OpenStore(d.experts))
    PROVE  IsAccepted(d)
<1> DEFINE m == d.manifest  c == d.config
           dense == OpenStore(d.dense)  experts == OpenStore(d.experts)
<1>1. /\ Detect(c) /\ Validate(c) /\ Q3!ValidateManifest(m, c, d.tokenizer # None)
      /\ Q3!Opens(m, c, dense, experts) /\ Q3!LoadStreaming(c, dense, experts)
  BY DEF Accepts, ValidateManifest, Opens, LoadStreamingModel, InFamily
<1>2. /\ MoeConfig(c) = Q3!MoeConfig(c) /\ SparseLayers(c) = Q3!SparseLayers(c)
      /\ DenseNames(c) = Q3!DenseNames(c) /\ ModelParameters(c) = Q3!ModelParameters(c)
  BY DEF MoeConfig, SparseLayers, DenseNames, ModelParameters, InFamily
<1>3. dense.digest = d.dense /\ experts.digest = d.experts
  BY DEF OpenStore
<1> HIDE DEF m, c, dense, experts
<1>4. /\ m.schema = "qwen3_moe" /\ m.hidden = MoeConfig(c).hidden
      /\ m.intermediate = MoeConfig(c).intermediate /\ m.experts = MoeConfig(c).experts
  BY <1>1, <1>2 DEF Q3!ValidateManifest, Q3!ManifestAgrees
<1>5. /\ dense.digest = m.dense /\ experts.digest = m.expert
      /\ DOMAIN dense.inventory = Q3!Range(Q3!DenseNames(c))
      /\ Q3!ExpertInventory(experts, Q3!MoeConfig(c), m.scalar, Q3!SparseLayers(c))
  BY <1>1 DEF Q3!Opens, Q3!DigestsHold, Q3!ValidateDense, Q3!DenseInventory, Q3!ValidateExperts
<1>6. Q3!Provides(Q3!DenseShapes(dense), Q3!ModelParameters(c))
  BY <1>1 DEF Q3!LoadStreaming
<1>7. /\ DOMAIN dense.inventory = Range(DenseNames(c))
      /\ HasRecords(experts, MoeConfig(c), m.scalar, SparseLayers(c))
      /\ Provides(DenseShapes(dense), ModelParameters(c))
  BY <1>2, <1>5, <1>6, SharedInventories
<1>8. m.schema = c.family
  BY <1>4 DEF c
<1> QED  BY <1>1, <1>3, <1>4, <1>5, <1>7, <1>8, Zenon DEF IsAccepted, m, c, dense, experts

\* Qwen3.6.
LEMMA Qwen35Accepted ==
    ASSUME NEW d, d.config.family = "qwen3_5_moe", Accepts(d),
           LoadStreamingModel(d.config, OpenStore(d.dense), OpenStore(d.experts))
    PROVE  IsAccepted(d)
<1> DEFINE m == d.manifest  c == d.config
           dense == OpenStore(d.dense)  experts == OpenStore(d.experts)
<1>1. /\ Detect(c) /\ Validate(c) /\ Q35!ValidateManifest(m, c, d.tokenizer # None)
      /\ Q35!Opens(m, c, dense, experts) /\ Q35!LoadStreaming(c, dense, experts)
  BY DEF Accepts, ValidateManifest, Opens, LoadStreamingModel, InFamily
<1>2. /\ MoeConfig(c) = Q35!MoeConfig(c) /\ SparseLayers(c) = Q35!SparseLayers(c)
      /\ DenseNames(c) = Q35!DenseNames(c) /\ ModelParameters(c) = Q35!ModelParameters(c)
  BY DEF MoeConfig, SparseLayers, DenseNames, ModelParameters, InFamily
<1>3. dense.digest = d.dense /\ experts.digest = d.experts
  BY DEF OpenStore
<1> HIDE DEF m, c, dense, experts
<1>4. /\ m.schema = "qwen3_5_moe" /\ m.hidden = MoeConfig(c).hidden
      /\ m.intermediate = MoeConfig(c).intermediate /\ m.experts = MoeConfig(c).experts
  BY <1>1, <1>2 DEF Q35!ValidateManifest, Q35!ManifestAgrees
<1>5. /\ dense.digest = m.dense /\ experts.digest = m.expert
      /\ DOMAIN dense.inventory = Q35!Range(Q35!DenseNames(c))
      /\ Q35!ExpertInventory(experts, Q35!MoeConfig(c), m.scalar, Q35!SparseLayers(c))
  BY <1>1 DEF Q35!Opens, Q35!DigestsHold, Q35!ValidateDense, Q35!DenseInventory, Q35!ValidateExperts
<1>6. Q35!Provides(Q35!DenseShapes(dense), Q35!ModelParameters(c))
  BY <1>1 DEF Q35!LoadStreaming
<1>7. /\ DOMAIN dense.inventory = Range(DenseNames(c))
      /\ HasRecords(experts, MoeConfig(c), m.scalar, SparseLayers(c))
      /\ Provides(DenseShapes(dense), ModelParameters(c))
  BY <1>2, <1>5, <1>6, SharedInventories
<1>8. m.schema = c.family
  BY <1>4 DEF c
<1> QED  BY <1>1, <1>3, <1>4, <1>5, <1>7, <1>8, Zenon DEF IsAccepted, m, c, dense, experts

\* A directory of any family that is accepted and whose model loads.
LEMMA DirectoryAccepted ==
    ASSUME NEW d, Accepts(d), LoadStreamingModel(d.config, OpenStore(d.dense), OpenStore(d.experts))
    PROVE  IsAccepted(d)
<1>1. Detect(d.config)
  BY DEF Accepts
<1> QED  BY <1>1, OlmoeAccepted, Qwen3Accepted, Qwen35Accepted DEF Detect

(***************************************************************************)
(* What a store finds in the dense files.                                  *)
(***************************************************************************)

\* Of every dense tensor its file has the copy, under its name.
IsDense(written, source, names, maxBuffer) ==
    /\ DOMAIN written = DOMAIN names
    /\ \A n \in DOMAIN names :
         /\ written[n].file = DenseFile(n - 1)
         /\ DOMAIN written[n].tensors = {names[n]}
         /\ written[n].tensors[names[n]] = WriteRawTensor(source, names[n], maxBuffer)

\* Converted dense tensors are.
LEMMA DenseConverted ==
    ASSUME NEW source, NEW names, NEW maxBuffer,
           NEW written, written = ConvertDense(source, names, maxBuffer), written # Refused
    PROVE  IsDense(written, source, names, maxBuffer)
<1> DEFINE Tensors(n) == [name \in {names[n]} |-> WriteRawTensor(source, name, maxBuffer)]
<1>1. written = [n \in DOMAIN names |-> [file |-> DenseFile(n - 1), tensors |-> Tensors(n)]]
  BY DEF ConvertDense
<1>2. \A n : DOMAIN Tensors(n) = {names[n]}
             /\ Tensors(n)[names[n]] = WriteRawTensor(source, names[n], maxBuffer)
  OBVIOUS
<1> HIDE DEF Tensors
<1>3. \A n \in DOMAIN names : written[n].file = DenseFile(n - 1) /\ written[n].tensors = Tensors(n)
  BY <1>1
<1> QED  BY <1>1, <1>2, <1>3 DEF IsDense

\* A file holds a tensor and nothing else.
Holds(tensors, name, copy) == DOMAIN tensors = {name} /\ tensors[name] = copy

\* The files are those of a collection of numbered files.
AreFiles(files, written, N) ==
    /\ \A n \in 1..N : /\ DenseFile(n - 1) \in DOMAIN files
                       /\ files[DenseFile(n - 1)] = written[n].tensors
    /\ \A f \in DOMAIN files : \E n \in 1..N : f = DenseFile(n - 1)

\* Every dense file is found, with the tensor it was written for.
LEMMA DenseOnDisk ==
    ASSUME NEW source, NEW names, NEW maxBuffer, NEW N \in Nat, DOMAIN names = 1..N, N <= 100000,
           NEW written, IsDense(written, source, names, maxBuffer),
           NEW files, files = OnDisk(written)
    PROVE  AreFiles(files, written, N)
<1>1. DOMAIN written = 1..N
  BY DEF IsDense
<1>2. ASSUME NEW m \in 1..N, NEW n \in 1..N, DenseFile(m - 1) = DenseFile(n - 1) PROVE m = n
  <2>1. m - 1 \in Nat /\ n - 1 \in Nat /\ m - 1 < 100000 /\ n - 1 < 100000
    OBVIOUS
  <2>2. m - 1 = n - 1
    BY <1>2, <2>1, DigitsDiffer DEF DenseFile
  <2> QED  BY <2>2
<1>3. ASSUME NEW n \in 1..N
      PROVE  /\ DenseFile(n - 1) \in DOMAIN files
             /\ files[DenseFile(n - 1)] = written[n].tensors
  <2>0. PICK f : f = DenseFile(n - 1)
    OBVIOUS
  <2>1. written[n] \in Range(written) /\ written[n].file = f
    BY <1>1, <2>0 DEF IsDense, Range
  <2>2. PICK v : v = CHOOSE w \in Range(written) : w.file = f
    OBVIOUS
  <2>3. v \in Range(written) /\ v.file = f
    BY <2>1, <2>2
  <2>4. PICK m \in 1..N : v = written[m]
    BY <1>1, <2>3 DEF Range
  <2>5. m = n
    BY <1>1, <1>2, <2>0, <2>3, <2>4 DEF IsDense
  <2>6. f \in {w.file : w \in Range(written)}
    BY <2>1
  <2>7. files[f] = v.tensors
    BY <2>6, <2>2 DEF OnDisk
  <2>8. f \in DOMAIN files
    BY <2>6 DEF OnDisk
  <2> QED  BY <2>0, <2>4, <2>5, <2>7, <2>8
<1>4. ASSUME NEW f \in DOMAIN files PROVE \E n \in 1..N : f = DenseFile(n - 1)
  <2>1. f \in {w.file : w \in Range(written)}
    BY DEF OnDisk
  <2>2. PICK n \in 1..N : f = written[n].file
    BY <1>1, <2>1 DEF Range
  <2> QED  BY <1>1, <2>2 DEF IsDense
<1> QED  BY <1>3, <1>4 DEF AreFiles

\* A store has every named tensor, taken from the source.
HasDense(store, source, names) ==
    /\ DOMAIN store.inventory = Range(names)
    /\ \A name \in Range(names) : store.inventory[name].source = source[name]

\* Files of different names are all found: the dense store has every tensor.
LEMMA DenseFound ==
    ASSUME NEW source, NEW names, NEW maxBuffer, NEW N \in Nat, DOMAIN names = 1..N, N <= 100000,
           NEW written, IsDense(written, source, names, maxBuffer),
           NEW store, store = OpenStore(OnDisk(written))
    PROVE  HasDense(store, source, names)
<1>0. PICK files : files = OnDisk(written)
  OBVIOUS
<1>1. AreFiles(files, written, N)
  BY <1>0, DenseOnDisk
<1>2. ASSUME NEW f \in DOMAIN files
      PROVE  \E n \in 1..N : Holds(files[f], names[n], WriteRawTensor(source, names[n], maxBuffer))
  <2>1. PICK n \in 1..N : f = DenseFile(n - 1)
    BY <1>1 DEF AreFiles
  <2>2. files[f] = written[n].tensors
    BY <1>1, <2>1 DEF AreFiles
  <2>3. Holds(files[f], names[n], WriteRawTensor(source, names[n], maxBuffer))
    BY <2>2 DEF IsDense, Holds
  <2> QED  BY <2>3
<1>3. ASSUME NEW n \in 1..N PROVE \E f \in DOMAIN files : names[n] \in DOMAIN files[f]
  <2>1. DenseFile(n - 1) \in DOMAIN files /\ files[DenseFile(n - 1)] = written[n].tensors
    BY <1>1 DEF AreFiles
  <2>2. names[n] \in DOMAIN files[DenseFile(n - 1)]
    BY <2>1 DEF IsDense
  <2> QED  BY <2>1, <2>2
<1>4. store.inventory = [t \in UNION {DOMAIN files[f] : f \in DOMAIN files} |->
                           files[CHOOSE f \in DOMAIN files : t \in DOMAIN files[f]][t]]
  BY <1>0 DEF OpenStore
<1>5. DOMAIN store.inventory = Range(names)
  <2>1. ASSUME NEW f \in DOMAIN files, NEW t \in DOMAIN files[f] PROVE t \in Range(names)
    <3>1. PICK n \in 1..N : Holds(files[f], names[n], WriteRawTensor(source, names[n], maxBuffer))
      BY <1>2
    <3> QED  BY <3>1 DEF Range, Holds
  <2>2. Range(names) \subseteq UNION {DOMAIN files[f] : f \in DOMAIN files}
    BY <1>3 DEF Range
  <2> QED  BY <1>4, <2>1, <2>2
<1>6. ASSUME NEW name \in Range(names) PROVE store.inventory[name].source = source[name]
  <2>1. \E g \in DOMAIN files : name \in DOMAIN files[g]
    BY <1>3 DEF Range
  <2>0. PICK f : f = CHOOSE g \in DOMAIN files : name \in DOMAIN files[g]
    OBVIOUS
  <2>2. f \in DOMAIN files /\ name \in DOMAIN files[f]
    BY <2>0, <2>1
  <2>3. store.inventory[name] = files[f][name]
    BY <1>4, <1>5, <2>0
  <2>4. PICK n \in 1..N : Holds(files[f], names[n], WriteRawTensor(source, names[n], maxBuffer))
    BY <1>2, <2>2
  <2>5. name = names[n]
    BY <2>2, <2>4 DEF Holds
  <2> QED  BY <2>3, <2>4, <2>5 DEF WriteRawTensor, Holds
<1> QED  BY <1>5, <1>6 DEF HasDense

(***************************************************************************)
(* What loads is the converted model.                                      *)
(***************************************************************************)

\* The names of experts' tensors are not those of parameters of the model.
LEMMA ExpertNameKinds ==
    ASSUME NEW c, NEW layout, NEW name \in ExpertNames(c, layout)
    PROVE  MatrixName(name) \/ FusedName(name)
<1>1. CASE layout = "split"
  <2>1. PICK l, e : name \in Range(MatrixNames(l, e))
    BY <1>1 DEF ExpertNames
  <2>2. PICK m : name = <<l, e, m>>
    BY <2>1 DEF Range, MatrixNames
  <2> QED  BY <2>2 DEF MatrixName
<1>2. CASE layout # "split"
  <2>1. PICK l : name \in FusedNames(l)
    BY <1>2 DEF ExpertNames
  <2> QED  BY <2>1 DEF FusedNames, FusedName, FusedKinds
<1> QED  BY <1>1, <1>2

\* A checkpoint opens only for a configuration that asks for the parameters the
\* tensors were made for.
LEMMA SameNames ==
    ASSUME NEW j, NEW k, Ready(j, k)
    PROVE  DOMAIN ModelParameters(j.config) = DOMAIN ModelParameters(j.base)
<1> DEFINE index == Source(j).index
           mine  == DOMAIN ModelParameters(j.config)
           made  == DOMAIN ModelParameters(j.base)
<1>1. /\ j \in Jobs /\ IsModel(j.config) /\ k.layout \in {"split", "fused"}
      /\ Declares(index, j.config, k.layout)
  BY DEF Ready, Opened
<1>2. IsModel(j.base)
  BY <1>1, JobBase
<1>3. Required(j.config, k.layout) = mine \cup ExpertNames(j.config, k.layout)
  BY <1>1 DEF IsModel, Required
<1>4. (\A name \in mine : DenseName(name)) /\ (\A name \in made : DenseName(name))
  BY <1>1, <1>2 DEF IsModel
<1>5. <<"norm">> \in mine
  BY <1>1 DEF IsModel
<1>6. \A name \in DOMAIN ExpertShard(j) : MatrixName(name) \/ FusedName(name)
  <2>1. j.layout \in {"split", "fused"}
    BY <1>1, JobBase
  <2> QED  BY <1>1, <2>1, MatrixTensors
<1>7. DOMAIN DenseShard(j) = made \cup Extra(j) /\ \A name \in Extra(j) : IgnoredName(name)
  <2>1. \A name \in Extra(j) : IgnoredName(name)
    BY DEF Extra, IgnoredName
  <2> QED  BY <1>1, <2>1, DenseTensors
<1>8. /\ DOMAIN index \subseteq DOMAIN DenseShard(j) \cup DOMAIN ExpertShard(j)
      /\ (DOMAIN DenseShard(j) \cup DOMAIN ExpertShard(j)) \ {<<"norm">>} \subseteq DOMAIN index
  BY <1>1, SourceIndex
<1> HIDE DEF index, mine, made
<1>9. ASSUME NEW name \in mine PROVE name \in made
  <2>1. name \in DOMAIN DenseShard(j) \cup DOMAIN ExpertShard(j)
    BY <1>1, <1>3, <1>8 DEF Declares
  <2>2. DenseName(name)
    BY <1>4
  <2>3. name \notin DOMAIN ExpertShard(j) /\ ~IgnoredName(name)
    BY <1>6, <2>2, NameKinds
  <2> QED  BY <1>7, <2>1, <2>3
<1>10. ASSUME NEW name \in made, name # <<"norm">> PROVE name \in mine
  <2>1. name \in DOMAIN index
    BY <1>7, <1>8, <1>10
  <2>2. DenseName(name)
    BY <1>4
  <2>3. ~MatrixName(name) /\ ~FusedName(name) /\ ~IgnoredName(name)
    BY <2>2, NameKinds
  <2>4. name \notin ExpertNames(j.config, k.layout)
    BY <2>3, ExpertNameKinds
  <2> QED  BY <1>1, <1>3, <2>1, <2>3, <2>4 DEF Declares
<1>11. mine = made
  BY <1>5, <1>9, <1>10
<1> QED  BY <1>11 DEF mine, made

\* A layer is routed just if it has a router.
LEMMA Routed ==
    ASSUME NEW c, IsModel(c), NEW l
    PROVE  l \in Range(SparseLayers(c)) <=> <<l, "router">> \in DOMAIN ModelParameters(c)
BY Zenon DEF IsModel

\* Models with the same names have the same routed layers.
LEMMA SameLayers ==
    ASSUME NEW c, NEW b, IsModel(c), IsModel(b), DOMAIN ModelParameters(c) = DOMAIN ModelParameters(b)
    PROVE  Range(SparseLayers(c)) = Range(SparseLayers(b))
<1>1. \A l : l \in Range(SparseLayers(c)) <=> <<l, "router">> \in DOMAIN ModelParameters(c)
  BY Routed, Zenon
<1>2. \A l : l \in Range(SparseLayers(b)) <=> <<l, "router">> \in DOMAIN ModelParameters(b)
  BY Routed, Zenon
<1> QED  BY <1>1, <1>2

\* Those with the same parameters have the same experts, of the same width.
LEMMA SameExperts ==
    ASSUME NEW c, NEW b, IsModel(c), IsModel(b), ModelParameters(c) = ModelParameters(b)
    PROVE  /\ Range(SparseLayers(c)) = Range(SparseLayers(b))
           /\ c.experts = b.experts /\ c.hidden = b.hidden
           /\ Experts(c) = Experts(b)
<1>1. Range(SparseLayers(c)) = Range(SparseLayers(b))
  BY SameLayers
<1>2. PICK l : l \in Range(SparseLayers(c)) /\ l \in Range(SparseLayers(b))
  BY <1>1 DEF IsModel
<1>3. ModelParameters(c)[<<l, "router">>] = <<c.experts, c.hidden>>
  BY <1>2 DEF IsModel
<1>4. ModelParameters(b)[<<l, "router">>] = <<b.experts, b.hidden>>
  BY <1>2 DEF IsModel
<1>5. c.experts = b.experts /\ c.hidden = b.hidden
  BY <1>3, <1>4
<1> QED  BY <1>1, <1>5 DEF Experts

\* The parameters a configuration finds in the dense files are those the
\* tensors were made for.
FindsDense(j, d, store) ==
    /\ DOMAIN store.inventory = DOMAIN ModelParameters(d)
    /\ Provides(DenseShapes(store), ModelParameters(d))
    /\ \A name \in DOMAIN ModelParameters(j.config) :
         store.inventory[name].source = InDirectory(Source(j))[name]
    /\ DOMAIN store.inventory = DOMAIN ModelParameters(j.config)

\* A configuration that finds its tensors asks for those of the source.
LEMMA SameParameters ==
    ASSUME NEW j, NEW k, Ready(j, k), NEW d, IsModel(d), NEW store, FindsDense(j, d, store)
    PROVE  ModelParameters(d) = ModelParameters(j.base)
<1>1. j \in Jobs
  BY DEF Ready, Opened
<1>2. IsModel(j.base)
  BY <1>1, JobBase
<1>3. /\ DOMAIN ModelParameters(d) = DOMAIN ModelParameters(j.config)
      /\ DOMAIN ModelParameters(d) = DOMAIN ModelParameters(j.base)
  BY SameNames DEF FindsDense
<1>4. ASSUME NEW name \in DOMAIN ModelParameters(d)
      PROVE  ModelParameters(d)[name] = ModelParameters(j.base)[name]
  <2>1. ModelParameters(d)[name] = store.inventory[name].source.shape
    BY DEF FindsDense, Provides, DenseShapes
  <2>2. store.inventory[name].source = InDirectory(Source(j))[name]
    BY <1>3 DEF FindsDense
  <2>3. name \in DOMAIN DenseShard(j) /\ DenseShard(j)[name].shape = ModelParameters(j.base)[name]
    BY <1>1, <1>3, DenseTensors
  <2>4. InDirectory(Source(j))[name] = DenseShard(j)[name]
    BY <1>1, <2>3, DirectoryTensors
  <2> QED  BY <2>1, <2>2, <2>3, <2>4
<1>5. /\ ModelParameters(d) = [name \in DOMAIN ModelParameters(d) |-> ModelParameters(d)[name]]
      /\ ModelParameters(j.base) =
           [name \in DOMAIN ModelParameters(j.base) |-> ModelParameters(j.base)[name]]
  BY <1>2 DEF IsModel
<1> QED  BY <1>3, <1>4, <1>5

\* The tensors of a source's experts are in one layout.
LEMMA ShardHas ==
    ASSUME NEW j \in Jobs, NEW l \in Range(SparseLayers(j.base)), NEW e
    PROVE  HasExpert(ExpertShard(j), l, e, j.layout)
<1> DEFINE name == <<l, "gate_up_proj">>
<1>1. j.layout \in {"split", "fused"}
  BY JobBase
<1>2. CASE j.layout = "split"
  <2>1. FusedName(name)
    BY DEF FusedName, FusedKinds
  <2>2. ~MatrixName(name)
    BY <2>1, NameKinds
  <2>3. name \notin DOMAIN ExpertShard(j)
    BY <1>2, <2>2, MatrixTensors
  <2> QED  BY <1>2, <2>3 DEF HasExpert
<1>3. CASE j.layout = "fused"
  <2>1. name \in DOMAIN ExpertShard(j)
    BY <1>3, MatrixTensors
  <2> QED  BY <1>3, <2>1 DEF HasExpert
<1> QED  BY <1>1, <1>2, <1>3

\* What the source was made with, by its layout.
LEMMA Original ==
    ASSUME NEW j \in Jobs, NEW l \in Range(SparseLayers(j.base)), NEW e
    PROVE  ResidentExpert(ExpertShard(j), j.base, l, e) =
             IF j.layout = "split" THEN SplitExpert(ExpertShard(j), l, e)
             ELSE NarrowFused(ExpertShard(j), MoeConfig(j.base), l, e)
<1>1. PICK layout : layout = j.layout
  OBVIOUS
<1>2. PICK b : b = j.base
  OBVIOUS
<1>3. /\ layout \in {"split", "fused"} /\ Detect(b)
      /\ b.family = "olmoe" => layout = "split"
      /\ b.family = "qwen3_5_moe" => layout = "fused"
  BY <1>1, <1>2, JobBase
<1>4. PICK t : t = ExpertShard(j)
  OBVIOUS
<1>5. HasExpert(t, l, e, layout)
  BY <1>1, <1>4, ShardHas
<1>6. ResidentExpert(t, b, l, e) =
        IF layout = "split" THEN SplitExpert(t, l, e) ELSE NarrowFused(t, MoeConfig(b), l, e)
  BY <1>3, <1>5, ExpertMatrices
<1> QED  BY <1>1, <1>2, <1>4, <1>6

\* An expert read as three matrices is the one the source was made with.
LEMMA SplitOriginal ==
    ASSUME NEW j \in Jobs, NEW moe, NEW l \in Range(SparseLayers(j.base)), NEW e,
           NEW read, read = ReadSplit(InDirectory(Source(j)), moe, l, e), read # Refused
    PROVE  Matrices(read) = ResidentExpert(ExpertShard(j), j.base, l, e)
<1> DEFINE all == InDirectory(Source(j))
           own == ExpertShard(j)
<1>1. \A m \in {"gate", "up", "down"} : <<l, e, m>> \in DOMAIN all
  <2>1. Range(MatrixNames(l, e)) \subseteq DOMAIN all
    BY DEF ReadSplit
  <2> QED  BY <2>1 DEF MatrixNames, Range
<1>2. \A m : MatrixName(<<l, e, m>>)
  BY DEF MatrixName
<1>3. \A m \in {"gate", "up", "down"} : own[<<l, e, m>>] = all[<<l, e, m>>]
  BY <1>1, <1>2, DirectoryTensors
<1>4. j.layout = "split"
  BY <1>1, <1>2, DirectoryTensors
<1>5. Matrices(read) = SplitExpert(own, l, e)
  BY <1>3, SplitMatrices
<1>6. ResidentExpert(own, j.base, l, e) = SplitExpert(own, l, e)
  BY <1>4, Original
<1> QED  BY <1>5, <1>6 DEF own

\* So is one read as its part of two arrays.
LEMMA FusedOriginal ==
    ASSUME NEW j \in Jobs, NEW moe, IsGeometry(moe), NEW l \in Range(SparseLayers(j.base)), NEW e \in Nat,
           NEW read, read = ReadFused(InDirectory(Source(j)), moe, l, e), read # Refused
    PROVE  Matrices(read) = ResidentExpert(ExpertShard(j), j.base, l, e)
<1> DEFINE all == InDirectory(Source(j))
           own == ExpertShard(j)
           base == MoeConfig(j.base)
<1>1. FusedValid(all, moe, l)
  BY DEF ReadFused
<1>2. FusedNames(l) \subseteq DOMAIN all /\ \A name \in FusedNames(l) : FusedName(name)
  BY <1>1 DEF FusedValid, FusedNames, FusedName, FusedKinds
<1>3. \A name \in FusedNames(l) : own[name] = all[name]
  BY <1>2, DirectoryTensors
<1>4. <<l, "gate_up_proj">> \in FusedNames(l)
  BY DEF FusedNames
<1>5. j.layout = "fused"
  BY <1>2, <1>4, DirectoryTensors
<1>6. all[<<l, "gate_up_proj">>].shape = <<moe.experts, 2 * moe.intermediate, moe.hidden>>
  BY <1>1 DEF FusedValid
<1>7. own[<<l, "gate_up_proj">>].shape = <<base.experts, 2 * base.intermediate, base.hidden>>
  BY <1>5, MatrixTensors
<1>8. IsGeometry(base)
  BY JobBase
<1>9. j.layout # "split"
  BY <1>5
<1>10. ResidentExpert(own, j.base, l, e) = NarrowFused(own, base, l, e)
  BY <1>9, Original
<1> HIDE DEF own, all, base
<1>11. base.hidden = moe.hidden /\ base.intermediate = moe.intermediate
  <2>1. <<moe.experts, 2 * moe.intermediate, moe.hidden>>
          = <<base.experts, 2 * base.intermediate, base.hidden>>
    BY <1>3, <1>4, <1>6, <1>7
  <2>2. 2 * moe.intermediate = 2 * base.intermediate /\ moe.hidden = base.hidden
    BY <2>1
  <2> QED  BY <1>8, <2>2 DEF IsGeometry
<1>12. Matrices(read) = NarrowFused(own, base, l, e)
  BY <1>3, <1>11, FusedMatrices DEF all
<1> QED  BY <1>10, <1>12 DEF own

\* A record parses in the same way for all configurations of one geometry.
LEMMA SameParse ==
    ASSUME NEW record, NEW moe, NEW other,
           moe.hidden = other.hidden, moe.intermediate = other.intermediate
    PROVE  Parse(record, moe) = Parse(record, other)
BY DEF Parse, CanParse, Section, SectionBytes

\* Of the two scalar types only one gives a record its size.
LEMMA SameScalar ==
    ASSUME NEW moe, IsGeometry(moe), moe.hidden # 0, moe.intermediate # 0,
           NEW scalar \in Scalars, NEW stated \in {scalar, Other(scalar)},
           RecordBytes(SectionBytes(moe, stated)) = HeaderBytes + 3 * SectionBytes(moe, scalar)
    PROVE  stated = scalar
<1> DEFINE area == moe.hidden * moe.intermediate
<1>1. area \in Nat /\ area # 0
  BY DEF IsGeometry
<1>2. \A s : SectionBytes(moe, s) = area * ByteWidth(s)
  BY DEF SectionBytes
<1>3. ByteWidth("f32") = 4 /\ ByteWidth("bf16") = 2
  BY DEF ByteWidth
<1> HIDE DEF area
<1>4. area * ByteWidth(stated) = area * ByteWidth(scalar)
  <2>1. 64 + 3 * (area * ByteWidth(stated)) = 64 + 3 * (area * ByteWidth(scalar))
    BY <1>2 DEF RecordBytes, HeaderBytes
  <2>2. area * ByteWidth(stated) \in Nat /\ area * ByteWidth(scalar) \in Nat
    BY <1>1 DEF ByteWidth
  <2> QED  BY <2>1, <2>2
<1>5. CASE scalar = "f32"
  <2>1. stated \in {"f32", "bf16"}
    BY <1>5 DEF Other
  <2>2. stated = "bf16" => area * 2 = area * 4
    BY <1>3, <1>4, <1>5
  <2> QED  BY <1>1, <1>5, <2>1, <2>2
<1>6. CASE scalar = "bf16"
  <2>1. stated \in {"f32", "bf16"}
    BY <1>6 DEF Other
  <2>2. stated = "f32" => area * 4 = area * 2
    BY <1>3, <1>4, <1>6
  <2> QED  BY <1>1, <1>6, <2>1, <2>2
<1> QED  BY <1>5, <1>6 DEF Scalars

\* A model that loaded is that of the directory, which was accepted.
IsLoaded(d) ==
    /\ phase \in {"published", "edited"} /\ IsAccepted(d)
    /\ loaded.config = d.config /\ loaded.scalar = d.manifest.scalar
    /\ ConfigType(d.config) /\ IsModel(d.config)

\* A loaded model comes of an accepted directory.
LEMMA LoadedDirectory ==
    ASSUME SourceOpened, DirectoryStays, DirectoryKept, loaded \notin {None, Refused}
    PROVE  IsLoaded(directory)
<1>1. opened \notin {None, Refused} /\ loaded = LoadPlain(directory, opened)
  BY DEF DirectoryStays
<1>2. /\ phase \in {"published", "edited"} /\ Accepts(directory)
      /\ opened = [config |-> directory.config, manifest |-> directory.manifest]
  BY <1>1 DEF DirectoryStays
<1>3. opened.config = directory.config /\ opened.manifest = directory.manifest
  BY <1>2
<1>4. /\ LoadStreamingModel(directory.config, OpenStore(directory.dense), OpenStore(directory.experts))
      /\ loaded.config = directory.config /\ loaded.scalar = directory.manifest.scalar
  BY <1>1, <1>3 DEF LoadPlain, CanLoad
<1>5. IsAccepted(directory)
  BY <1>2, <1>4, DirectoryAccepted
<1>6. Detect(directory.config) /\ Validate(directory.config)
  BY <1>2 DEF Accepts
<1>7. ConfigType(directory.config)
  <2>1. job \in Jobs
    BY DEF SourceOpened
  <2>2. directory.config \in Variations(job.base) \cup {job.config}
    BY <1>2 DEF DirectoryKept
  <2> QED  BY <1>6, <2>1, <2>2, JobsAssumption, Zenon
<1>8. IsModel(directory.config)
  BY <1>6, <1>7, ConfigIsModel
<1> QED  BY <1>2, <1>4, <1>5, <1>7, <1>8 DEF IsLoaded

\* It found its dense tensors.
LEMMA LoadedDense ==
    ASSUME SourceOpened, DirectoryKept, FilesKept, IsLoaded(directory)
    PROVE  FindsDense(job, directory.config, OpenStore(directory.dense))
<1>1. phase \in {"published", "edited"} /\ IsAccepted(directory) /\ IsModel(directory.config)
  BY DEF IsLoaded
<1>2. /\ Opened(job, checkpoint) /\ Validate(job.config) /\ IsModel(job.config)
  BY <1>1, CheckpointOpened
<1>3. job \in Jobs /\ Detect(job.config)
  BY <1>2 DEF Opened
<1>4. PICK names : names = DenseNames(job.config)
  OBVIOUS
<1>5. PICK N : N = Len(names)
  OBVIOUS
<1>6. N \in Nat /\ DOMAIN names = 1..N /\ N <= 100000
  <2>1. N \in Nat /\ IsList(names, N)
    BY <1>2, <1>4, <1>5 DEF IsModel
  <2>2. DOMAIN names = 1..N
    BY <2>1, ListSeq
  <2>3. Len(DenseNames(job.config)) <= 100000
    BY <1>2, <1>3, NamesAssumption
  <2> QED  BY <1>4, <1>5, <2>1, <2>2, <2>3
<1>7. PICK source : source = InDirectory(Source(job))
  OBVIOUS
<1>8. PICK written : written = staged.dense
  OBVIOUS
<1>9. IsDense(written, source, names, job.maxBuffer)
  <2>1. written = ConvertDense(source, names, job.maxBuffer) /\ written # Refused
    BY <1>1, <1>4, <1>7, <1>8 DEF FilesKept
  <2> QED  BY <2>1, DenseConverted
<1>10. PICK store : store = OpenStore(OnDisk(written))
  OBVIOUS
<1>11. HasDense(store, source, names)
  BY <1>6, <1>9, <1>10, DenseFound
<1>12. directory.dense = OnDisk(written)
  BY <1>1, <1>8 DEF DirectoryKept, IsAccepted
<1>13. /\ DOMAIN store.inventory = Range(DenseNames(directory.config))
       /\ Provides(DenseShapes(store), ModelParameters(directory.config))
  BY <1>1, <1>10, <1>12 DEF IsAccepted
<1>14. /\ Range(DenseNames(directory.config)) = DOMAIN ModelParameters(directory.config)
       /\ Range(names) = DOMAIN ModelParameters(job.config)
  BY <1>1, <1>2, <1>4 DEF IsModel
<1> QED  BY <1>7, <1>10, <1>11, <1>12, <1>13, <1>14 DEF FindsDense, HasDense

\* It has the parameters and the experts the tensors were made for.
LEMMA LoadedSame ==
    ASSUME SourceOpened, DirectoryKept, FilesKept, IsLoaded(directory)
    PROVE  /\ ModelParameters(directory.config) = ModelParameters(job.base)
           /\ Experts(directory.config) = Experts(job.base)
           /\ Range(SparseLayers(directory.config)) = Range(SparseLayers(job.base))
           /\ Range(SparseLayers(job.config)) = Range(SparseLayers(job.base))
<1>1. phase \in {"published", "edited"} /\ IsModel(directory.config)
  BY DEF IsLoaded
<1>2. Ready(job, checkpoint) /\ job \in Jobs /\ IsModel(job.config)
  <2>1. /\ Opened(job, checkpoint) /\ IsModel(job.config) /\ checkpoint.layout \in {"split", "fused"}
        /\ Declares(Source(job).index, job.config, checkpoint.layout)
    BY <1>1, CheckpointOpened
  <2> QED  BY <2>1 DEF Ready, Opened
<1>3. FindsDense(job, directory.config, OpenStore(directory.dense))
  BY LoadedDense
<1>4. ModelParameters(directory.config) = ModelParameters(job.base)
  BY <1>1, <1>2, <1>3, SameParameters
<1>5. IsModel(job.base)
  BY <1>2, JobBase
<1>6. /\ Range(SparseLayers(directory.config)) = Range(SparseLayers(job.base))
      /\ Experts(directory.config) = Experts(job.base)
  BY <1>1, <1>4, <1>5, SameExperts
<1>7. DOMAIN ModelParameters(job.config) = DOMAIN ModelParameters(job.base)
  BY <1>2, SameNames
<1>8. Range(SparseLayers(job.config)) = Range(SparseLayers(job.base))
  BY <1>2, <1>5, <1>7, SameLayers
<1> QED  BY <1>4, <1>6, <1>8

\* The configurations it was converted and loaded with have one geometry.
LEMMA LoadedGeometry ==
    ASSUME SourceOpened, DirectoryKept, IsLoaded(directory)
    PROVE  LET moe == MoeConfig(job.config)  own == MoeConfig(directory.config) IN
           /\ IsGeometry(moe) /\ own.hidden = moe.hidden /\ own.intermediate = moe.intermediate
           /\ moe.hidden # 0 /\ moe.intermediate # 0
           /\ directory.config.experts = job.config.experts
           /\ own.experts = directory.config.experts
<1>1. phase \in {"published", "edited"} /\ IsAccepted(directory) /\ ConfigType(directory.config)
  BY DEF IsLoaded
<1>2. /\ Opened(job, checkpoint) /\ ConfigType(job.config) /\ Validate(job.config)
  BY <1>1, CheckpointOpened
<1>3. Detect(job.config)
  BY <1>2 DEF Opened
<1>4. PICK c : c = job.config
  OBVIOUS
<1>5. PICK d : d = directory.config
  OBVIOUS
<1>6. /\ MoeConfig(c).hidden = c.hidden /\ MoeConfig(c).intermediate = c.intermediate
      /\ IsGeometry(MoeConfig(c)) /\ c.hidden # 0 /\ c.intermediate # 0
  BY <1>2, <1>3, <1>4, Geometry
<1>7. MoeConfig(d).experts = d.experts
  <2>1. Detect(d) /\ ConfigType(d)
    BY <1>1, <1>5 DEF IsAccepted
  <2> QED  BY <2>1, Geometry
<1>8. /\ directory.manifest.hidden = c.hidden /\ directory.manifest.intermediate = c.intermediate
      /\ directory.manifest.experts = c.experts
  BY <1>1, <1>4 DEF DirectoryKept
<1>9. /\ directory.manifest.hidden = MoeConfig(d).hidden
      /\ directory.manifest.intermediate = MoeConfig(d).intermediate
      /\ directory.manifest.experts = MoeConfig(d).experts
  BY <1>1, <1>5 DEF IsAccepted
<1> QED  BY <1>4, <1>5, <1>6, <1>7, <1>8, <1>9

\* One of its experts: the matrices and the scalar type of the original.
OriginalExpert(d, record, l, e) ==
    /\ Parse(record, MoeConfig(d.config)) = ResidentExpert(ExpertShard(job), job.base, l, e)
    /\ d.manifest.scalar = record.scalar

\* Every expert of a loaded model is the original one.
LEMMA LoadedExpert ==
    ASSUME SourceOpened, DirectoryKept, FilesKept, IsLoaded(directory),
           NEW l \in Range(SparseLayers(job.base)), NEW e \in 0..(directory.config.experts - 1)
    PROVE  OriginalExpert(directory, OpenStore(directory.experts).inventory[PackedName(l, e)], l, e)
<1>1. phase \in {"published", "edited"} /\ IsAccepted(directory)
  BY DEF IsLoaded
<1>2. PICK moe : moe = MoeConfig(job.config)
  OBVIOUS
<1>3. PICK own : own = MoeConfig(directory.config)
  OBVIOUS
<1>4. /\ IsGeometry(moe) /\ own.hidden = moe.hidden /\ own.intermediate = moe.intermediate
      /\ moe.hidden # 0 /\ moe.intermediate # 0
      /\ directory.config.experts = job.config.experts /\ own.experts = directory.config.experts
  BY <1>2, <1>3, LoadedGeometry
<1>5. /\ Range(SparseLayers(directory.config)) = Range(SparseLayers(job.base))
      /\ Range(SparseLayers(job.config)) = Range(SparseLayers(job.base))
  BY LoadedSame
<1>6. /\ Opened(job, checkpoint) /\ job.config.experts \in Nat
  BY <1>1, CheckpointOpened
<1>7. e \in Nat /\ e \in 0..(job.config.experts - 1) /\ l \in Range(SparseLayers(job.config))
  BY <1>4, <1>5, <1>6
<1>8. PackedName(l, e) \in DOMAIN OpenStore(OnDisk(staged.experts)).inventory
  BY <1>1, <1>7, AllExpertsFound
<1>9. AllWritten(job, checkpoint, staged.scalar, staged.experts)
  BY <1>1 DEF FilesKept, AllWritten
<1>10. directory.experts = OnDisk(staged.experts)
  BY <1>1 DEF DirectoryKept, IsAccepted
<1>11. PICK record : record = OpenStore(directory.experts).inventory[PackedName(l, e)]
  OBVIOUS
<1>12. Parses(job, checkpoint, staged.scalar, record, l, e)
  BY <1>6, <1>8, <1>9, <1>10, <1>11, ExpertParses
<1>13. PICK read : read = ReadOf(job, checkpoint, l, e)
  OBVIOUS
<1>14. /\ read # Refused /\ record.scalar = staged.scalar /\ staged.scalar \in Scalars
       /\ EncodedLength(record) = HeaderBytes + 3 * SectionBytes(moe, staged.scalar)
       /\ Parse(record, moe) = Matrices(read)
  BY <1>2, <1>12, <1>13 DEF Parses
<1>15. Parse(record, own) = Parse(record, moe)
  BY <1>4, SameParse
<1>16. Matrices(read) = ResidentExpert(ExpertShard(job), job.base, l, e)
  <2>1. job \in Jobs
    BY <1>6 DEF Opened
  <2>2. CASE checkpoint.layout = "split"
    <3>1. read = ReadSplit(InDirectory(Source(job)), moe, l, e)
      BY <1>2, <1>13, <2>2 DEF ReadOf, ReadAs
    <3> QED  BY <1>14, <2>1, <3>1, SplitOriginal
  <2>3. CASE checkpoint.layout # "split"
    <3>1. read = ReadFused(InDirectory(Source(job)), moe, l, e)
      BY <1>2, <1>13, <2>3 DEF ReadOf, ReadAs
    <3> QED  BY <1>4, <1>7, <1>14, <2>1, <3>1, FusedOriginal
  <2> QED  BY <2>2, <2>3
<1>17. directory.manifest.scalar = record.scalar
  <2>1. directory.manifest.scalar \in {staged.scalar, Other(staged.scalar)}
    BY <1>1 DEF DirectoryKept
  <2>2. EncodedLength(record) = RecordBytes(SectionBytes(own, directory.manifest.scalar))
    <3>1. HasRecords(OpenStore(directory.experts), own, directory.manifest.scalar,
                     SparseLayers(directory.config))
      BY <1>1, <1>3 DEF IsAccepted
    <3>2. PICK n \in DOMAIN SparseLayers(directory.config) : SparseLayers(directory.config)[n] = l
      BY <1>5 DEF Range
    <3>3. e \in 0..(own.experts - 1)
      BY <1>4
    <3> QED  BY <1>11, <3>1, <3>2, <3>3 DEF HasRecords
  <2>3. \A s : SectionBytes(own, s) = SectionBytes(moe, s)
    BY <1>4 DEF SectionBytes
  <2>4. RecordBytes(SectionBytes(moe, directory.manifest.scalar))
          = HeaderBytes + 3 * SectionBytes(moe, staged.scalar)
    BY <1>14, <2>2, <2>3
  <2> QED  BY <1>4, <1>14, <2>1, <2>4, SameScalar
<1>18. OriginalExpert(directory, record, l, e)
  BY <1>3, <1>14, <1>15, <1>16, <1>17 DEF OriginalExpert
<1> QED  BY <1>11, <1>18

\* What the invariants say of a model that loaded.
LEMMA LoadedModel ==
    ASSUME SourceOpened, DirectoryStays, DirectoryKept, FilesKept
    PROVE  LoadedIsTheConverted
<1>1. SUFFICES ASSUME loaded \notin {None, Refused}
               PROVE  LoadedIsTheConverted
  BY DEF LoadedIsTheConverted
<1>2. IsLoaded(directory)
  BY <1>1, LoadedDirectory
<1>3. loaded.config = directory.config /\ loaded.scalar = directory.manifest.scalar
  BY <1>2 DEF IsLoaded
<1>4. Validate(directory.config)
  BY <1>2 DEF IsLoaded, IsAccepted
<1>5. /\ ModelParameters(directory.config) = ModelParameters(job.base)
      /\ Experts(directory.config) = Experts(job.base)
      /\ Range(SparseLayers(directory.config)) = Range(SparseLayers(job.base))
  BY <1>2, LoadedSame
<1>6. ASSUME NEW x \in Experts(directory.config)
      PROVE  OriginalExpert(directory, OpenStore(directory.experts).inventory[PackedName(x[1], x[2])],
                            x[1], x[2])
  <2>1. x[1] \in Range(SparseLayers(job.base)) /\ x[2] \in 0..(directory.config.experts - 1)
    BY <1>5 DEF Experts
  <2> QED  BY <1>2, <2>1, LoadedExpert
<1>7. \A x \in Experts(directory.config) :
        /\ StreamedExpert(OpenStore(directory.experts), directory.config, x[1], x[2])
             = ResidentExpert(Source(job).files.second, job.base, x[1], x[2])
        /\ directory.manifest.scalar
             = OpenStore(directory.experts).inventory[PackedName(x[1], x[2])].scalar
  BY <1>6 DEF OriginalExpert, StreamedExpert, ExpertShard
<1> QED  BY <1>3, <1>4, <1>5, <1>7, Zenon DEF LoadedIsTheConverted

\* Whatever was changed in between, a model that loads is the converted one.
THEOREM LoadedConverted == Spec => []LoadedIsTheConverted
<1>1. SourceOpened /\ DirectoryStays /\ DirectoryKept /\ FilesKept => LoadedIsTheConverted
  BY LoadedModel
<1> QED  BY <1>1, OrderCorrect, FilesCorrect, PTL

(***************************************************************************)
(* The listing of a directory.                                             *)
(***************************************************************************)

\* A list of different values has as many as it is long.
LEMMA CountList ==
    ASSUME NEW n \in Nat, NEW w, \A i \in 1..n, k \in 1..n : w[i] = w[k] => i = k
    PROVE  Cardinality({w[k] : k \in 1..n}) = n
<1> DEFINE S == {w[k] : k \in 1..n}  f == [k \in 1..n |-> w[k]]
<1>1. f \in Bijection(1..n, S)
  <2>1. f \in [1..n -> S]
    OBVIOUS
  <2>2. \A a, b \in 1..n : f[a] = f[b] => a = b
    OBVIOUS
  <2>3. \A t \in S : \E s \in 1..n : f[s] = t
    OBVIOUS
  <2> HIDE DEF f, S
  <2> QED  BY <2>1, <2>2, <2>3 DEF Bijection, Injection, Surjection, IsInjective
<1>2. IsFiniteSet(1..n) /\ Cardinality(1..n) = n
  BY FS_Interval
<1>3. ExistsBijection(1..n, S)
  BY <1>1 DEF ExistsBijection
<1> HIDE DEF S
<1>4. Cardinality(S) = n
  BY <1>2, <1>3, FS_Bijection
<1> QED  BY <1>4 DEF S

\* Each of the n names comes before the later ones and before no other.
InOrder(w, n) ==
    \A i \in 1..n, k \in 1..n :
        /\ i < k => Before(w[i], w[k])
        /\ Before(w[i], w[k]) => i < k

\* Names that are in order are listed in that order.
LEMMA SortedList ==
    ASSUME NEW n \in Nat, NEW w, IsList(w, n), InOrder(w, n)
    PROVE  Sorted({w[k] : k \in 1..n}) = w
<1> DEFINE S == {w[k] : k \in 1..n}  Below(a) == {b \in S : Before(b, a)}
<1>1. \A i \in 1..n, k \in 1..n : w[i] = w[k] => i = k
  <2> SUFFICES ASSUME NEW i \in 1..n, NEW k \in 1..n, w[i] = w[k] PROVE i = k
    OBVIOUS
  <2>1. /\ i < k => Before(w[i], w[k])
        /\ k < i => Before(w[k], w[i])
        /\ Before(w[i], w[i]) => i < i
    BY Zenon DEF InOrder
  <2>2. Before(w[i], w[k]) => i < i
    BY <2>1, Zenon
  <2>3. Before(w[k], w[i]) => i < i
    BY <2>1, Zenon
  <2> QED  BY <2>1, <2>2, <2>3
<1>2. Cardinality(S) = n
  BY <1>1, CountList
<1>3. ASSUME NEW i \in 1..n PROVE Cardinality(Below(w[i])) = i - 1
  <2>1. ASSUME NEW k \in 1..n PROVE Before(w[k], w[i]) <=> k \in 1..(i - 1)
    <3>1. (k < i => Before(w[k], w[i])) /\ (Before(w[k], w[i]) => k < i)
      BY Zenon DEF InOrder
    <3> QED  BY <3>1
  <2>2. Below(w[i]) = {w[k] : k \in 1..(i - 1)}
    BY <2>1
  <2>3. i - 1 \in Nat /\ \A a \in 1..(i - 1), b \in 1..(i - 1) : w[a] = w[b] => a = b
    BY <1>1
  <2>4. Cardinality({w[k] : k \in 1..(i - 1)}) = i - 1
    BY <2>3, CountList
  <2> QED  BY <2>2, <2>4
<1> DEFINE Chosen(m) == CHOOSE a \in S : Cardinality(Below(a)) = m - 1
<1>4. Sorted(S) = [m \in 1..n |-> Chosen(m)]
  BY <1>2 DEF Sorted
<1>5. ASSUME NEW m \in 1..n PROVE Chosen(m) = w[m]
  <2>1. w[m] \in S /\ Cardinality(Below(w[m])) = m - 1
    BY <1>3
  <2> HIDE DEF Below
  <2>2. Chosen(m) \in S /\ Cardinality(Below(Chosen(m))) = m - 1
    BY <2>1
  <2>3. PICK i \in 1..n : Chosen(m) = w[i]
    BY <2>2
  <2>4. i - 1 = m - 1
    BY <1>3, <2>2, <2>3
  <2> QED  BY <2>3, <2>4
<1> HIDE DEF Chosen, S
<1>6. Sorted(S) = [m \in 1..n |-> w[m]]
  BY <1>4, <1>5
<1> QED  BY <1>6 DEF IsList, S

\* a and b have the same numbers in their first n places.
Agrees(a, b, n) == \A m \in 1..n : a[m] = b[m]

\* a and b, numbers in n places, differ first where a is smaller.
Precedes(a, b, n) == \E d \in 1..n : Agrees(a, b, d - 1) /\ a[d] < b[d]

IsNumbers(a, n) == IsList(a, n) /\ \A d \in 1..n : a[d] \in Nat

\* Names of one length are compared place by place.
LEMMA BeforePrecedes ==
    ASSUME NEW n \in Nat, NEW a, NEW b, IsNumbers(a, n), IsNumbers(b, n)
    PROVE  Before(a, b) <=> Precedes(a, b, n)
<1>1. DOMAIN a = 1..n /\ DOMAIN b = 1..n /\ Len(a) = n
  BY ListSeq DEF IsNumbers
<1>2. ASSUME Before(a, b) PROVE Precedes(a, b, n)
  <2>1. PICK d \in DOMAIN a \cup {Len(a) + 1} :
             /\ \A m \in 1..(d - 1) : m \in DOMAIN b /\ a[m] = b[m]
             /\ d \in DOMAIN b /\ (d \in DOMAIN a => a[d] < b[d])
    BY <1>2, Zenon DEF Before
  <2>2. d \in 1..n /\ a[d] < b[d] /\ \A m \in 1..(d - 1) : a[m] = b[m]
    BY <1>1, <2>1
  <2> QED  BY <2>2, Zenon DEF Precedes, Agrees
<1>3. ASSUME Precedes(a, b, n) PROVE Before(a, b)
  <2>1. PICK d \in 1..n : (\A m \in 1..(d - 1) : a[m] = b[m]) /\ a[d] < b[d]
    BY <1>3, Zenon DEF Precedes, Agrees
  <2>2. /\ \A m \in 1..(d - 1) : m \in DOMAIN b /\ a[m] = b[m]
        /\ d \in DOMAIN b /\ (d \in DOMAIN a => a[d] < b[d])
        /\ d \in DOMAIN a \cup {Len(a) + 1}
    BY <1>1, <2>1
  <2> QED  BY <2>2, Zenon DEF Before
<1> QED  BY <1>2, <1>3

\* The comparison goes one way at most.
LEMMA PrecedesOnce ==
    ASSUME NEW n \in Nat, NEW a, NEW b, IsNumbers(a, n), IsNumbers(b, n), Precedes(a, b, n)
    PROVE  ~Precedes(b, a, n) /\ a # b
<1>1. PICK d \in 1..n : (\A m \in 1..(d - 1) : a[m] = b[m]) /\ a[d] < b[d]
  BY Zenon DEF Precedes, Agrees
<1>2. \A m \in 1..n : a[m] \in Nat /\ b[m] \in Nat
  BY DEF IsNumbers
<1>3. ~(b[d] < a[d]) /\ a[d] # b[d]
  BY <1>1, <1>2
<1>4. ASSUME Precedes(b, a, n) PROVE FALSE
  <2>1. PICK e \in 1..n : (\A m \in 1..(e - 1) : b[m] = a[m]) /\ b[e] < a[e]
    BY <1>4, Zenon DEF Precedes, Agrees
  <2>2. e # d
    BY <1>3, <2>1
  <2>3. CASE e < d
    <3>1. e \in 1..(d - 1) /\ a[e] \in Nat
      BY <1>2, <2>3
    <3>2. a[e] = b[e]
      BY <1>1, <3>1
    <3> QED  BY <2>1, <3>1, <3>2
  <2>4. CASE d < e
    <3>1. d \in 1..(e - 1)
      BY <2>4
    <3>2. b[d] = a[d]
      BY <2>1, <3>1
    <3> QED  BY <1>3, <3>2
  <2> QED  BY <2>2, <2>3, <2>4
<1> QED  BY <1>3, <1>4

Ascends(w, n, size) ==
    /\ \A i \in 1..n : IsNumbers(w[i], size)
    /\ \A i \in 1..n, k \in 1..n : i < k => Precedes(w[i], w[k], size)

\* Names of one length of which each precedes the next ones are in order.
LEMMA AscendingInOrder ==
    ASSUME NEW n \in Nat, NEW size \in Nat, NEW w, Ascends(w, n, size)
    PROVE  InOrder(w, n)
<1> SUFFICES ASSUME NEW i \in 1..n, NEW k \in 1..n
             PROVE  (i < k => Before(w[i], w[k])) /\ (Before(w[i], w[k]) => i < k)
  BY Zenon DEF InOrder
<1>1. IsNumbers(w[i], size) /\ IsNumbers(w[k], size)
  BY DEF Ascends
<1>2. Before(w[i], w[k]) <=> Precedes(w[i], w[k], size)
  BY <1>1, BeforePrecedes
<1>3. i < k => Precedes(w[i], w[k], size)
  BY Zenon DEF Ascends
<1>4. k < i => Precedes(w[k], w[i], size)
  BY Zenon DEF Ascends
<1>5. k < i => ~Precedes(w[i], w[k], size)
  BY <1>1, <1>4, PrecedesOnce
<1>6. i = k => ~Precedes(w[i], w[k], size)
  BY <1>1, PrecedesOnce
<1> QED  BY <1>2, <1>3, <1>5, <1>6

\* The digits of a number.
LEMMA PaddedNumbers ==
    ASSUME NEW n \in Nat
    PROVE  IsNumbers(Padded(n), 5) /\ \A d \in 1..5 : Padded(n)[d] \in 0..9
<1>1. \A d \in 1..5 : PowersOfTen[d] \in Nat /\ PowersOfTen[d] # 0
  BY DEF PowersOfTen
<1>2. ASSUME NEW d \in 1..5 PROVE Padded(n)[d] \in 0..9
  <2>1. Padded(n)[d] = (n \div PowersOfTen[d]) % 10
    BY DEF Padded, DecimalDigits
  <2>2. n \div PowersOfTen[d] \in Nat
    BY <1>1
  <2> QED  BY <2>1, <2>2
<1>3. \A d \in 1..5 : Padded(n)[d] \in Nat
  BY <1>2
<1> QED  BY <1>2, <1>3, FiveDigits DEF IsNumbers

\* x is the last digit of n, and u what is before it.
Ends(n, u, x) == n \in Nat /\ u \in Nat /\ x \in 0..9 /\ n = 10 * u + x

\* The smaller of two numbers is smaller before its last digit or in it.
LEMMA EndsSmaller ==
    ASSUME NEW n, NEW u, NEW x, Ends(n, u, x), NEW m, NEW v, NEW y, Ends(m, v, y)
    PROVE  /\ n < m => u < v \/ (u = v /\ x < y)
           /\ n = m => u = v /\ x = y
BY DEF Ends

\* f[k] is the number that the first k digits of x make.
Digits(f, x) == f[1] = x[1] /\ \A k \in 2..5 : Ends(f[k], f[k - 1], x[k])

Tells(f, g, x, y, k) ==
    /\ f[k] < g[k] => Precedes(x, y, k)
    /\ f[k] = g[k] => Agrees(x, y, k)

\* One more digit tells numbers apart as the digits before it do.
LEMMA TellsNext ==
    ASSUME NEW f, NEW g, NEW x, NEW y, NEW k \in Nat, Tells(f, g, x, y, k),
           Ends(f[k + 1], f[k], x[k + 1]), Ends(g[k + 1], g[k], y[k + 1])
    PROVE  Tells(f, g, x, y, k + 1)
<1>1. /\ f[k + 1] < g[k + 1] => f[k] < g[k] \/ (f[k] = g[k] /\ x[k + 1] < y[k + 1])
      /\ f[k + 1] = g[k + 1] => f[k] = g[k] /\ x[k + 1] = y[k + 1]
  BY EndsSmaller
<1>2. Agrees(x, y, k) /\ x[k + 1] = y[k + 1] => Agrees(x, y, k + 1)
  <2>1. \A m \in 1..(k + 1) : m \in 1..k \/ m = k + 1
    OBVIOUS
  <2> QED  BY <2>1, Zenon DEF Agrees
<1>3. Agrees(x, y, k) /\ x[k + 1] < y[k + 1] => Precedes(x, y, k + 1)
  <2>1. k + 1 \in 1..(k + 1) /\ (k + 1) - 1 = k
    OBVIOUS
  <2> QED  BY <2>1, Zenon DEF Precedes
<1>4. Precedes(x, y, k) => Precedes(x, y, k + 1)
  <2>1. \A d \in 1..k : d \in 1..(k + 1)
    OBVIOUS
  <2> QED  BY <2>1, Zenon DEF Precedes
<1> QED  BY <1>1, <1>2, <1>3, <1>4, Zenon DEF Tells

\* The five digits of a file name make the number.
LEMMA DigitsMake ==
    ASSUME NEW n \in Nat, n < 100000, NEW x, x = Padded(n)
    PROVE  \E f : Digits(f, x) /\ f[5] = n
<1>1. \A d \in 1..5 : x[d] \in 0..9
  BY PaddedNumbers
<1>2. PICK a \in 0..9 : a = x[1]
  BY <1>1
<1>3. PICK b \in 0..9 : b = x[2]
  BY <1>1
<1>4. PICK c \in 0..9 : c = x[3]
  BY <1>1
<1>5. PICK d \in 0..9 : d = x[4]
  BY <1>1
<1>6. PICK e \in 0..9 : e = x[5]
  BY <1>1
<1>7. PICK p \in Nat : p = 10 * a + b
  OBVIOUS
<1>8. PICK q \in Nat : q = 10 * p + c
  OBVIOUS
<1>9. PICK r \in Nat : r = 10 * q + d
  OBVIOUS
<1>10. n = a * 10000 + b * 1000 + c * 100 + d * 10 + e
  BY <1>2, <1>3, <1>4, <1>5, <1>6, DigitsOf
<1>11. n = 10 * r + e
  BY <1>7, <1>8, <1>9, <1>10
<1> DEFINE f == <<a, p, q, r, n>>
<1>12. Ends(p, a, b) /\ Ends(q, p, c) /\ Ends(r, q, d) /\ Ends(n, r, e)
  BY <1>7, <1>8, <1>9, <1>11 DEF Ends
<1>13. f[1] = a /\ f[2] = p /\ f[3] = q /\ f[4] = r /\ f[5] = n
  OBVIOUS
<1> HIDE DEF f
<1>14. \A k \in 2..5 : Ends(f[k], f[k - 1], x[k])
  <2>1. Ends(f[2], f[1], x[2]) /\ Ends(f[3], f[2], x[3]) /\ Ends(f[4], f[3], x[4])
        /\ Ends(f[5], f[4], x[5])
    BY <1>3, <1>4, <1>5, <1>6, <1>12, <1>13
  <2>2. 2..5 = {2, 3, 4, 5} /\ 2 - 1 = 1 /\ 3 - 1 = 2 /\ 4 - 1 = 3 /\ 5 - 1 = 4
    OBVIOUS
  <2> QED  BY <2>1, <2>2
<1>15. Digits(f, x)
  BY <1>2, <1>13, <1>14 DEF Digits
<1> QED  BY <1>13, <1>15

\* The first digit tells numbers apart.
LEMMA TellsFirst ==
    ASSUME NEW f, NEW g, NEW x, NEW y, Digits(f, x), Digits(g, y)
    PROVE  Tells(f, g, x, y, 1)
<1>1. f[1] = x[1] /\ g[1] = y[1]
  BY DEF Digits
<1>2. \A m \in 1..1 : m = 1
  OBVIOUS
<1>3. f[1] = g[1] => Agrees(x, y, 1)
  BY <1>1, <1>2, Zenon DEF Agrees
<1>4. f[1] < g[1] => Precedes(x, y, 1)
  <2>1. Agrees(x, y, 1 - 1)
    BY DEF Agrees
  <2>2. 1 \in 1..1
    OBVIOUS
  <2> QED  BY <1>1, <2>1, <2>2, Zenon DEF Precedes
<1> QED  BY <1>3, <1>4, Zenon DEF Tells

\* Smaller numbers are written with smaller digits.
LEMMA DigitsPrecede ==
    ASSUME NEW a \in Nat, NEW b \in Nat, a < b, b < 100000
    PROVE  Precedes(Padded(a), Padded(b), 5)
<1>1. PICK x : x = Padded(a)
  OBVIOUS
<1>2. PICK y : y = Padded(b)
  OBVIOUS
<1>3. PICK f : Digits(f, x) /\ f[5] = a
  BY <1>1, DigitsMake
<1>4. PICK g : Digits(g, y) /\ g[5] = b
  BY <1>2, DigitsMake
<1>5. Tells(f, g, x, y, 1)
  BY <1>3, <1>4, TellsFirst
<1>6. Tells(f, g, x, y, 2)
  <2>1. Ends(f[2], f[1], x[2]) /\ Ends(g[2], g[1], y[2])
    BY <1>3, <1>4 DEF Digits
  <2> QED  BY <1>5, <2>1, TellsNext
<1>7. Tells(f, g, x, y, 3)
  <2>1. Ends(f[3], f[2], x[3]) /\ Ends(g[3], g[2], y[3])
    BY <1>3, <1>4 DEF Digits
  <2> QED  BY <1>6, <2>1, TellsNext
<1>8. Tells(f, g, x, y, 4)
  <2>1. Ends(f[4], f[3], x[4]) /\ Ends(g[4], g[3], y[4])
    BY <1>3, <1>4 DEF Digits
  <2> QED  BY <1>7, <2>1, TellsNext
<1>9. Tells(f, g, x, y, 5)
  <2>1. Ends(f[5], f[4], x[5]) /\ Ends(g[5], g[4], y[5])
    BY <1>3, <1>4 DEF Digits
  <2> QED  BY <1>8, <2>1, TellsNext
<1>10. f[5] < g[5]
  BY <1>3, <1>4
<1> QED  BY <1>1, <1>2, <1>9, <1>10 DEF Tells

Parted(f, a, m, b, n) == IsNumbers(a, m) /\ IsNumbers(b, n) /\ f = a \o b

\* What a name of two parts holds.
LEMMA PartedNumbers ==
    ASSUME NEW m \in Nat, NEW n \in Nat, NEW f, NEW a, NEW b, Parted(f, a, m, b, n)
    PROVE  /\ IsNumbers(f, m + n)
           /\ \A d \in 1..m : f[d] = a[d]
           /\ \A d \in 1..n : f[m + d] = b[d]
<1>1. IsList(a, m) /\ IsList(b, n) /\ f = a \o b
      /\ (\A d \in 1..m : a[d] \in Nat) /\ (\A d \in 1..n : b[d] \in Nat)
  BY DEF Parted, IsNumbers
<1>2. Concatenates(a, m, b, n)
  BY <1>1, ListConcat
<1>3. /\ IsList(f, m + n) /\ \A d \in 1..m : f[d] = a[d]
      /\ \A d \in 1..n : f[m + d] = b[d]
  BY <1>1, <1>2 DEF Concatenates
<1>4. ASSUME NEW d \in 1..(m + n) PROVE f[d] \in Nat
  <2>1. CASE d <= m
    <3>1. d \in 1..m
      BY <2>1
    <3>2. f[d] = a[d] /\ a[d] \in Nat
      BY <1>1, <1>3, <3>1
    <3> QED  BY <3>2
  <2>2. CASE d > m
    <3>1. d - m \in 1..n /\ m + (d - m) = d
      BY <2>2
    <3>2. f[m + (d - m)] = b[d - m]
      BY <1>3, <3>1
    <3> QED  BY <1>1, <3>1, <3>2
  <2> QED  BY <2>1, <2>2
<1> QED  BY <1>3, <1>4 DEF IsNumbers

\* What differs in its first part differs there first.
LEMMA FirstPrecedes ==
    ASSUME NEW m \in Nat, NEW n \in Nat, NEW f, NEW a, NEW b, Parted(f, a, m, b, n),
           NEW g, NEW c, NEW e, Parted(g, c, m, e, n), Precedes(a, c, m)
    PROVE  Precedes(f, g, m + n)
<1>1. \A d \in 1..m : f[d] = a[d] /\ g[d] = c[d]
  <2>1. \A d \in 1..m : f[d] = a[d]
    BY PartedNumbers
  <2>2. \A d \in 1..m : g[d] = c[d]
    BY PartedNumbers
  <2> QED  BY <2>1, <2>2
<1>2. PICK d \in 1..m : (\A i \in 1..(d - 1) : a[i] = c[i]) /\ a[d] < c[d]
  BY Zenon DEF Precedes, Agrees
<1>3. d \in 1..(m + n) /\ f[d] < g[d]
  BY <1>1, <1>2
<1>4. ASSUME NEW i \in 1..(d - 1) PROVE f[i] = g[i]
  <2>1. i \in 1..m
    OBVIOUS
  <2> QED  BY <1>1, <1>2, <2>1
<1> QED  BY <1>3, <1>4, Zenon DEF Precedes, Agrees

\* What agrees in its first part differs where the second does.
LEMMA SecondPrecedes ==
    ASSUME NEW m \in Nat, NEW n \in Nat, NEW f, NEW a, NEW b, Parted(f, a, m, b, n),
           NEW g, NEW e, Parted(g, a, m, e, n), Precedes(b, e, n)
    PROVE  Precedes(f, g, m + n)
<1>1. \A d \in 1..m : f[d] = a[d] /\ g[d] = a[d]
  <2>1. \A d \in 1..m : f[d] = a[d]
    BY PartedNumbers
  <2>2. \A d \in 1..m : g[d] = a[d]
    BY PartedNumbers
  <2> QED  BY <2>1, <2>2
<1>2. \A d \in 1..n : f[m + d] = b[d] /\ g[m + d] = e[d]
  <2>1. \A d \in 1..n : f[m + d] = b[d]
    BY PartedNumbers
  <2>2. \A d \in 1..n : g[m + d] = e[d]
    BY PartedNumbers
  <2> QED  BY <2>1, <2>2
<1>3. PICK d \in 1..n : (\A i \in 1..(d - 1) : b[i] = e[i]) /\ b[d] < e[d]
  BY Zenon DEF Precedes, Agrees
<1>4. m + d \in 1..(m + n) /\ f[m + d] < g[m + d]
  BY <1>1, <1>2, <1>3
<1>5. ASSUME NEW i \in 1..((m + d) - 1) PROVE f[i] = g[i]
  <2>1. CASE i <= m
    <3>1. i \in 1..m
      BY <2>1
    <3> QED  BY <1>1, <1>2, <3>1
  <2>2. CASE i > m
    <3>1. i - m \in 1..n /\ i - m \in 1..(d - 1) /\ m + (i - m) = i
      BY <2>2
    <3>2. f[m + (i - m)] = b[i - m] /\ g[m + (i - m)] = e[i - m]
      BY <1>1, <1>2, <3>1
    <3> QED  BY <1>3, <3>1, <3>2
  <2> QED  BY <2>1, <2>2
<1> QED  BY <1>4, <1>5, Zenon DEF Precedes, Agrees

\* Group g is of an earlier layer than h, or of earlier experts of the same.
Earlier(g, h) == g.layer < h.layer \/ (g.layer = h.layer /\ g.first < h.first)

\* Numbers of which at most five digits are needed.
Small(g) == /\ g.layer \in Nat /\ g.first \in Nat /\ g.end - 1 \in Nat
            /\ g.layer < 100000 /\ g.first < 100000 /\ g.end - 1 < 100000

\* The three numbers in the name of a file of experts.
LEMMA ExpertFileParts ==
    ASSUME NEW g, Small(g)
    PROVE  /\ Parted(Padded(g.layer) \o Padded(g.first), Padded(g.layer), 5, Padded(g.first), 5)
           /\ Parted(ExpertFile(g), Padded(g.layer) \o Padded(g.first), 10, Padded(g.end - 1), 5)
<1>1. /\ IsNumbers(Padded(g.layer), 5) /\ IsNumbers(Padded(g.first), 5)
      /\ IsNumbers(Padded(g.end - 1), 5)
  BY PaddedNumbers DEF Small
<1>2. Parted(Padded(g.layer) \o Padded(g.first), Padded(g.layer), 5, Padded(g.first), 5)
  BY <1>1, Zenon DEF Parted
<1>3. 5 \in Nat /\ 5 + 5 = 10
  OBVIOUS
<1>4. IsNumbers(Padded(g.layer) \o Padded(g.first), 10)
  BY <1>2, <1>3, PartedNumbers
<1> QED  BY <1>1, <1>2, <1>4, Zenon DEF Parted, ExpertFile

\* The files of earlier groups are listed earlier.
LEMMA EarlierPrecedes ==
    ASSUME NEW g, NEW h, Small(g), Small(h), Earlier(g, h)
    PROVE  Precedes(ExpertFile(g), ExpertFile(h), 15)
<1> DEFINE a == Padded(g.layer) \o Padded(g.first)  b == Padded(h.layer) \o Padded(h.first)
<1>1. /\ Parted(a, Padded(g.layer), 5, Padded(g.first), 5)
      /\ Parted(ExpertFile(g), a, 10, Padded(g.end - 1), 5)
  BY ExpertFileParts
<1>2. /\ Parted(b, Padded(h.layer), 5, Padded(h.first), 5)
      /\ Parted(ExpertFile(h), b, 10, Padded(h.end - 1), 5)
  BY ExpertFileParts
<1>3. 5 \in Nat /\ 10 \in Nat /\ 5 + 5 = 10 /\ 10 + 5 = 15
  OBVIOUS
<1> HIDE DEF a, b
<1>4. CASE g.layer < h.layer
  <2>1. Precedes(Padded(g.layer), Padded(h.layer), 5)
    BY <1>4, DigitsPrecede DEF Small
  <2> QED  BY <1>1, <1>2, <1>3, <2>1, FirstPrecedes
<1>5. CASE g.layer = h.layer /\ g.first < h.first
  <2>1. Precedes(Padded(g.first), Padded(h.first), 5)
    BY <1>5, DigitsPrecede DEF Small
  <2>2. Parted(b, Padded(g.layer), 5, Padded(h.first), 5)
    BY <1>2, <1>5
  <2>3. Precedes(a, b, 10)
    BY <1>1, <1>3, <2>1, <2>2, SecondPrecedes
  <2> QED  BY <1>1, <1>2, <1>3, <2>3, FirstPrecedes
<1>6. g.layer < h.layer \/ (g.layer = h.layer /\ g.first < h.first)
  BY DEF Earlier
<1> QED  BY <1>4, <1>5, <1>6

(***************************************************************************)
(* The files of experts are written in the order in which they are listed. *)
(***************************************************************************)

\* Every group of the first n in w is earlier than those after it.
Rises(w, n) == \A i \in 1..n, k \in 1..n : i < k => Earlier(w[i], w[k])

\* Two lists one after the other.
LEMMA RisesConcat ==
    ASSUME NEW m \in Nat, NEW n \in Nat, NEW a, NEW b, IsList(a, m), IsList(b, n),
           Rises(a, m), Rises(b, n), \A i \in 1..m, k \in 1..n : Earlier(a[i], b[k])
    PROVE  Rises(a \o b, m + n)
<1>1. Concatenates(a, m, b, n)
  BY ListConcat
<1>2. \A i \in 1..m : (a \o b)[i] = a[i]
  BY <1>1 DEF Concatenates
<1>3. \A k \in 1..n : (a \o b)[m + k] = b[k]
  BY <1>1 DEF Concatenates
<1> SUFFICES ASSUME NEW i \in 1..(m + n), NEW k \in 1..(m + n), i < k
             PROVE  Earlier((a \o b)[i], (a \o b)[k])
  BY Zenon DEF Rises
<1>4. CASE k <= m
  <2>1. i \in 1..m /\ k \in 1..m
    BY <1>4
  <2>2. (a \o b)[i] = a[i] /\ (a \o b)[k] = a[k]
    BY <1>2, <2>1
  <2>3. Earlier(a[i], a[k])
    BY <2>1, Zenon DEF Rises
  <2> QED  BY <2>2, <2>3, Zenon
<1>5. CASE i > m
  <2>1. i - m \in 1..n /\ k - m \in 1..n /\ m + (i - m) = i /\ m + (k - m) = k /\ i - m < k - m
    BY <1>5
  <2>2. (a \o b)[i] = b[i - m] /\ (a \o b)[k] = b[k - m]
    <3>1. (a \o b)[m + (i - m)] = b[i - m] /\ (a \o b)[m + (k - m)] = b[k - m]
      BY <1>3, <2>1
    <3> QED  BY <2>1, <3>1
  <2>3. Earlier(b[i - m], b[k - m])
    BY <2>1, Zenon DEF Rises
  <2> QED  BY <2>2, <2>3, Zenon
<1>6. CASE i <= m /\ m < k
  <2>1. i \in 1..m /\ k - m \in 1..n /\ m + (k - m) = k
    BY <1>6
  <2>2. (a \o b)[i] = a[i] /\ (a \o b)[k] = b[k - m]
    <3>1. (a \o b)[m + (k - m)] = b[k - m]
      BY <1>3, <2>1
    <3> QED  BY <1>2, <2>1, <3>1
  <2>3. Earlier(a[i], b[k - m])
    BY <2>1, Zenon
  <2> QED  BY <2>2, <2>3, Zenon
<1>7. k <= m \/ i > m \/ (i <= m /\ m < k)
  OBVIOUS
<1> QED  BY <1>4, <1>5, <1>6, <1>7, Zenon

\* One more time a number.
LEMMA OneMore ==
    ASSUME NEW n \in Nat, NEW m \in 1..n, NEW k \in Nat
    PROVE  (m - 1) * k \in Nat /\ (m - 1) * k + k = m * k
OBVIOUS

\* The number of groups of a layer.
GroupCount(experts, p) == (experts + p - 1) \div p

\* n layers in order, whose experts are packed p to a file.
Divides(layers, n, experts, p) ==
    /\ n \in Nat /\ IsList(layers, n) /\ Ascending(layers, n)
    /\ experts \in Nat /\ p \in 1..experts

DividedInOrder(gs, n) == Len(gs) = n /\ Rises(gs, n)

\* The groups of layers in order are in order, and of every layer there are as many.
LEMMA GroupsRise ==
    ASSUME NEW layers, NEW n, NEW experts, NEW p, Divides(layers, n, experts, p)
    PROVE  DividedInOrder(GroupsOf(layers, experts, p), n * GroupCount(experts, p))
<1> SUFFICES ASSUME n \in Nat, IsList(layers, n), Ascending(layers, n), experts \in Nat, p \in 1..experts,
                    NEW count, count = (experts + p - 1) \div p
             PROVE  DividedInOrder(GroupsOf(layers, experts, p), n * GroupCount(experts, p))
  BY DEF Divides
<1> DEFINE Group(l, k) == [layer |-> l, first |-> (k - 1) * p, end |-> Min({k * p, experts})]
           Of(l) == [k \in 1..count |-> Group(l, k)]
           seqs == [i \in DOMAIN layers |-> Of(layers[i])]
           gs == GroupsOf(layers, experts, p)
<1>1. DOMAIN layers = 1..n
  BY ListSeq
<1>2. gs = FlattenSeq(seqs)
  BY DEF GroupsOf
<1>3. count \in Nat
  BY LayerGroups
<1>4. ASSUME NEW l PROVE IsList(Of(l), count) /\ Len(Of(l)) = count
  <2>1. IsList(Of(l), count)
    BY DEF IsList
  <2> HIDE DEF Of
  <2> QED  BY <1>3, <2>1, ListSeq
<1>5. ASSUME NEW l PROVE Rises(Of(l), count) /\ \A k \in 1..count : Of(l)[k].layer = l
  <2>1. ASSUME NEW i \in 1..count, NEW k \in 1..count, i < k
        PROVE  Earlier(Of(l)[i], Of(l)[k])
    <3>1. (i - 1) * p < (k - 1) * p
      <4>1. i - 1 \in Nat /\ k - 1 \in Nat /\ i <= k - 1 /\ p \in Nat /\ p > 0
        BY <2>1, <1>3
      <4>2. i * p <= (k - 1) * p /\ i * p \in Nat /\ (k - 1) * p \in Nat
        BY <1>3, <4>1, ProductGrows
      <4>3. i * p = (i - 1) * p + p /\ (i - 1) * p \in Int
        BY <1>3, <4>1
      <4> QED  BY <4>1, <4>2, <4>3
    <3>2. Of(l)[i].first = (i - 1) * p /\ Of(l)[k].first = (k - 1) * p
          /\ Of(l)[i].layer = l /\ Of(l)[k].layer = l
      OBVIOUS
    <3> HIDE DEF Of
    <3> QED  BY <3>1, <3>2 DEF Earlier
  <2>2. \A k \in 1..count : Of(l)[k].layer = l
    OBVIOUS
  <2> HIDE DEF Of
  <2> QED  BY <2>1, <2>2, Zenon DEF Rises
<1>6. IsList(seqs, n) /\ \A i \in 1..n : seqs[i] = Of(layers[i])
  BY <1>1 DEF IsList
<1> HIDE DEF seqs, Of, gs
<1>7. Lists(seqs, n)
  BY <1>3, <1>4, <1>6 DEF Lists
<1>8. PICK f : Joins(f, seqs, n)
  BY <1>7, JoinExists
<1>9. \A i \in 0..n : Len(f[i]) \in Nat /\ IsList(f[i], Len(f[i]))
  BY <1>7, <1>8, JoinIsList
<1>10. gs = f[n]
  <2>1. SubSeq(seqs, 1, n) = seqs
    BY <1>6, ListSeq, SubSeqFull
  <2>2. FlattenSeq(SubSeq(seqs, 1, n)) = f[n]
    BY <1>7, <1>8, FlattenJoins
  <2> QED  BY <1>2, <2>1, <2>2
<1> DEFINE Layered(m) == \A i \in 1..(m * count) : \E q \in 1..m : f[m][i].layer = layers[q]
           T == {m \in 0..n : /\ Len(f[m]) = m * count
                              /\ Rises(f[m], m * count) /\ Layered(m)}
<1>11. 0 \in T
  <2>1. f[0] = <<>> /\ Len(<<>>) = 0 /\ 0 * count = 0 /\ 0 \in 0..n
    BY <1>3, <1>8 DEF Joins
  <2>2. Rises(f[0], 0)
    BY DEF Rises
  <2>3. \A i \in 1..0 : \E q \in 1..0 : f[0][i].layer = layers[q]
    OBVIOUS
  <2> QED  BY <2>1, <2>2, <2>3
<1>12. ASSUME NEW m \in 1..n, m - 1 \in T PROVE m \in T
  <2> DEFINE a == f[m - 1]  b == seqs[m]  h == (m - 1) * count
  <2>1. /\ m - 1 \in 0..n /\ m \in 0..n /\ m - 1 \in Nat /\ m \in Nat
        /\ h \in Nat /\ h + count = m * count
    BY <1>3, OneMore
  <2>2. f[m] = a \o b
    BY <1>8 DEF Joins
  <2>3. IsList(a, h) /\ Len(a) = h /\ Rises(a, h)
    BY <1>9, <1>12, <2>1
  <2>4. IsList(b, count) /\ Rises(b, count) /\ \A k \in 1..count : b[k].layer = layers[m]
    BY <1>4, <1>5, <1>6
  <2>5. \A i \in 1..h : \E q \in 1..(m - 1) : a[i].layer = layers[q]
    BY <1>12
  <2> HIDE DEF a, b, h
  <2>6. ASSUME NEW i \in 1..h, NEW k \in 1..count PROVE Earlier(a[i], b[k])
    <3>1. PICK q \in 1..(m - 1) : a[i].layer = layers[q]
      BY <2>5
    <3>2. q \in 1..n /\ q < m /\ b[k].layer = layers[m]
      BY <2>4
    <3>3. layers[q] < layers[m]
      BY <3>2 DEF Ascending
    <3> QED  BY <3>1, <3>2, <3>3 DEF Earlier
  <2>7. Rises(f[m], h + count)
    BY <1>3, <2>1, <2>2, <2>3, <2>4, <2>6, RisesConcat
  <2>8. Concatenates(a, h, b, count)
    BY <1>3, <2>1, <2>3, <2>4, ListConcat
  <2>9. Len(f[m]) = h + count
    BY <2>2, <2>8 DEF Concatenates
  <2>10. ASSUME NEW i \in 1..(h + count) PROVE \E q \in 1..m : f[m][i].layer = layers[q]
    <3>1. CASE i <= h
      <4>1. i \in 1..h
        BY <2>1, <3>1
      <4>2. PICK q \in 1..(m - 1) : a[i].layer = layers[q]
        BY <2>5, <4>1
      <4>3. f[m][i] = a[i] /\ q \in 1..m
        BY <2>2, <2>8, <4>1 DEF Concatenates
      <4> QED  BY <4>2, <4>3
    <3>2. CASE i > h
      <4>1. i - h \in 1..count /\ h + (i - h) = i
        BY <1>3, <2>1, <3>2
      <4>2. (a \o b)[h + (i - h)] = b[i - h]
        BY <2>8, <4>1 DEF Concatenates
      <4>3. f[m][i].layer = layers[m]
        BY <2>2, <2>4, <4>1, <4>2
      <4> QED  BY <4>3
    <3> QED  BY <2>1, <3>1, <3>2
  <2> QED  BY <2>1, <2>7, <2>9, <2>10
<1>13. \A m \in 0..n : m \in T
  <2> HIDE DEF T
  <2> QED  BY <1>11, <1>12, UpTo
<1>14. n \in T
  BY <1>13
<1>15. Len(f[n]) = n * count /\ Rises(f[n], n * count)
  BY <1>14
<1> QED  BY <1>10, <1>15 DEF gs, DividedInOrder, GroupCount

\* The routed layers are numbered upwards.
LEMMA LayersAscend ==
    ASSUME NEW c, Detect(c), ConfigType(c), Validate(c)
    PROVE  Ascending(SparseLayers(c), Len(SparseLayers(c)))
<1>1. c.layers \in Nat
  BY Counted
<1>2. CASE c.family \in {"olmoe", "qwen3_5_moe"}
  <2>1. SparseLayers(c) = Indices(c.layers)
    BY <1>2, SharedIndices DEF SparseLayers, InFamily, O!SparseLayers, Q35!SparseLayers
  <2>2. Len(Indices(c.layers)) = c.layers /\ \A k \in 1..c.layers : Indices(c.layers)[k] = k - 1
    BY <1>1, IndicesList
  <2> QED  BY <1>1, <2>1, <2>2 DEF Ascending
<1>3. CASE c.family = "qwen3_moe"
  <2>1. SparseLayers(c) = Q3!SparseLayers(c)
    BY <1>3 DEF SparseLayers, InFamily
  <2> QED  BY <1>1, <2>1, SparseListed
<1> QED  BY <1>2, <1>3 DEF Detect

\* Files written in order are listed as they were written.
LEMMA ListedAsWritten ==
    ASSUME NEW n \in Nat, NEW written, IsList(written, n),
           NEW w, w = [m \in 1..n |-> written[m].file], InOrder(w, n)
    PROVE  /\ Recorded(written).files = w
           /\ OpenStore(OnDisk(written)).files = w
<1>1. DOMAIN written = 1..n
  BY ListSeq
<1>2. Recorded(written).files = w
  BY <1>1 DEF Recorded
<1>3. DOMAIN OnDisk(written) = {w[m] : m \in 1..n}
  <2>1. Range(written) = {written[m] : m \in 1..n}
    BY ListRange
  <2>2. DOMAIN OnDisk(written) = {x.file : x \in Range(written)}
    BY DEF OnDisk
  <2> QED  BY <2>1, <2>2
<1>4. IsList(w, n)
  BY DEF IsList
<1>5. Sorted({w[m] : m \in 1..n}) = w
  BY <1>4, SortedList
<1>6. OpenStore(OnDisk(written)).files = Sorted(DOMAIN OnDisk(written))
  BY DEF OpenStore
<1> QED  BY <1>2, <1>3, <1>5, <1>6

\* Names in order are all different.
LEMMA InOrderInjective ==
    ASSUME NEW n \in Nat, NEW w, IsList(w, n), InOrder(w, n)
    PROVE  IsInjective(w) /\ (n # 0 => w # <<>>)
<1>1. DOMAIN w = 1..n /\ Len(w) = n
  BY ListSeq
<1>2. ASSUME NEW i \in 1..n, NEW k \in 1..n, w[i] = w[k] PROVE i = k
  <2>1. /\ i < k => Before(w[i], w[k])
        /\ k < i => Before(w[k], w[i])
        /\ Before(w[i], w[i]) => i < i
    BY Zenon DEF InOrder
  <2>2. Before(w[i], w[k]) => i < i
    BY <1>2, <2>1, Zenon
  <2>3. Before(w[k], w[i]) => i < i
    BY <1>2, <2>1, Zenon
  <2> QED  BY <2>1, <2>2, <2>3
<1>3. IsInjective(w)
  BY <1>1, <1>2 DEF IsInjective
<1>4. n # 0 => w # <<>>
  BY <1>1
<1> QED  BY <1>3, <1>4

\* Dense tensors are numbered in the order of their names.
LEMMA DenseInOrder ==
    ASSUME NEW n \in Nat, n <= 100000, NEW w, w = [m \in 1..n |-> DenseFile(m - 1)]
    PROVE  InOrder(w, n)
<1>1. ASSUME NEW m \in 1..n PROVE IsNumbers(w[m], 5)
  <2>1. w[m] = Padded(m - 1) /\ m - 1 \in Nat
    BY DEF DenseFile
  <2> QED  BY <2>1, PaddedNumbers
<1>2. ASSUME NEW i \in 1..n, NEW k \in 1..n, i < k PROVE Precedes(w[i], w[k], 5)
  <2>1. w[i] = Padded(i - 1) /\ w[k] = Padded(k - 1)
    BY DEF DenseFile
  <2>2. i - 1 \in Nat /\ k - 1 \in Nat /\ i - 1 < k - 1 /\ k - 1 < 100000
    BY <1>2
  <2> QED  BY <2>1, <2>2, DigitsPrecede
<1>3. Ascends(w, n, 5)
  BY <1>1, <1>2 DEF Ascends
<1> QED  BY <1>3, AscendingInOrder

\* Groups of experts are written layer by layer, and in order in every layer.
LEMMA ExpertsInOrder ==
    ASSUME NEW j \in Jobs, Detect(j.config), ConfigType(j.config), Validate(j.config),
           j.perFile \in 1..j.config.experts,
           NEW w, w = [m \in 1..Len(JobGroups(j)) |-> ExpertFile(JobGroups(j)[m])]
    PROVE  /\ InOrder(w, Len(JobGroups(j)))
           /\ Len(JobGroups(j))
                = Len(SparseLayers(j.config)) * GroupCount(j.config.experts, j.perFile)
           /\ Len(JobGroups(j)) # 0
<1> DEFINE gs == JobGroups(j)  layers == SparseLayers(j.config)  experts == j.config.experts
<1>1. /\ IsModel(j.config) /\ experts \in Nat /\ j.config.layers \in Nat
      /\ j.config.layers <= 100000 /\ experts <= 100000
  BY ConfigIsModel, Counted, NamesAssumption
<1>2. /\ IsBytes(gs) /\ \A g \in Range(gs) : IsGroup(g, layers, experts)
      /\ \A l \in Range(layers), e \in 0..(experts - 1) :
           \E g \in Range(gs) : g.layer = l /\ e \in GroupExperts(g)
  BY <1>1, JobGroupsCover
<1>3. /\ Len(layers) \in Nat /\ IsList(layers, Len(layers))
      /\ Range(layers) \subseteq 0..(j.config.layers - 1) /\ Range(layers) # {}
  BY <1>1 DEF IsModel
<1>4. Ascending(layers, Len(layers))
  BY LayersAscend
<1>5. Len(gs) = Len(layers) * GroupCount(experts, j.perFile) /\ Rises(gs, Len(gs))
  <2>1. gs = GroupsOf(layers, experts, j.perFile)
    BY DEF JobGroups
  <2>2. Divides(layers, Len(layers), experts, j.perFile)
    BY <1>1, <1>3, <1>4 DEF Divides
  <2> HIDE DEF gs, layers, experts
  <2>3. DividedInOrder(gs, Len(layers) * GroupCount(experts, j.perFile))
    BY <2>1, <2>2, GroupsRise
  <2> QED  BY <2>3 DEF DividedInOrder
<1>6. Len(gs) \in Nat /\ IsList(gs, Len(gs)) /\ DOMAIN gs = 1..Len(gs)
  BY <1>2, ListSeq DEF IsBytes
<1> HIDE DEF gs, layers, experts
<1>7. ASSUME NEW m \in 1..Len(gs) PROVE Small(gs[m])
  <2>1. gs[m] \in Range(gs)
    BY <1>6 DEF Range
  <2>2. IsGroup(gs[m], layers, experts)
    BY <1>2, <2>1
  <2>3. /\ gs[m].layer \in 0..(j.config.layers - 1) /\ gs[m].first \in Nat /\ gs[m].end \in Nat
        /\ gs[m].first < gs[m].end /\ gs[m].end <= experts
    BY <1>3, <2>2 DEF IsGroup
  <2> QED  BY <1>1, <2>3, SMTT(30) DEF Small
<1>8. ASSUME NEW m \in 1..Len(gs) PROVE IsNumbers(w[m], 15)
  <2>1. w[m] = ExpertFile(gs[m]) /\ 10 \in Nat /\ 5 \in Nat /\ 10 + 5 = 15
    BY DEF gs
  <2>2. PICK a, b : Parted(ExpertFile(gs[m]), a, 10, b, 5)
    BY <1>7, ExpertFileParts
  <2>3. IsNumbers(ExpertFile(gs[m]), 10 + 5)
    BY <2>1, <2>2, PartedNumbers
  <2> QED  BY <2>1, <2>3
<1>9. ASSUME NEW i \in 1..Len(gs), NEW k \in 1..Len(gs), i < k PROVE Precedes(w[i], w[k], 15)
  <2>1. w[i] = ExpertFile(gs[i]) /\ w[k] = ExpertFile(gs[k])
    BY DEF gs
  <2>2. Earlier(gs[i], gs[k])
    BY <1>5, <1>9 DEF Rises
  <2> QED  BY <1>7, <2>1, <2>2, EarlierPrecedes
<1>10. Ascends(w, Len(gs), 15)
  BY <1>8, <1>9 DEF Ascends
<1>11. InOrder(w, Len(gs))
  BY <1>6, <1>10, AscendingInOrder
<1>12. Len(gs) # 0
  <2>1. PICK l : l \in Range(layers)
    BY <1>3
  <2>2. 0 \in 0..(experts - 1)
    BY <1>1 DEF experts
  <2>3. Range(gs) # {}
    BY <1>2, <2>1, <2>2
  <2> QED  BY <1>6, <2>3 DEF Range
<1> QED  BY <1>5, <1>11, <1>12 DEF gs, layers, experts

(***************************************************************************)
(* Groups are packed in the order they are listed in.                      *)
(***************************************************************************)

\* The first of the groups have their files, in order, and the rest are left.
InProgress(all, written, left) ==
    /\ Len(written) + Len(left) = Len(all)
    /\ \A m \in 1..Len(written) : written[m].file = ExpertFile(all[m])
    /\ \A m \in 1..Len(left) : left[m] = all[Len(written) + m]

GroupsInOrder ==
    phase \in {"packing", "published", "edited"} =>
        /\ InProgress(JobGroups(job), staged.experts, groups)
        /\ job.maxBuffer # 0

\* One group more.
LEMMA MoreProgress ==
    ASSUME NEW all, NEW written, NEW left, InProgress(all, written, left),
           IsBytes(written), IsBytes(left), left # <<>>,
           NEW file, file.file = ExpertFile(Head(left))
    PROVE  InProgress(all, Append(written, file), Tail(left))
<1> DEFINE S == {left[k] : k \in 1..Len(left)}
<1>1. Len(left) \in Nat /\ left \in Seq(S) /\ Len(written) \in Nat /\ IsList(written, Len(written))
  BY ListSeq DEF IsBytes
<1> HIDE DEF S
<1>2. /\ Len(left) # 0 /\ Head(left) = left[1]
      /\ Len(Tail(left)) = Len(left) - 1 /\ \A i \in 1..Len(Tail(left)) : Tail(left)[i] = left[i + 1]
  BY <1>1, EmptySeq, HeadTailProperties
<1> DEFINE more == Append(written, file)  rest == Tail(left)  n == Len(written)  k == Len(left)
<1>3. /\ IsList(more, n + 1) /\ \A i \in 1..n : more[i] = written[i]
      /\ more[n + 1] = file
  BY <1>1, ListAppend DEF Appends
<1>4. Len(more) = n + 1
  <2>1. n + 1 \in Nat
    BY <1>1
  <2> HIDE DEF more, n
  <2> QED  BY <1>3, <2>1, ListSeq
<1>5. /\ n + k = Len(all)
      /\ \A m \in 1..n : written[m].file = ExpertFile(all[m])
      /\ \A m \in 1..k : left[m] = all[n + m]
  BY DEF InProgress
<1>6. n \in Nat /\ k \in Nat /\ k # 0 /\ Len(rest) = k - 1 /\ file.file = ExpertFile(left[1])
  BY <1>1, <1>2
<1>7. \A i \in 1..(k - 1) : rest[i] = left[i + 1]
  BY <1>2
<1> HIDE DEF more, rest, n, k
<1>8. ASSUME NEW m \in 1..(n + 1) PROVE more[m].file = ExpertFile(all[m])
  <2>1. CASE m = n + 1
    <3>1. left[1] = all[n + 1]
      BY <1>5, <1>6
    <3> QED  BY <1>3, <1>6, <2>1, <3>1
  <2>2. CASE m # n + 1
    <3>1. m \in 1..n
      BY <1>6, <2>2
    <3> QED  BY <1>3, <1>5, <3>1
  <2> QED  BY <2>1, <2>2
<1>9. ASSUME NEW m \in 1..(k - 1) PROVE rest[m] = all[(n + 1) + m]
  <2>1. m + 1 \in 1..k /\ n + (m + 1) = (n + 1) + m
    BY <1>6
  <2>2. left[m + 1] = all[n + (m + 1)]
    BY <1>5, <2>1
  <2> QED  BY <1>7, <2>1, <2>2
<1>10. (n + 1) + (k - 1) = Len(all)
  BY <1>5, <1>6
<1>11. InProgress(all, more, rest)
  BY <1>4, <1>6, <1>8, <1>9, <1>10 DEF InProgress
<1> QED  BY <1>11 DEF more, rest

\* The order survives every step.
LEMMA ProgressStep == SourceOpened /\ BuffersKept /\ FilesKept /\ GroupsInOrder /\ [Next]_vars => GroupsInOrder'
<1> SUFFICES ASSUME SourceOpened, BuffersKept, FilesKept, GroupsInOrder, [Next]_vars
             PROVE  GroupsInOrder'
  OBVIOUS
<1>1. CASE OpenSource
  <2>1. phase' \in {"opened", "refused"}
    BY <1>1 DEF OpenSource, Refuse
  <2> QED  BY <2>1 DEF GroupsInOrder
<1>2. CASE ConvertDenseTensors
  <2>1. CASE phase' = "packing"
    <3>1. Opened(job, checkpoint) /\ phase = "opened" /\ IsModel(job.config) /\ job.config.experts \in Nat
      BY <1>2, CheckpointOpened DEF ConvertDenseTensors
    <3>2. checkpoint.config = job.config
      BY <3>1 DEF Opened
    <3>3. /\ UNCHANGED job /\ staged'.experts = staged.experts
          /\ groups' = GroupsOf(SparseLayers(job.config), job.config.experts, job.perFile)
          /\ job.perFile \in 1..job.config.experts /\ job.maxBuffer # 0
      <4>1. staged = [f \in StagedFields |-> staged[f]]
        BY DEF BuffersKept
      <4> QED  BY <1>2, <2>1, <3>2, <4>1 DEF ConvertDenseTensors, Refuse, StagedFields, ValidOptions
    <3>4. staged'.experts = <<>>
      BY <3>1, <3>3 DEF BuffersKept, Nothing
    <3>5. groups' = JobGroups(job') /\ IsBytes(JobGroups(job'))
      <4>1. IsBytes(JobGroups(job))
        BY <3>1, <3>3, JobGroupsCover
      <4> QED  BY <3>3, <4>1 DEF JobGroups
    <3>6. ASSUME NEW all, IsBytes(all) PROVE InProgress(all, <<>>, all)
      BY <3>6 DEF InProgress, IsBytes
    <3>7. InProgress(JobGroups(job'), staged'.experts, groups') /\ job'.maxBuffer # 0
      BY <3>3, <3>4, <3>5, <3>6
    <3> QED  BY <3>7, Zenon DEF GroupsInOrder
  <2>2. CASE phase' # "packing"
    <3>1. phase' = "refused"
      BY <1>2, <2>2 DEF ConvertDenseTensors, Refuse
    <3> QED  BY <3>1 DEF GroupsInOrder
  <2> QED  BY <2>1, <2>2
<1>3. CASE ConvertGroupOfExperts
  <2> DEFINE work == ConvertExperts(InDirectory(Source(job)), checkpoint, Head(groups), job, staged.scalar)
             file == [file |-> ExpertFile(Head(groups)), tensors |-> WritePackedRecords(work.records)]
  <2>1. CASE work = Refused
    <3>1. phase' = "refused"
      BY <1>3, <2>1 DEF ConvertGroupOfExperts, Refuse
    <3> QED  BY <3>1 DEF GroupsInOrder
  <2>2. CASE work # Refused
    <3>1. /\ UNCHANGED <<job, phase>> /\ groups' = Tail(groups) /\ groups # <<>> /\ phase = "packing"
          /\ staged' = [staged EXCEPT !.experts = Append(@, file), !.scalar = work.scalar,
                          !.peak = Max({@, work.peak}), !.live = Max({@, work.live})]
      BY <1>3, <2>2 DEF ConvertGroupOfExperts
    <3>2. staged = [f \in StagedFields |-> staged[f]] /\ IsBytes(groups)
      BY <3>1 DEF BuffersKept
    <3>3. IsBytes(staged.experts)
      BY <3>1 DEF FilesKept
    <3>4. file.file = ExpertFile(Head(groups))
      OBVIOUS
    <3> HIDE DEF work, file
    <3>5. staged'.experts = Append(staged.experts, file)
      BY <3>1, <3>2 DEF StagedFields
    <3>6. InProgress(JobGroups(job), staged.experts, groups) /\ job.maxBuffer # 0
      BY <3>1 DEF GroupsInOrder
    <3>7. InProgress(JobGroups(job), Append(staged.experts, file), Tail(groups))
      BY <3>1, <3>2, <3>3, <3>4, <3>6, MoreProgress
    <3>8. InProgress(JobGroups(job'), staged'.experts, groups') /\ job'.maxBuffer # 0
      BY <3>1, <3>5, <3>6, <3>7
    <3> QED  BY <3>8, Zenon DEF GroupsInOrder
  <2> QED  BY <2>1, <2>2
<1>4. ASSUME UNCHANGED <<job, staged, groups>>,
             phase' \in {"packing", "published", "edited"} => phase \in {"packing", "published", "edited"}
      PROVE  GroupsInOrder'
  <2>1. JobGroups(job)' = JobGroups(job)
    BY <1>4
  <2> QED  BY <1>4, <2>1 DEF GroupsInOrder
<1>5. CASE Publish \/ Edit \/ LoadResident \/ Open \/ Load \/ UNCHANGED vars
  <2>1. /\ UNCHANGED <<job, staged, groups>>
        /\ phase' \in {"packing", "published", "edited"} => phase \in {"packing", "published", "edited"}
    BY <1>5 DEF Publish, Edit, LoadResident, Open, Load, vars
  <2> QED  BY <1>4, <2>1
<1> QED  BY <1>1, <1>2, <1>3, <1>5 DEF Next, Finished

(***************************************************************************)
(* Counting the records.                                                   *)
(***************************************************************************)

\* Layers in order are all different.
LEMMA CountAscending ==
    ASSUME NEW n \in Nat, NEW s, IsList(s, n), Ascending(s, n)
    PROVE  IsFiniteSet(Range(s)) /\ Cardinality(Range(s)) = n
<1>1. ASSUME NEW i \in 1..n, NEW k \in 1..n, s[i] = s[k] PROVE i = k
  <2>1. s[i] \in Nat /\ s[k] \in Nat /\ (i < k => s[i] < s[k]) /\ (k < i => s[k] < s[i])
    BY DEF Ascending
  <2> QED  BY <1>1, <2>1
<1>2. Cardinality({s[k] : k \in 1..n}) = n
  BY <1>1, CountList
<1>3. Range(s) = {s[k] : k \in 1..n}
  BY ListRange
<1>4. IsFiniteSet({s[k] : k \in 1..n})
  <2> DEFINE f == [k \in 1..n |-> s[k]]  S == {s[k] : k \in 1..n}
  <2>1. f \in Surjection(1..n, S)
    BY DEF Surjection
  <2>2. IsFiniteSet(1..n)
    BY FS_Interval
  <2> HIDE DEF f, S
  <2>3. IsFiniteSet(S)
    BY <2>1, <2>2, FS_Surjection
  <2> QED  BY <2>3 DEF S
<1> QED  BY <1>2, <1>3, <1>4

\* One name for every expert of every layer.
LEMMA CountNames ==
    ASSUME NEW layers, IsFiniteSet(layers), NEW experts \in Nat
    PROVE  Cardinality({PackedName(x[1], x[2]) : x \in layers \X (0..(experts - 1))})
             = Cardinality(layers) * experts
<1> DEFINE P == layers \X (0..(experts - 1))  T == {PackedName(x[1], x[2]) : x \in P}
           f == [x \in P |-> PackedName(x[1], x[2])]
<1>1. f \in Bijection(P, T)
  <2>1. f \in [P -> T]
    OBVIOUS
  <2>2. ASSUME NEW a \in P, NEW b \in P, f[a] = f[b] PROVE a = b
    <3>1. <<a[1], a[2], "packed">> = <<b[1], b[2], "packed">>
      BY <2>2 DEF PackedName
    <3>2. a[1] = b[1] /\ a[2] = b[2]
      BY <3>1
    <3> QED  BY <3>2
  <2>3. \A t \in T : \E s \in P : f[s] = t
    OBVIOUS
  <2> HIDE DEF f, P, T
  <2> QED  BY <2>1, <2>2, <2>3 DEF Bijection, Injection, Surjection, IsInjective
<1>2. IsFiniteSet(0..(experts - 1)) /\ Cardinality(0..(experts - 1)) = experts
  BY FS_Interval
<1>3. IsFiniteSet(P) /\ Cardinality(P) = Cardinality(layers) * experts
  BY <1>2, FS_Product
<1>4. ExistsBijection(P, T)
  BY <1>1 DEF ExistsBijection
<1> HIDE DEF P, T
<1>5. Cardinality(T) = Cardinality(P)
  BY <1>3, <1>4, FS_Bijection
<1> QED  BY <1>3, <1>5 DEF P, T

(***************************************************************************)
(* Accepting a directory, for any family.                                  *)
(***************************************************************************)

\* What a manifest says.
States(m, c, options, scalar, dense, experts, tokenizer) ==
    /\ m.schema = c.family /\ m.dense = dense.digest /\ m.expert = experts.digest
    /\ m.scalar = scalar /\ m.hidden = c.hidden /\ m.intermediate = c.intermediate
    /\ m.layers = c.layers /\ m.experts = c.experts /\ m.perFile = options.perFile
    /\ m.denseFiles = dense.files /\ m.expertFiles = experts.files
    /\ m.tokenizer = tokenizer
    /\ c.family = "qwen3_5_moe" => m.capabilities = <<"text-generation">>

\* The manifests of the families say the same things.
LEMMA ManifestStates ==
    ASSUME NEW c, Detect(c), NEW options, NEW scalar, NEW source, NEW dense, NEW experts, NEW tokenizer
    PROVE  States(Manifest(c, options, scalar, source, dense, experts, tokenizer),
                  c, options, scalar, dense, experts, tokenizer)
<1>1. CASE c.family = "olmoe"
  BY <1>1 DEF Manifest, InFamily, O!Manifest, States
<1>2. CASE c.family = "qwen3_moe"
  BY <1>2 DEF Manifest, InFamily, Q3!Manifest, States
<1>3. CASE c.family = "qwen3_5_moe"
  BY <1>3 DEF Manifest, InFamily, Q35!Manifest, States
<1> QED  BY <1>1, <1>2, <1>3 DEF Detect

\* A manifest that goes with a configuration.
Fitting(m, c, tokenizer) ==
    /\ m.schema = c.family /\ m.tokenizer = tokenizer
    /\ c.family = "qwen3_5_moe" => m.capabilities = <<"text-generation">>
    /\ ManifestAgrees(m, MoeConfig(c), c.layers, Len(DenseNames(c)), Len(SparseLayers(c)))

\* Stores that hold what the manifest and the configuration ask for.
Holding(m, c, dense, experts) ==
    /\ DigestsHold(m, dense, experts)
    /\ FileInventory(dense, m.denseFiles) /\ FileInventory(experts, m.expertFiles)
    /\ DenseInventory(dense, DenseNames(c))
    /\ ExpertInventory(experts, MoeConfig(c), m.scalar, SparseLayers(c))

\* The families look at manifests and stores with the same operators.
LEMMA OlmoeInventory ==
    ASSUME NEW store, NEW moe, NEW scalar, NEW layers
    PROVE  O!ExpertInventory(store, moe, scalar, layers) = ExpertInventory(store, moe, scalar, layers)
<1>1. O!RecordBytes(O!SectionBytes(moe, scalar)) = RecordBytes(SectionBytes(moe, scalar))
  BY DEF O!RecordBytes, RecordBytes, O!SectionBytes, SectionBytes, O!ByteWidth, ByteWidth,
     O!HeaderBytes, HeaderBytes
<1>2. \A x : O!EncodedLength(x) = EncodedLength(x)
  BY DEF O!EncodedLength, EncodedLength, O!HeaderBytes, HeaderBytes
<1>3. \A l, e : O!PackedName(l, e) = PackedName(l, e)
  BY DEF O!PackedName, PackedName
<1>4. \A n : O!DoesFit(n) = DoesFit(n)
  BY DEF O!DoesFit, DoesFit
<1>5. \A S : O!Cardinality(S) = Cardinality(S)
  BY DEF O!Cardinality, Cardinality, O!IsFiniteSet, IsFiniteSet
<1> QED  BY <1>1, <1>2, <1>3, <1>4, <1>5, Zenon DEF O!ExpertInventory, ExpertInventory

\* OLMoE compares a manifest with a geometry as the others do.
LEMMA OlmoeAgrees ==
    ASSUME NEW m, NEW moe, NEW layers, NEW denseCount, NEW sparseCount
    PROVE  O!ManifestAgrees(m, moe, layers, denseCount, sparseCount)
             = ManifestAgrees(m, moe, layers, denseCount, sparseCount)
BY Zenon DEF O!ManifestAgrees, ManifestAgrees, O!ManifestFiles, ManifestFiles, O!IsInjective, IsInjective

\* Qwen3 looks at the experts of a store as the others do.
LEMMA Qwen3Inventory ==
    ASSUME NEW store, NEW moe, NEW scalar, NEW layers
    PROVE  Q3!ExpertInventory(store, moe, scalar, layers) = ExpertInventory(store, moe, scalar, layers)
<1>1. Q3!RecordBytes(Q3!SectionBytes(moe, scalar)) = RecordBytes(SectionBytes(moe, scalar))
  BY DEF Q3!RecordBytes, RecordBytes, Q3!SectionBytes, SectionBytes, Q3!ByteWidth, ByteWidth,
     Q3!HeaderBytes, HeaderBytes
<1>2. \A x : Q3!EncodedLength(x) = EncodedLength(x)
  BY DEF Q3!EncodedLength, EncodedLength, Q3!HeaderBytes, HeaderBytes
<1>3. \A l, e : Q3!PackedName(l, e) = PackedName(l, e)
  BY DEF Q3!PackedName, PackedName
<1>4. \A n : Q3!DoesFit(n) = DoesFit(n)
  BY DEF Q3!DoesFit, DoesFit
<1>5. \A S : Q3!Cardinality(S) = Cardinality(S)
  BY DEF Q3!Cardinality, Cardinality, Q3!IsFiniteSet, IsFiniteSet
<1> QED  BY <1>1, <1>2, <1>3, <1>4, <1>5, Zenon DEF Q3!ExpertInventory, ExpertInventory

\* Qwen3 compares a manifest with a geometry as the others do.
LEMMA Qwen3Agrees ==
    ASSUME NEW m, NEW moe, NEW layers, NEW denseCount, NEW sparseCount
    PROVE  Q3!ManifestAgrees(m, moe, layers, denseCount, sparseCount)
             = ManifestAgrees(m, moe, layers, denseCount, sparseCount)
BY Zenon DEF Q3!ManifestAgrees, ManifestAgrees, Q3!ManifestFiles, ManifestFiles, Q3!IsInjective, IsInjective

\* Qwen3.6 looks at the experts of a store as the others do.
LEMMA Qwen35Inventory ==
    ASSUME NEW store, NEW moe, NEW scalar, NEW layers
    PROVE  Q35!ExpertInventory(store, moe, scalar, layers) = ExpertInventory(store, moe, scalar, layers)
<1>1. Q35!RecordBytes(Q35!SectionBytes(moe, scalar)) = RecordBytes(SectionBytes(moe, scalar))
  BY DEF Q35!RecordBytes, RecordBytes, Q35!SectionBytes, SectionBytes, Q35!ByteWidth, ByteWidth,
     Q35!HeaderBytes, HeaderBytes
<1>2. \A x : Q35!EncodedLength(x) = EncodedLength(x)
  BY DEF Q35!EncodedLength, EncodedLength, Q35!HeaderBytes, HeaderBytes
<1>3. \A l, e : Q35!PackedName(l, e) = PackedName(l, e)
  BY DEF Q35!PackedName, PackedName
<1>4. \A n : Q35!DoesFit(n) = DoesFit(n)
  BY DEF Q35!DoesFit, DoesFit
<1>5. \A S : Q35!Cardinality(S) = Cardinality(S)
  BY DEF Q35!Cardinality, Cardinality, Q35!IsFiniteSet, IsFiniteSet
<1> QED  BY <1>1, <1>2, <1>3, <1>4, <1>5, Zenon DEF Q35!ExpertInventory, ExpertInventory

\* Qwen3.6 compares a manifest with a geometry as the others do.
LEMMA Qwen35Agrees ==
    ASSUME NEW m, NEW moe, NEW layers, NEW denseCount, NEW sparseCount
    PROVE  Q35!ManifestAgrees(m, moe, layers, denseCount, sparseCount)
             = ManifestAgrees(m, moe, layers, denseCount, sparseCount)
BY Zenon DEF Q35!ManifestAgrees, ManifestAgrees, Q35!ManifestFiles, ManifestFiles, Q35!IsInjective, IsInjective

\* OLMoE.
LEMMA OlmoeAccepts ==
    ASSUME NEW m, NEW c, c.family = "olmoe", c.layers \in Nat, NEW tokenizer, Fitting(m, c, tokenizer),
           NEW dense, NEW experts, Holding(m, c, dense, experts)
    PROVE  O!ValidateManifest(m, c, tokenizer) /\ O!Opens(m, c, dense, experts)
<1>1. /\ MoeConfig(c) = O!MoeConfig(c) /\ SparseLayers(c) = O!SparseLayers(c)
      /\ DenseNames(c) = O!DenseNames(c)
  BY DEF MoeConfig, SparseLayers, DenseNames, InFamily
<1>2. O!ValidateManifest(m, c, tokenizer)
  <2>1. Len(SparseLayers(c)) = c.layers
    <3>1. SparseLayers(c) = Indices(c.layers)
      BY <1>1, SharedIndices DEF O!SparseLayers
    <3> QED  BY <3>1, IndicesList
  <2>2. ManifestAgrees(m, O!MoeConfig(c), c.layers, Len(O!DenseNames(c)), c.layers)
    BY <1>1, <2>1 DEF Fitting
  <2>3. O!ManifestAgrees(m, O!MoeConfig(c), c.layers, Len(O!DenseNames(c)), c.layers)
    BY <2>2, OlmoeAgrees
  <2> QED  BY <2>3 DEF Fitting, O!ValidateManifest
<1>3. O!ValidateExperts(experts, c, m)
  <2>1. ExpertInventory(experts, O!MoeConfig(c), m.scalar, O!SparseLayers(c))
    BY <1>1 DEF Holding
  <2>2. O!ExpertInventory(experts, O!MoeConfig(c), m.scalar, O!SparseLayers(c))
    BY <2>1, OlmoeInventory
  <2> QED  BY <2>2 DEF O!ValidateExperts
<1>4. O!ValidateDense(dense, c)
  BY <1>1 DEF Holding, DenseInventory, Range, O!ValidateDense, O!DenseInventory, O!Range
<1>5. O!DigestsHold(m, dense, experts) /\ O!FileInventory(dense, m.denseFiles)
      /\ O!FileInventory(experts, m.expertFiles)
  BY DEF Holding, DigestsHold, FileInventory, O!DigestsHold, O!FileInventory
<1> QED  BY <1>2, <1>3, <1>4, <1>5 DEF O!Opens

\* Qwen3.
LEMMA Qwen3Accepts ==
    ASSUME NEW m, NEW c, c.family = "qwen3_moe", c.layers \in Nat, NEW tokenizer, Fitting(m, c, tokenizer),
           NEW dense, NEW experts, Holding(m, c, dense, experts)
    PROVE  Q3!ValidateManifest(m, c, tokenizer) /\ Q3!Opens(m, c, dense, experts)
<1>1. /\ MoeConfig(c) = Q3!MoeConfig(c) /\ SparseLayers(c) = Q3!SparseLayers(c)
      /\ DenseNames(c) = Q3!DenseNames(c)
  BY DEF MoeConfig, SparseLayers, DenseNames, InFamily
<1>2. Q3!ValidateManifest(m, c, tokenizer)
  <2>2. ManifestAgrees(m, Q3!MoeConfig(c), c.layers, Len(Q3!DenseNames(c)), Len(Q3!SparseLayers(c)))
    BY <1>1 DEF Fitting
  <2>3. Q3!ManifestAgrees(m, Q3!MoeConfig(c), c.layers, Len(Q3!DenseNames(c)), Len(Q3!SparseLayers(c)))
    BY <2>2, Qwen3Agrees
  <2> QED  BY <2>3 DEF Fitting, Q3!ValidateManifest
<1>3. Q3!ValidateExperts(experts, c, m)
  <2>1. ExpertInventory(experts, Q3!MoeConfig(c), m.scalar, Q3!SparseLayers(c))
    BY <1>1 DEF Holding
  <2>2. Q3!ExpertInventory(experts, Q3!MoeConfig(c), m.scalar, Q3!SparseLayers(c))
    BY <2>1, Qwen3Inventory
  <2> QED  BY <2>2 DEF Q3!ValidateExperts
<1>4. Q3!ValidateDense(dense, c)
  BY <1>1 DEF Holding, DenseInventory, Range, Q3!ValidateDense, Q3!DenseInventory, Q3!Range
<1>5. Q3!DigestsHold(m, dense, experts) /\ Q3!FileInventory(dense, m.denseFiles)
      /\ Q3!FileInventory(experts, m.expertFiles)
  BY DEF Holding, DigestsHold, FileInventory, Q3!DigestsHold, Q3!FileInventory
<1> QED  BY <1>2, <1>3, <1>4, <1>5 DEF Q3!Opens

\* Qwen3.6.
LEMMA Qwen35Accepts ==
    ASSUME NEW m, NEW c, c.family = "qwen3_5_moe", c.layers \in Nat, NEW tokenizer, Fitting(m, c, tokenizer),
           NEW dense, NEW experts, Holding(m, c, dense, experts)
    PROVE  Q35!ValidateManifest(m, c, tokenizer) /\ Q35!Opens(m, c, dense, experts)
<1>1. /\ MoeConfig(c) = Q35!MoeConfig(c) /\ SparseLayers(c) = Q35!SparseLayers(c)
      /\ DenseNames(c) = Q35!DenseNames(c)
  BY DEF MoeConfig, SparseLayers, DenseNames, InFamily
<1>2. Q35!ValidateManifest(m, c, tokenizer)
  <2>1. Len(SparseLayers(c)) = c.layers
    <3>1. SparseLayers(c) = Indices(c.layers)
      BY <1>1, SharedIndices DEF Q35!SparseLayers
    <3> QED  BY <3>1, IndicesList
  <2>2. ManifestAgrees(m, Q35!MoeConfig(c), c.layers, Len(Q35!DenseNames(c)), c.layers)
    BY <1>1, <2>1 DEF Fitting
  <2>3. Q35!ManifestAgrees(m, Q35!MoeConfig(c), c.layers, Len(Q35!DenseNames(c)), c.layers)
    BY <2>2, Qwen35Agrees
  <2> QED  BY <2>3 DEF Fitting, Q35!ValidateManifest
<1>3. Q35!ValidateExperts(experts, c, m)
  <2>1. ExpertInventory(experts, Q35!MoeConfig(c), m.scalar, Q35!SparseLayers(c))
    BY <1>1 DEF Holding
  <2>2. Q35!ExpertInventory(experts, Q35!MoeConfig(c), m.scalar, Q35!SparseLayers(c))
    BY <2>1, Qwen35Inventory
  <2> QED  BY <2>2 DEF Q35!ValidateExperts
<1>4. Q35!ValidateDense(dense, c)
  BY <1>1 DEF Holding, DenseInventory, Range, Q35!ValidateDense, Q35!DenseInventory, Q35!Range
<1>5. Q35!DigestsHold(m, dense, experts) /\ Q35!FileInventory(dense, m.denseFiles)
      /\ Q35!FileInventory(experts, m.expertFiles)
  BY DEF Holding, DigestsHold, FileInventory, Q35!DigestsHold, Q35!FileInventory
<1> QED  BY <1>2, <1>3, <1>4, <1>5 DEF Q35!Opens

\* A directory whose manifest and stores fit its configuration is accepted.
LEMMA DirectoryAccepts ==
    ASSUME NEW d, Detect(d.config), ConfigType(d.config), Validate(d.config),
           Fitting(d.manifest, d.config, d.tokenizer # None),
           Holding(d.manifest, d.config, OpenStore(d.dense), OpenStore(d.experts))
    PROVE  Accepts(d)
<1> DEFINE m == d.manifest  c == d.config  there == d.tokenizer # None
           dense == OpenStore(d.dense)  experts == OpenStore(d.experts)
<1>1. c.layers \in Nat
  BY Counted
<1>2. Fitting(m, c, there) /\ Holding(m, c, dense, experts) /\ Detect(c)
  OBVIOUS
<1> HIDE DEF m, c, there, dense, experts
<1>3. ASSUME c.family = "olmoe"
      PROVE  ValidateManifest(m, c, there) /\ Opens(m, c, dense, experts)
  <2>1. O!ValidateManifest(m, c, there) /\ O!Opens(m, c, dense, experts)
    BY <1>1, <1>2, <1>3, OlmoeAccepts
  <2> QED  BY <1>3, <2>1 DEF ValidateManifest, Opens, InFamily
<1>4. ASSUME c.family = "qwen3_moe"
      PROVE  ValidateManifest(m, c, there) /\ Opens(m, c, dense, experts)
  <2>1. Q3!ValidateManifest(m, c, there) /\ Q3!Opens(m, c, dense, experts)
    BY <1>1, <1>2, <1>4, Qwen3Accepts
  <2> QED  BY <1>4, <2>1 DEF ValidateManifest, Opens, InFamily
<1>5. ASSUME c.family = "qwen3_5_moe"
      PROVE  ValidateManifest(m, c, there) /\ Opens(m, c, dense, experts)
  <2>1. Q35!ValidateManifest(m, c, there) /\ Q35!Opens(m, c, dense, experts)
    BY <1>1, <1>2, <1>5, Qwen35Accepts
  <2> QED  BY <1>5, <2>1 DEF ValidateManifest, Opens, InFamily
<1>6. ValidateManifest(m, c, there) /\ Opens(m, c, dense, experts)
  BY <1>2, <1>3, <1>4, <1>5 DEF Detect
<1> QED  BY <1>6 DEF Accepts, m, c, there, dense, experts

(***************************************************************************)
(* Loading the streamed model, for any family.                             *)
(***************************************************************************)

\* What a streamed model asks of its stores.
Streamable(c, dense, experts) ==
    /\ Validate(c) /\ DoesFit(MaterializedBytes(dense))
    /\ Provides(DenseShapes(dense), ModelParameters(c))
    /\ StreamsExperts(experts, MoeConfig(c), SparseLayers(c))

\* OLMoE measures and streams as the others do.
LEMMA OlmoeStreams ==
    ASSUME NEW store, NEW moe, NEW layers
    PROVE  /\ O!StreamsExperts(store, moe, layers) = StreamsExperts(store, moe, layers)
           /\ O!DoesFit(O!MaterializedBytes(store)) = DoesFit(MaterializedBytes(store))
<1>1. \A x : O!EncodedLength(x) = EncodedLength(x)
  BY DEF O!EncodedLength, EncodedLength, O!HeaderBytes, HeaderBytes
<1>2. \A l, e : O!PackedName(l, e) = PackedName(l, e)
  BY DEF O!PackedName, PackedName
<1>3. O!StreamsExperts(store, moe, layers) = StreamsExperts(store, moe, layers)
  BY <1>1, <1>2, Zenon DEF O!StreamsExperts, StreamsExperts, O!HeaderBytes, HeaderBytes
<1>4. O!MaterializedBytes(store) = MaterializedBytes(store)
  BY Zenon DEF O!MaterializedBytes, MaterializedBytes, O!MapThenSumSet, MapThenSumSet,
     O!MapThenFoldSet, MapThenFoldSet, O!Elements, Elements
<1>5. O!DoesFit(O!MaterializedBytes(store)) = DoesFit(MaterializedBytes(store))
  BY <1>4 DEF O!DoesFit, DoesFit
<1> QED  BY <1>3, <1>5

\* A streamed OLMoE model finds in its stores what it asks for.
LEMMA OlmoeLoads ==
    ASSUME NEW c, c.family = "olmoe", NEW dense, NEW experts, Streamable(c, dense, experts)
    PROVE  LoadStreamingModel(c, dense, experts)
<1>1. /\ Validate(c) = O!Validate(c) /\ MoeConfig(c) = O!MoeConfig(c)
      /\ SparseLayers(c) = O!SparseLayers(c) /\ ModelParameters(c) = O!ModelParameters(c)
  BY DEF Validate, MoeConfig, SparseLayers, ModelParameters, InFamily
<1>2. StreamsExperts(experts, O!MoeConfig(c), O!SparseLayers(c))
  BY <1>1 DEF Streamable
<1>3. O!StreamsExperts(experts, O!MoeConfig(c), O!SparseLayers(c))
  BY <1>2, OlmoeStreams
<1>4. O!DoesFit(O!MaterializedBytes(dense))
  BY OlmoeStreams DEF Streamable
<1>5. Provides(DenseShapes(dense), O!ModelParameters(c))
  BY <1>1 DEF Streamable
<1>6. O!Provides(O!DenseShapes(dense), O!ModelParameters(c))
  BY <1>5, SharedInventories
<1>7. O!Validate(c)
  BY <1>1 DEF Streamable
<1>8. O!LoadStreaming(c, dense, experts)
  BY <1>3, <1>4, <1>6, <1>7 DEF O!LoadStreaming
<1> QED  BY <1>8 DEF LoadStreamingModel, InFamily

\* Qwen3 measures and streams as the others do.
LEMMA Qwen3Streams ==
    ASSUME NEW store, NEW moe, NEW layers
    PROVE  /\ Q3!StreamsExperts(store, moe, layers) = StreamsExperts(store, moe, layers)
           /\ Q3!DoesFit(Q3!MaterializedBytes(store)) = DoesFit(MaterializedBytes(store))
<1>1. \A x : Q3!EncodedLength(x) = EncodedLength(x)
  BY DEF Q3!EncodedLength, EncodedLength, Q3!HeaderBytes, HeaderBytes
<1>2. \A l, e : Q3!PackedName(l, e) = PackedName(l, e)
  BY DEF Q3!PackedName, PackedName
<1>3. Q3!StreamsExperts(store, moe, layers) = StreamsExperts(store, moe, layers)
  BY <1>1, <1>2, Zenon DEF Q3!StreamsExperts, StreamsExperts, Q3!HeaderBytes, HeaderBytes
<1>4. Q3!MaterializedBytes(store) = MaterializedBytes(store)
  BY Zenon DEF Q3!MaterializedBytes, MaterializedBytes, Q3!MapThenSumSet, MapThenSumSet,
     Q3!MapThenFoldSet, MapThenFoldSet, Q3!Elements, Elements
<1>5. Q3!DoesFit(Q3!MaterializedBytes(store)) = DoesFit(MaterializedBytes(store))
  BY <1>4 DEF Q3!DoesFit, DoesFit
<1> QED  BY <1>3, <1>5

\* A streamed Qwen3 model finds in its stores what it asks for.
LEMMA Qwen3Loads ==
    ASSUME NEW c, c.family = "qwen3_moe", NEW dense, NEW experts, Streamable(c, dense, experts)
    PROVE  LoadStreamingModel(c, dense, experts)
<1>1. /\ Validate(c) = Q3!Validate(c) /\ MoeConfig(c) = Q3!MoeConfig(c)
      /\ SparseLayers(c) = Q3!SparseLayers(c) /\ ModelParameters(c) = Q3!ModelParameters(c)
  BY DEF Validate, MoeConfig, SparseLayers, ModelParameters, InFamily
<1>2. StreamsExperts(experts, Q3!MoeConfig(c), Q3!SparseLayers(c))
  BY <1>1 DEF Streamable
<1>3. Q3!StreamsExperts(experts, Q3!MoeConfig(c), Q3!SparseLayers(c))
  BY <1>2, Qwen3Streams
<1>4. Q3!DoesFit(Q3!MaterializedBytes(dense))
  BY Qwen3Streams DEF Streamable
<1>5. Provides(DenseShapes(dense), Q3!ModelParameters(c))
  BY <1>1 DEF Streamable
<1>6. Q3!Provides(Q3!DenseShapes(dense), Q3!ModelParameters(c))
  BY <1>5, SharedInventories
<1>7. Q3!Validate(c)
  BY <1>1 DEF Streamable
<1>8. Q3!LoadStreaming(c, dense, experts)
  BY <1>3, <1>4, <1>6, <1>7 DEF Q3!LoadStreaming
<1> QED  BY <1>8 DEF LoadStreamingModel, InFamily

\* Qwen3.6 measures and streams as the others do.
LEMMA Qwen35Streams ==
    ASSUME NEW store, NEW moe, NEW layers
    PROVE  /\ Q35!StreamsExperts(store, moe, layers) = StreamsExperts(store, moe, layers)
           /\ Q35!DoesFit(Q35!MaterializedBytes(store)) = DoesFit(MaterializedBytes(store))
<1>1. \A x : Q35!EncodedLength(x) = EncodedLength(x)
  BY DEF Q35!EncodedLength, EncodedLength, Q35!HeaderBytes, HeaderBytes
<1>2. \A l, e : Q35!PackedName(l, e) = PackedName(l, e)
  BY DEF Q35!PackedName, PackedName
<1>3. Q35!StreamsExperts(store, moe, layers) = StreamsExperts(store, moe, layers)
  BY <1>1, <1>2, Zenon DEF Q35!StreamsExperts, StreamsExperts, Q35!HeaderBytes, HeaderBytes
<1>4. Q35!MaterializedBytes(store) = MaterializedBytes(store)
  BY Zenon DEF Q35!MaterializedBytes, MaterializedBytes, Q35!MapThenSumSet, MapThenSumSet,
     Q35!MapThenFoldSet, MapThenFoldSet, Q35!Elements, Elements
<1>5. Q35!DoesFit(Q35!MaterializedBytes(store)) = DoesFit(MaterializedBytes(store))
  BY <1>4 DEF Q35!DoesFit, DoesFit
<1> QED  BY <1>3, <1>5

\* A streamed Qwen3.6 model finds in its stores what it asks for.
LEMMA Qwen35Loads ==
    ASSUME NEW c, c.family = "qwen3_5_moe", NEW dense, NEW experts, Streamable(c, dense, experts)
    PROVE  LoadStreamingModel(c, dense, experts)
<1>1. /\ Validate(c) = Q35!Validate(c) /\ MoeConfig(c) = Q35!MoeConfig(c)
      /\ SparseLayers(c) = Q35!SparseLayers(c) /\ ModelParameters(c) = Q35!ModelParameters(c)
  BY DEF Validate, MoeConfig, SparseLayers, ModelParameters, InFamily
<1>2. StreamsExperts(experts, Q35!MoeConfig(c), Q35!SparseLayers(c))
  BY <1>1 DEF Streamable
<1>3. Q35!StreamsExperts(experts, Q35!MoeConfig(c), Q35!SparseLayers(c))
  BY <1>2, Qwen35Streams
<1>4. Q35!DoesFit(Q35!MaterializedBytes(dense))
  BY Qwen35Streams DEF Streamable
<1>5. Provides(DenseShapes(dense), Q35!ModelParameters(c))
  BY <1>1 DEF Streamable
<1>6. Q35!Provides(Q35!DenseShapes(dense), Q35!ModelParameters(c))
  BY <1>5, SharedInventories
<1>7. Q35!Validate(c)
  BY <1>1 DEF Streamable
<1>8. Q35!LoadStreaming(c, dense, experts)
  BY <1>3, <1>4, <1>6, <1>7 DEF Q35!LoadStreaming
<1> QED  BY <1>8 DEF LoadStreamingModel, InFamily

\* A model of any family streams from stores that have what it asks for.
LEMMA ModelStreams ==
    ASSUME NEW c, Detect(c), NEW dense, NEW experts, Streamable(c, dense, experts)
    PROVE  LoadStreamingModel(c, dense, experts)
BY OlmoeLoads, Qwen3Loads, Qwen35Loads DEF Detect

\* The tensors a resident model is made of have the shapes of its parameters.
HasShapes(t, shapes) ==
    \A name \in DOMAIN shapes : name \in DOMAIN t /\ t[name].shape = shapes[name]

\* A resident OLMoE model has tensors of the shapes of its parameters.
LEMMA OlmoeShapes ==
    ASSUME NEW s, NEW k, NEW t, t = O!LoadResident(s, k), t # Refused
    PROVE  HasShapes(t, O!ModelParameters(k.config))
<1> DEFINE shapes == O!ModelParameters(k.config)
<1>1. PICK rest : O!Provides(O!Shapes(t), O!Joined(shapes, rest))
  BY DEF O!LoadResident
<1>2. O!Joined(shapes, rest) = Joined(shapes, rest)
  BY SharedJoined
<1> HIDE DEF shapes
<1>3. ASSUME NEW name \in DOMAIN shapes PROVE name \in DOMAIN t /\ t[name].shape = shapes[name]
  <2>1. name \in DOMAIN Joined(shapes, rest) /\ Joined(shapes, rest)[name] = shapes[name]
    BY JoinedFirst
  <2>2. name \in DOMAIN O!Shapes(t) /\ O!Shapes(t)[name] = shapes[name]
    BY <1>1, <1>2, <2>1, SMTT(30) DEF O!Provides
  <2> QED  BY <2>2 DEF O!Shapes
<1> QED  BY <1>3 DEF HasShapes, shapes

\* A resident Qwen3 model has tensors of the shapes of its parameters.
LEMMA Qwen3Shapes ==
    ASSUME NEW s, NEW k, NEW t, t = Q3!LoadResident(s, k), t # Refused
    PROVE  HasShapes(t, Q3!ModelParameters(k.config))
<1> DEFINE shapes == Q3!ModelParameters(k.config)
<1>1. PICK rest : Q3!Provides(Q3!Shapes(t), Q3!Joined(shapes, rest))
  BY DEF Q3!LoadResident
<1>2. Q3!Joined(shapes, rest) = Joined(shapes, rest)
  BY SharedJoined
<1> HIDE DEF shapes
<1>3. ASSUME NEW name \in DOMAIN shapes PROVE name \in DOMAIN t /\ t[name].shape = shapes[name]
  <2>1. name \in DOMAIN Joined(shapes, rest) /\ Joined(shapes, rest)[name] = shapes[name]
    BY JoinedFirst
  <2>2. name \in DOMAIN Q3!Shapes(t) /\ Q3!Shapes(t)[name] = shapes[name]
    BY <1>1, <1>2, <2>1 DEF Q3!Provides
  <2> QED  BY <2>2 DEF Q3!Shapes
<1> QED  BY <1>3 DEF HasShapes, shapes

\* A resident Qwen3.6 model has tensors of the shapes of its parameters.
LEMMA Qwen35Shapes ==
    ASSUME NEW s, NEW k, NEW t, t = Q35!LoadResident(s, k), t # Refused
    PROVE  HasShapes(t, Q35!ModelParameters(k.config))
<1> DEFINE shapes == Q35!ModelParameters(k.config)
<1>1. PICK rest : Q35!Provides(Q35!Shapes(t), Q35!Joined(shapes, rest))
  BY DEF Q35!LoadResident
<1>2. Q35!Joined(shapes, rest) = Joined(shapes, rest)
  BY SharedJoined
<1> HIDE DEF shapes
<1>3. ASSUME NEW name \in DOMAIN shapes PROVE name \in DOMAIN t /\ t[name].shape = shapes[name]
  <2>1. name \in DOMAIN Joined(shapes, rest) /\ Joined(shapes, rest)[name] = shapes[name]
    BY JoinedFirst
  <2>2. name \in DOMAIN Q35!Shapes(t) /\ Q35!Shapes(t)[name] = shapes[name]
    BY <1>1, <1>2, <2>1 DEF Q35!Provides
  <2> QED  BY <2>2 DEF Q35!Shapes
<1> QED  BY <1>3 DEF HasShapes, shapes

\* So for a resident model of any family.
LEMMA ResidentShapes ==
    ASSUME NEW s, NEW k, Detect(k.config), NEW t, t = LoadResidentModel(s, k), t # Refused
    PROVE  HasShapes(t, ModelParameters(k.config))
<1>1. CASE k.config.family = "olmoe"
  <2>1. t = O!LoadResident(s, k) /\ ModelParameters(k.config) = O!ModelParameters(k.config)
    BY <1>1 DEF LoadResidentModel, ModelParameters, InFamily
  <2> QED  BY <2>1, OlmoeShapes
<1>2. CASE k.config.family = "qwen3_moe"
  <2>1. t = Q3!LoadResident(s, k) /\ ModelParameters(k.config) = Q3!ModelParameters(k.config)
    BY <1>2 DEF LoadResidentModel, ModelParameters, InFamily
  <2> QED  BY <2>1, Qwen3Shapes
<1>3. CASE k.config.family = "qwen3_5_moe"
  <2>1. t = Q35!LoadResident(s, k) /\ ModelParameters(k.config) = Q35!ModelParameters(k.config)
    BY <1>3 DEF LoadResidentModel, ModelParameters, InFamily
  <2> QED  BY <2>1, Qwen35Shapes
<1> QED  BY <1>1, <1>2, <1>3 DEF Detect

(***************************************************************************)
(* The published directory.                                                *)
(***************************************************************************)

\* The directory that job j leaves behind with the files s.
PublishedAs(d, j, s) ==
    d = [config |-> j.config, tokenizer |-> j.tokenizer, links |-> FALSE,
         dense |-> OnDisk(s.dense), experts |-> OnDisk(s.experts),
         manifest |-> Manifest(j.config, j, s.scalar, j, Recorded(s.dense), Recorded(s.experts),
                               j.tokenizer # None)]

PublishedKept ==
    phase = "published" =>
        /\ PublishedAs(directory, job, staged)
        /\ job.tokenizer # None => LoadTokenizer(job.tokenizer, job.config.vocab)

\* It is what was published until it is changed.
LEMMA PublishedStep == SourceOpened /\ PublishedKept /\ [Next]_vars => PublishedKept'
<1> SUFFICES ASSUME SourceOpened, PublishedKept, [Next]_vars
             PROVE  PublishedKept'
  OBVIOUS
<1>1. CASE Publish
  <2>1. CASE phase' # "published"
    BY <2>1 DEF PublishedKept
  <2>2. CASE phase' = "published"
    <3>1. Opened(job, checkpoint)
      BY <1>1, CheckpointOpened DEF Publish
    <3>2. checkpoint.config = job.config
      BY <3>1 DEF Opened
    <3>3. UNCHANGED <<job, staged>>
      BY <1>1 DEF Publish
    <3>4. job.tokenizer # None => LoadTokenizer(job.tokenizer, job.config.vocab)
      BY <1>1, <2>2, <3>2 DEF Publish, Refuse
    <3>5. directory' =
            [config |-> job.config, tokenizer |-> job.tokenizer, links |-> FALSE,
             dense |-> OnDisk(staged.dense), experts |-> OnDisk(staged.experts),
             manifest |-> Manifest(job.config, job, staged.scalar, job, Recorded(staged.dense),
                                   Recorded(staged.experts), job.tokenizer # None)]
      <4>1. ~(job.tokenizer # None /\ ~LoadTokenizer(job.tokenizer, job.config.vocab))
        BY <3>4
      <4> QED  BY <1>1, <3>2, <4>1, Zenon DEF Publish
    <3>6. PublishedAs(directory', job, staged)
      BY <3>5 DEF PublishedAs
    <3>7. PublishedAs(directory', job', staged') /\ (job.tokenizer # None => LoadTokenizer(job.tokenizer, job.config.vocab))'
      BY <3>3, <3>4, <3>6
    <3> QED  BY <3>7 DEF PublishedKept
  <2> QED  BY <2>1, <2>2
<1>2. CASE OpenSource \/ ConvertDenseTensors \/ ConvertGroupOfExperts \/ Edit
  <2>1. phase' # "published"
    BY <1>2 DEF OpenSource, ConvertDenseTensors, ConvertGroupOfExperts, Edit, Refuse
  <2> QED  BY <2>1 DEF PublishedKept
<1>3. CASE LoadResident \/ Open \/ Load \/ UNCHANGED vars
  <2>1. UNCHANGED <<job, phase, staged, directory>>
    BY <1>3 DEF LoadResident, Open, Load, vars
  <2>2. PublishedAs(directory, job, staged)' = PublishedAs(directory, job, staged)
    BY <2>1
  <2>3. LoadTokenizer(job.tokenizer, job.config.vocab)' = LoadTokenizer(job.tokenizer, job.config.vocab)
    BY <2>1
  <2> QED  BY <2>1, <2>2, <2>3 DEF PublishedKept
<1> QED  BY <1>1, <1>2, <1>3 DEF Next, Finished

\* A store lists n files, in the order in which they are recorded, and each once.
Listed(written, n) ==
    LET files == Recorded(written).files IN
    /\ OpenStore(OnDisk(written)).files = files /\ ManifestFiles(files) /\ Len(files) = n

\* It does if they were written in order.
LEMMA WrittenListed ==
    ASSUME NEW n \in Nat, n # 0, NEW written, IsList(written, n),
           NEW w, w = [m \in 1..n |-> written[m].file], InOrder(w, n)
    PROVE  Listed(written, n)
<1>1. Recorded(written).files = w /\ OpenStore(OnDisk(written)).files = w
  BY ListedAsWritten
<1>2. IsList(w, n)
  BY DEF IsList
<1>3. Len(w) = n
  BY <1>2, ListSeq
<1>4. IsInjective(w) /\ w # <<>>
  BY <1>2, InOrderInjective
<1> QED  BY <1>1, <1>3, <1>4 DEF Listed, ManifestFiles

\* The dense files of a job.
LEMMA DenseListed ==
    ASSUME SourceOpened, FilesKept, phase = "published"
    PROVE  Listed(staged.dense, Len(DenseNames(job.config)))
<1> DEFINE names == DenseNames(job.config)  all == InDirectory(Source(job))
<1>1. /\ Opened(job, checkpoint) /\ ConfigType(job.config) /\ Validate(job.config)
      /\ IsModel(job.config)
  BY CheckpointOpened
<1>2. job \in Jobs /\ Detect(job.config)
  BY <1>1 DEF Opened
<1>3. Len(names) <= 100000
  BY <1>1, <1>2, NamesAssumption
<1>4. /\ Len(names) \in Nat /\ IsList(names, Len(names))
      /\ DOMAIN ModelParameters(job.config) = Range(names)
      /\ <<"embed">> \in DOMAIN ModelParameters(job.config)
  BY <1>1 DEF IsModel
<1>5. staged.dense = ConvertDense(all, names, job.maxBuffer) /\ staged.dense # Refused
  BY DEF FilesKept
<1>6. PICK n : n = Len(names)
  OBVIOUS
<1> HIDE DEF names, all
<1>7. IsDense(staged.dense, all, names, job.maxBuffer)
  BY <1>5, DenseConverted
<1>8. DOMAIN names = 1..n /\ n \in Nat
  BY <1>4, <1>6, ListSeq
<1>9. n # 0
  BY <1>4, <1>8 DEF Range
<1>10. IsList(staged.dense, n)
  <2>1. staged.dense = [m \in DOMAIN names |-> [file |-> DenseFile(m - 1),
            tensors |-> [name \in {names[m]} |-> WriteRawTensor(all, name, job.maxBuffer)]]]
    BY <1>5 DEF ConvertDense
  <2> QED  BY <1>8, <2>1, Zenon DEF IsList
<1>11. PICK w : w = [m \in 1..n |-> DenseFile(m - 1)]
  OBVIOUS
<1>12. InOrder(w, n)
  BY <1>3, <1>6, <1>8, <1>11, DenseInOrder
<1>13. w = [m \in 1..n |-> staged.dense[m].file]
  BY <1>7, <1>8, <1>11 DEF IsDense
<1>14. Listed(staged.dense, n)
  BY <1>8, <1>9, <1>10, <1>12, <1>13, WrittenListed
<1> QED  BY <1>6, <1>14 DEF names

\* The files of experts of a job.
LEMMA ExpertsListed ==
    ASSUME SourceOpened, FilesKept, GroupsInOrder, phase = "published"
    PROVE  /\ Listed(staged.experts,
                     Len(SparseLayers(job.config)) * GroupCount(job.config.experts, job.perFile))
           /\ staged.scalar \in Scalars
<1> DEFINE gs == JobGroups(job)  written == staged.experts
<1>1. /\ Opened(job, checkpoint) /\ ConfigType(job.config) /\ Validate(job.config)
      /\ IsModel(job.config) /\ job.config.experts \in Nat
  BY CheckpointOpened
<1>2. job \in Jobs /\ Detect(job.config)
  BY <1>1 DEF Opened
<1>3. /\ job.perFile \in 1..job.config.experts /\ IsBytes(written) /\ groups = <<>>
      /\ \A w \in Range(written) : WellWritten(job, checkpoint, staged.scalar, w)
  BY DEF FilesKept
<1>4. InProgress(gs, written, <<>>)
  BY <1>3 DEF GroupsInOrder
<1>5. PICK w : w = [m \in 1..Len(gs) |-> ExpertFile(gs[m])]
  OBVIOUS
<1>6. /\ InOrder(w, Len(gs)) /\ Len(gs) # 0
      /\ Len(gs) = Len(SparseLayers(job.config)) * GroupCount(job.config.experts, job.perFile)
  BY <1>1, <1>2, <1>3, <1>5, ExpertsInOrder
<1> HIDE DEF gs, written
<1>7. /\ Len(written) = Len(gs) /\ Len(gs) \in Nat /\ IsList(written, Len(gs))
      /\ \A m \in 1..Len(gs) : written[m].file = ExpertFile(gs[m])
  BY <1>3, <1>4 DEF InProgress, IsBytes
<1>8. w = [m \in 1..Len(gs) |-> written[m].file]
  BY <1>5, <1>7
<1>9. Listed(written, Len(gs))
  BY <1>6, <1>7, <1>8, WrittenListed
<1>10. staged.scalar \in Scalars
  <2>1. 1 \in DOMAIN written
    BY <1>6, <1>7, ListSeq
  <2>2. written[1] \in Range(written)
    BY <2>1 DEF Range
  <2>3. WellWritten(job, checkpoint, staged.scalar, written[1])
    BY <1>3, <2>2
  <2> QED  BY <2>3 DEF WellWritten, WellRead
<1> QED  BY <1>6, <1>9, <1>10 DEF written

(***************************************************************************)
(* What is published can be used.                                          *)
(***************************************************************************)

\* Where range k of a tensor that is copied in chunks ends.
Reaches(rs, bytes, chunk, count) ==
    /\ IsList(rs, count)
    /\ \A k \in 1..count :
         /\ rs[k][1] = (k - 1) * chunk
         /\ rs[k][1] + rs[k][2] = IF k = count THEN bytes ELSE k * chunk

\* The bounds of the number of chunks.
LEMMA ChunkBounds ==
    ASSUME NEW bytes \in Nat, NEW chunk \in Nat, chunk # 0,
           NEW count, count = (bytes + chunk - 1) \div chunk
    PROVE  /\ count \in Nat /\ bytes <= count * chunk /\ (count = 0 => bytes = 0)
           /\ count # 0 => (count - 1) * chunk < bytes
<1>1. PICK a \in Nat : a = bytes + chunk - 1
  OBVIOUS
<1>2. count \in Nat /\ count * chunk <= a /\ a < count * chunk + chunk
  BY <1>1, QuotientBounds
<1>3. PICK total \in Nat : total = count * chunk
  BY <1>2, ProductGrows
<1>4. bytes <= total
  BY <1>1, <1>2, <1>3
<1>5. count = 0 => total = 0
  BY <1>3
<1>6. ASSUME count # 0 PROVE (count - 1) * chunk < bytes
  <2>1. (count - 1) * chunk = total - chunk
    BY <1>2, <1>3
  <2> QED  BY <1>1, <1>2, <1>3, <2>1
<1> QED  BY <1>2, <1>3, <1>4, <1>5, <1>6

\* The ranges follow one another and reach the end.
LEMMA RangesReach ==
    ASSUME NEW bytes \in Nat, NEW chunk \in Nat, chunk # 0,
           NEW count, count = (bytes + chunk - 1) \div chunk,
           NEW rs, rs = Ranges(bytes, chunk)
    PROVE  Reaches(rs, bytes, chunk, count)
<1>1. /\ count \in Nat /\ bytes <= count * chunk
      /\ count # 0 => (count - 1) * chunk < bytes
  BY ChunkBounds
<1>2. rs = [k \in 1..count |-> <<(k - 1) * chunk, Min({chunk, bytes - (k - 1) * chunk})>>]
  BY DEF Ranges
<1>3. IsList(rs, count)
  BY <1>2, Zenon DEF IsList
<1>4. ASSUME NEW k \in 1..count
      PROVE  /\ rs[k][1] = (k - 1) * chunk
             /\ rs[k][1] + rs[k][2] = IF k = count THEN bytes ELSE k * chunk
  <2>1. PICK from \in Nat : from = (k - 1) * chunk
    <3>1. k - 1 \in Nat
      BY <1>1
    <3> QED  BY <3>1, ProductGrows
  <2>2. PICK to \in Nat : to = k * chunk
    <3>1. k \in Nat
      BY <1>1
    <3> QED  BY <3>1, ProductGrows
  <2>3. to = from + chunk
    BY <1>1, <2>1, <2>2
  <2>4. rs[k][1] = from /\ rs[k][2] = Min({chunk, bytes - from})
    BY <1>2, <2>1
  <2>5. rs[k][2] = IF chunk <= bytes - from THEN chunk ELSE bytes - from
    BY <2>4, MinOfTwo
  <2>6. ASSUME k # count PROVE to <= bytes
    <3>1. k <= count - 1 /\ count - 1 \in Nat /\ k \in Nat
      BY <1>1, <2>6
    <3>2. k * chunk <= (count - 1) * chunk /\ (count - 1) * chunk \in Nat
      BY <3>1, ProductGrows
    <3>3. (count - 1) * chunk < bytes
      BY <1>1, <3>1
    <3> QED  BY <2>2, <3>2, <3>3
  <2>7. k = count => bytes <= to
    BY <1>1, <2>2
  <2>8. from + rs[k][2] = IF k = count THEN bytes ELSE to
    BY <2>3, <2>5, <2>6, <2>7
  <2> QED  BY <2>1, <2>2, <2>4, <2>8
<1> QED  BY <1>3, <1>4 DEF Reaches

\* Such ranges are a whole copy.
LEMMA CopyIsWhole ==
    ASSUME NEW copy, Size(copy.source) \in Nat, NEW chunk \in Nat, chunk # 0,
           copy.ranges = Ranges(Size(copy.source), chunk)
    PROVE  WholeCopy(copy)
<1>1. PICK bytes \in Nat : bytes = Size(copy.source)
  OBVIOUS
<1>2. PICK count : count = (bytes + chunk - 1) \div chunk
  OBVIOUS
<1>3. PICK rs : rs = copy.ranges
  OBVIOUS
<1>4. Reaches(rs, bytes, chunk, count)
  BY <1>1, <1>2, <1>3, RangesReach
<1>5. count \in Nat /\ (count = 0 => bytes = 0)
  BY <1>1, <1>2, ChunkBounds
<1>6. DOMAIN rs = 1..count /\ Len(rs) = count
  BY <1>4, <1>5, ListSeq DEF Reaches
<1> DEFINE End(k) == IF k = 0 THEN 0 ELSE rs[k][1] + rs[k][2]
<1>7. ASSUME NEW k \in 1..count PROVE rs[k][1] = End(k - 1)
  <2>1. rs[k][1] = (k - 1) * chunk
    BY <1>4 DEF Reaches
  <2>2. CASE k = 1
    <3>1. (k - 1) * chunk = 0
      BY <2>2
    <3> QED  BY <2>1, <2>2, <3>1
  <2>3. CASE k # 1
    <3>1. k - 1 \in 1..count /\ k - 1 # count /\ k - 1 # 0
      BY <1>5, <2>3
    <3>2. rs[k - 1][1] + rs[k - 1][2] = (k - 1) * chunk
      BY <1>4, <3>1 DEF Reaches
    <3> QED  BY <2>1, <3>1, <3>2
  <2> QED  BY <2>2, <2>3
<1>8. End(count) = bytes
  <2>1. CASE count = 0
    BY <1>5, <2>1
  <2>2. CASE count # 0
    <3>1. count \in 1..count
      BY <1>5, <2>2
    <3> QED  BY <1>4, <2>2, <3>1 DEF Reaches
  <2> QED  BY <2>1, <2>2
<1> QED  BY <1>1, <1>3, <1>6, <1>7, <1>8 DEF WholeCopy

\* Every dense tensor a conversion leaves behind is whole.
LEMMA DenseWhole ==
    ASSUME SourceOpened, FilesKept, GroupsInOrder, phase = "published",
           NEW files, files = OnDisk(staged.dense),
           NEW f \in DOMAIN files, NEW t \in DOMAIN files[f]
    PROVE  WholeCopy(files[f][t])
<1>1. /\ Opened(job, checkpoint) /\ Validate(job.config) /\ IsModel(job.config)
  BY CheckpointOpened
<1>2. job \in Jobs /\ Detect(job.config)
  BY <1>1 DEF Opened
<1>3. PICK names : names = DenseNames(job.config)
  OBVIOUS
<1>4. PICK N : N = Len(names)
  OBVIOUS
<1>5. N \in Nat /\ DOMAIN names = 1..N /\ N <= 100000
  <2>1. N \in Nat /\ IsList(names, N)
    BY <1>1, <1>3, <1>4 DEF IsModel
  <2>2. DOMAIN names = 1..N
    BY <2>1, ListSeq
  <2>3. Len(DenseNames(job.config)) <= 100000
    BY <1>1, <1>2, NamesAssumption
  <2> QED  BY <1>3, <1>4, <2>1, <2>2, <2>3
<1>6. PICK source : source = InDirectory(Source(job))
  OBVIOUS
<1>7. PICK written : written = staged.dense
  OBVIOUS
<1>8. PICK chunk : chunk = job.maxBuffer
  OBVIOUS
<1>9. chunk \in Nat /\ chunk # 0
  BY <1>2, <1>8, JobBase DEF GroupsInOrder
<1>10. written = ConvertDense(source, names, chunk) /\ written # Refused
  BY <1>3, <1>6, <1>7, <1>8 DEF FilesKept
<1>11. IsDense(written, source, names, chunk)
  BY <1>10, DenseConverted
<1>12. AreFiles(files, written, N)
  BY <1>5, <1>7, <1>11, DenseOnDisk
<1>13. PICK n \in 1..N : f = DenseFile(n - 1) /\ files[f] = written[n].tensors
  BY <1>12 DEF AreFiles
<1>14. t = names[n] /\ files[f][t] = WriteRawTensor(source, t, chunk)
  BY <1>5, <1>11, <1>13 DEF IsDense
<1>15. t \in DOMAIN source
  BY <1>5, <1>10, <1>13, <1>14 DEF ConvertDense, CanWriteRaw
<1>16. Size(source[t]) \in Nat
  <2>1. source[t].shape \in Seq(Nat)
    BY <1>2, <1>6, <1>15, DirectoryTensors DEF ShapeSet
  <2>2. Elements(source[t].shape) \in Nat
    BY <2>1, ElementsNat
  <2>3. ByteWidth(source[t].scalar) \in Nat
    BY DEF ByteWidth
  <2>4. \A a, b \in Nat : a * b \in Nat
    OBVIOUS
  <2> QED  BY <2>2, <2>3, <2>4 DEF Size
<1>17. PICK copy : copy = files[f][t]
  OBVIOUS
<1>18. copy.source = source[t] /\ copy.ranges = Ranges(Size(source[t]), chunk)
  BY <1>14, <1>17 DEF WriteRawTensor
<1>19. WholeCopy(copy)
  BY <1>9, <1>16, <1>18, CopyIsWhole
<1> QED  BY <1>17, <1>19

\* What is stored of the experts when a directory is published.
Stored == OpenStore(OnDisk(staged.experts)).inventory

\* Every expert parses.
LEMMA PublishedExpert ==
    ASSUME SourceOpened, FilesKept, phase = "published",
           NEW l \in Range(SparseLayers(job.config)), NEW e \in 0..(job.config.experts - 1)
    PROVE  /\ PackedName(l, e) \in DOMAIN Stored
           /\ Parses(job, checkpoint, staged.scalar, Stored[PackedName(l, e)], l, e)
<1>1. Opened(job, checkpoint)
  BY CheckpointOpened
<1>2. PackedName(l, e) \in DOMAIN Stored
  BY AllExpertsFound DEF Stored
<1>3. AllWritten(job, checkpoint, staged.scalar, staged.experts)
  BY DEF FilesKept, AllWritten
<1> QED  BY <1>1, <1>2, <1>3, ExpertParses DEF Stored

\* Nothing else is stored.
LEMMA PublishedNames ==
    ASSUME SourceOpened, FilesKept, phase = "published",
           NEW layers, layers = Range(SparseLayers(job.config))
    PROVE  DOMAIN Stored = {PackedName(x[1], x[2]) : x \in layers \X (0..(job.config.experts - 1))}
<1> DEFINE count == job.config.experts
<1>1. IsModel(job.config) /\ count \in Nat
  BY CheckpointOpened
<1>2. /\ AllWritten(job, checkpoint, staged.scalar, staged.experts)
      /\ job.perFile \in 1..count
  BY DEF FilesKept, AllWritten
<1> HIDE DEF count
<1>3. ASSUME NEW t \in DOMAIN Stored
      PROVE  \E x \in layers \X (0..(count - 1)) : t = PackedName(x[1], x[2])
  <2>1. PICK g : IsFound(job, checkpoint, staged.scalar, t, Stored[t], g)
    BY <1>2, <1>3, FoundRecord DEF Stored
  <2>2. g \in Range(JobGroups(job)) /\ t \in DOMAIN FileOf(job, checkpoint, g).tensors
    BY <2>1 DEF IsFound
  <2>3. PICK e \in GroupExperts(g) : t = PackedName(g.layer, e)
    BY <2>2 DEF FileOf
  <2>4. IsGroup(g, SparseLayers(job.config), count)
    BY <1>1, <1>2, <2>2, JobGroupsCover DEF count
  <2>5. g.layer \in layers /\ e \in 0..(count - 1)
    BY <1>1, <2>3, <2>4 DEF IsGroup, GroupExperts
  <2>6. <<g.layer, e>> \in layers \X (0..(count - 1))
    BY <2>5
  <2>7. t = PackedName(<<g.layer, e>>[1], <<g.layer, e>>[2])
    BY <2>3
  <2> QED  BY <2>6, <2>7, Zenon
<1>4. ASSUME NEW x \in layers \X (0..(count - 1)) PROVE PackedName(x[1], x[2]) \in DOMAIN Stored
  <2>1. x[1] \in layers /\ x[2] \in 0..(count - 1)
    OBVIOUS
  <2> QED  BY <2>1, PublishedExpert DEF count
<1> QED  BY <1>3, <1>4 DEF count

\* Their size fits a word, since there is one.
LEMMA PublishedFits ==
    ASSUME SourceOpened, FilesKept, phase = "published",
           NEW l \in Range(SparseLayers(job.config)), NEW e \in 0..(job.config.experts - 1)
    PROVE  DoesFit(RecordBytes(SectionBytes(MoeConfig(job.config), staged.scalar)))
<1>1. Opened(job, checkpoint)
  BY CheckpointOpened
<1>2. PackedName(l, e) \in DOMAIN OpenStore(OnDisk(staged.experts)).inventory
  BY AllExpertsFound
<1>3. AllWritten(job, checkpoint, staged.scalar, staged.experts)
  BY DEF FilesKept, AllWritten
<1>4. RecordKept(job, checkpoint, staged.scalar,
                 OpenStore(OnDisk(staged.experts)).inventory[PackedName(l, e)], l, e)
  BY <1>1, <1>2, <1>3, FoundExpert
<1>5. PICK read : read.scalar = staged.scalar /\ RecordOf(MoeConfig(job.config), read) # Refused
  BY <1>4 DEF RecordKept
<1> QED  BY <1>5 DEF RecordOf, EncodeRaw

\* The experts a conversion leaves behind are those the configuration asks for.
LEMMA PublishedInventory ==
    ASSUME SourceOpened, FilesKept, phase = "published",
           NEW store, store = OpenStore(OnDisk(staged.experts))
    PROVE  ExpertInventory(store, MoeConfig(job.config), staged.scalar, SparseLayers(job.config))
<1>1. /\ Opened(job, checkpoint) /\ ConfigType(job.config) /\ Validate(job.config)
      /\ IsModel(job.config) /\ job.config.experts \in Nat
  BY CheckpointOpened
<1>2. Detect(job.config) /\ job \in Jobs
  BY <1>1 DEF Opened
<1>3. PICK list : list = SparseLayers(job.config)
  OBVIOUS
<1>4. PICK moe : moe = MoeConfig(job.config)
  OBVIOUS
<1>5. moe.experts = job.config.experts /\ moe.experts \in Nat /\ moe.experts # 0
  BY <1>1, <1>2, <1>4, Geometry
<1>6. /\ Len(list) \in Nat /\ IsList(list, Len(list)) /\ Range(list) # {}
  BY <1>1, <1>3 DEF IsModel
<1>7. PICK scalar : scalar = staged.scalar
  OBVIOUS
<1>8. Stored = store.inventory
  BY DEF Stored
<1>9. \A l \in Range(list), e \in 0..(moe.experts - 1) :
        /\ PackedName(l, e) \in DOMAIN store.inventory
        /\ EncodedLength(store.inventory[PackedName(l, e)]) = RecordBytes(SectionBytes(moe, scalar))
  <2>1. TAKE l \in Range(list), e \in 0..(moe.experts - 1)
  <2>2. /\ PackedName(l, e) \in DOMAIN Stored
        /\ Parses(job, checkpoint, staged.scalar, Stored[PackedName(l, e)], l, e)
    BY <1>3, <1>5, PublishedExpert
  <2> QED  BY <1>4, <1>7, <1>8, <2>2 DEF Parses, RecordBytes
<1>10. DoesFit(RecordBytes(SectionBytes(moe, scalar)))
  <2>1. PICK l \in Range(list) : TRUE
    BY <1>6
  <2>2. 0 \in 0..(moe.experts - 1)
    BY <1>5
  <2> QED  BY <1>3, <1>4, <1>5, <1>7, <2>1, <2>2, PublishedFits
<1>11. Cardinality(DOMAIN store.inventory) = Len(list) * moe.experts
  <2>1. DOMAIN store.inventory
          = {PackedName(x[1], x[2]) : x \in Range(list) \X (0..(moe.experts - 1))}
    BY <1>3, <1>5, <1>8, PublishedNames
  <2>2. IsFiniteSet(Range(list)) /\ Cardinality(Range(list)) = Len(list)
    <3>1. Ascending(list, Len(list))
      BY <1>1, <1>2, <1>3, LayersAscend
    <3> QED  BY <1>6, <3>1, CountAscending
  <2> QED  BY <1>5, <2>1, <2>2, CountNames
<1>12. \A n \in DOMAIN list : list[n] \in Range(list)
  BY DEF Range
<1>13. ExpertInventory(store, moe, scalar, list)
  BY <1>9, <1>10, <1>11, <1>12, Zenon DEF ExpertInventory
<1> QED  BY <1>3, <1>4, <1>7, <1>13

\* The dense tensors are the ones of the source.
LEMMA PublishedDense ==
    ASSUME SourceOpened, FilesKept, phase = "published",
           NEW store, store = OpenStore(OnDisk(staged.dense))
    PROVE  HasDense(store, InDirectory(Source(job)), DenseNames(job.config))
<1>1. /\ Opened(job, checkpoint) /\ Validate(job.config) /\ IsModel(job.config)
  BY CheckpointOpened
<1>2. job \in Jobs /\ Detect(job.config)
  BY <1>1 DEF Opened
<1>3. PICK names : names = DenseNames(job.config)
  OBVIOUS
<1>4. PICK N : N = Len(names)
  OBVIOUS
<1>5. N \in Nat /\ DOMAIN names = 1..N /\ N <= 100000
  <2>1. N \in Nat /\ IsList(names, N)
    BY <1>1, <1>3, <1>4 DEF IsModel
  <2>2. DOMAIN names = 1..N
    BY <2>1, ListSeq
  <2>3. Len(DenseNames(job.config)) <= 100000
    BY <1>1, <1>2, NamesAssumption
  <2> QED  BY <1>3, <1>4, <2>1, <2>2, <2>3
<1>6. PICK source : source = InDirectory(Source(job))
  OBVIOUS
<1>7. PICK written : written = staged.dense
  OBVIOUS
<1>8. written = ConvertDense(source, names, job.maxBuffer) /\ written # Refused
  BY <1>3, <1>6, <1>7 DEF FilesKept
<1>9. IsDense(written, source, names, job.maxBuffer)
  BY <1>8, DenseConverted
<1>10. HasDense(store, source, names)
  BY <1>5, <1>7, <1>9, DenseFound
<1> QED  BY <1>3, <1>6, <1>10

\* What is said of them both is what is there.
LEMMA PublishedAccepts ==
    ASSUME SourceOpened, FilesKept, GroupsInOrder, PublishedKept, phase = "published"
    PROVE  Accepts(directory)
<1>1. /\ Opened(job, checkpoint) /\ ConfigType(job.config) /\ Validate(job.config)
      /\ IsModel(job.config) /\ job.config.experts \in Nat
  BY CheckpointOpened
<1>2. Detect(job.config) /\ job \in Jobs
  BY <1>1 DEF Opened
<1>3. PICK c : c = job.config
  OBVIOUS
<1>4. PICK m : m = directory.manifest
  OBVIOUS
<1>5. PICK dense : dense = OpenStore(OnDisk(staged.dense))
  OBVIOUS
<1>6. PICK experts : experts = OpenStore(OnDisk(staged.experts))
  OBVIOUS
<1>7. /\ directory.config = c /\ directory.tokenizer = job.tokenizer
      /\ OpenStore(directory.dense) = dense /\ OpenStore(directory.experts) = experts
      /\ m = Manifest(c, job, staged.scalar, job, Recorded(staged.dense), Recorded(staged.experts),
                      job.tokenizer # None)
  BY <1>3, <1>4, <1>5, <1>6 DEF PublishedKept, PublishedAs
<1>8. States(m, c, job, staged.scalar, Recorded(staged.dense), Recorded(staged.experts),
             job.tokenizer # None)
  BY <1>2, <1>3, <1>7, ManifestStates
<1>9. Listed(staged.dense, Len(DenseNames(c)))
  BY <1>3, DenseListed
<1>10. Listed(staged.experts, Len(SparseLayers(c)) * GroupCount(c.experts, job.perFile))
  BY <1>3, ExpertsListed
<1>11. /\ MoeConfig(c).hidden = c.hidden /\ MoeConfig(c).intermediate = c.intermediate
       /\ MoeConfig(c).experts = c.experts
  BY <1>1, <1>2, <1>3, Geometry
<1>12. job.perFile \in 1..c.experts
  BY <1>3 DEF FilesKept
<1>13. Fitting(m, c, job.tokenizer # None)
  <2>1. /\ ManifestFiles(m.denseFiles) /\ Len(m.denseFiles) = Len(DenseNames(c))
    BY <1>8, <1>9 DEF States, Listed
  <2>2. /\ ManifestFiles(m.expertFiles)
        /\ Len(m.expertFiles) = Len(SparseLayers(c)) * GroupCount(c.experts, job.perFile)
    BY <1>8, <1>10 DEF States, Listed
  <2>3. m.perFile = job.perFile /\ m.layers = c.layers
    BY <1>8 DEF States
  <2>4. Len(m.expertFiles)
          = Len(SparseLayers(c)) * ((MoeConfig(c).experts + m.perFile - 1) \div m.perFile)
    BY <1>11, <2>2, <2>3, Zenon DEF GroupCount
  <2>5. m.hidden = MoeConfig(c).hidden /\ m.intermediate = MoeConfig(c).intermediate
        /\ m.experts = MoeConfig(c).experts
    BY <1>8, <1>11 DEF States
  <2>6. m.perFile \in 1..MoeConfig(c).experts
    BY <1>11, <1>12, <2>3
  <2>7. ManifestAgrees(m, MoeConfig(c), c.layers, Len(DenseNames(c)), Len(SparseLayers(c)))
    BY <2>1, <2>2, <2>3, <2>4, <2>5, <2>6, Zenon DEF ManifestAgrees
  <2> QED  BY <1>8, <2>7 DEF Fitting, States
<1>14. Holding(m, c, dense, experts)
  <2>1. dense.digest = m.dense /\ experts.digest = m.expert
    BY <1>5, <1>6, <1>8 DEF States, Recorded
  <2>2. FileInventory(dense, m.denseFiles) /\ FileInventory(experts, m.expertFiles)
    BY <1>5, <1>6, <1>8, <1>9, <1>10 DEF States, Listed, FileInventory
  <2>3. DenseInventory(dense, DenseNames(c))
    BY <1>3, <1>5, PublishedDense DEF HasDense, DenseInventory
  <2>4. m.scalar = staged.scalar
    BY <1>8 DEF States
  <2>5. ExpertInventory(experts, MoeConfig(c), m.scalar, SparseLayers(c))
    BY <1>3, <1>6, <2>4, PublishedInventory
  <2> QED  BY <2>1, <2>2, <2>3, <2>5 DEF Holding, DigestsHold
<1> QED  BY <1>1, <1>2, <1>3, <1>4, <1>7, <1>13, <1>14, DirectoryAccepts

\* The streamed model finds its experts.
LEMMA PublishedStreams ==
    ASSUME SourceOpened, FilesKept, phase = "published",
           NEW store, store = OpenStore(OnDisk(staged.experts))
    PROVE  StreamsExperts(store, MoeConfig(job.config), SparseLayers(job.config))
<1>1. /\ Opened(job, checkpoint) /\ ConfigType(job.config)
  BY CheckpointOpened
<1>2. Detect(job.config) /\ IsGeometry(MoeConfig(job.config))
  BY <1>1 DEF Opened
<1>3. PICK list : list = SparseLayers(job.config)
  OBVIOUS
<1>4. PICK moe : moe = MoeConfig(job.config)
  OBVIOUS
<1>5. moe.experts = job.config.experts
  BY <1>1, <1>2, <1>4, Geometry
<1>6. Stored = store.inventory
  BY DEF Stored
<1>7. SectionBytes(moe, staged.scalar) \in Nat
  BY <1>2, <1>4, SectionNat
<1>8. \A n \in DOMAIN list, e \in 0..(moe.experts - 1) :
        /\ PackedName(list[n], e) \in DOMAIN store.inventory
        /\ EncodedLength(store.inventory[PackedName(list[n], e)]) >= HeaderBytes
  <2>1. TAKE n \in DOMAIN list, e \in 0..(moe.experts - 1)
  <2>2. list[n] \in Range(list)
    BY DEF Range
  <2>3. PICK record : record = Stored[PackedName(list[n], e)]
    OBVIOUS
  <2>4. /\ PackedName(list[n], e) \in DOMAIN Stored
        /\ Parses(job, checkpoint, staged.scalar, record, list[n], e)
    BY <1>3, <1>5, <2>2, <2>3, PublishedExpert
  <2>5. EncodedLength(record) = HeaderBytes + 3 * SectionBytes(moe, staged.scalar)
    BY <1>4, <2>4 DEF Parses
  <2>6. EncodedLength(record) >= HeaderBytes
    BY <1>7, <2>5 DEF HeaderBytes
  <2> QED  BY <1>6, <2>3, <2>4, <2>6
<1> QED  BY <1>3, <1>4, <1>8, Zenon DEF StreamsExperts

\* Its dense tensors have the shapes of the parameters, if those of the
\* resident model do.
LEMMA PublishedProvides ==
    ASSUME SourceOpened, FilesKept, phase = "published",
           LoadResidentModel(Source(job), checkpoint) # Refused,
           NEW store, store = OpenStore(OnDisk(staged.dense))
    PROVE  Provides(DenseShapes(store), ModelParameters(job.config))
<1>1. /\ Opened(job, checkpoint) /\ ConfigType(job.config) /\ IsModel(job.config)
      /\ Declares(Source(job).index, job.config, checkpoint.layout)
  BY CheckpointOpened
<1>2. checkpoint.config = job.config /\ Detect(job.config)
  BY <1>1 DEF Opened
<1>3. PICK t : t = LoadResidentModel(Source(job), checkpoint)
  OBVIOUS
<1>4. HasShapes(t, ModelParameters(job.config))
  BY <1>2, <1>3, ResidentShapes
<1>5. IsResident(job, checkpoint, t)
  <2>1. Declares(Source(job).index, checkpoint.config, checkpoint.layout)
    BY <1>1, <1>2
  <2> QED  BY <1>1, <1>3, <2>1, ResidentTensors
<1>6. PICK source : source = InDirectory(Source(job))
  OBVIOUS
<1>7. HasDense(store, source, DenseNames(job.config))
  BY <1>6, PublishedDense
<1>8. DOMAIN ModelParameters(job.config) = Range(DenseNames(job.config))
  BY <1>1 DEF IsModel
<1>9. PICK shapes : shapes = ModelParameters(job.config)
  OBVIOUS
<1>10. ASSUME NEW name \in DOMAIN shapes
       PROVE  name \in DOMAIN DenseShapes(store) /\ DenseShapes(store)[name] = shapes[name]
  <2>1. name \in DOMAIN t /\ t[name].shape = shapes[name]
    BY <1>4, <1>9, <1>10 DEF HasShapes
  <2>2. t[name] = source[name]
    BY <1>5, <1>6, <2>1 DEF IsResident
  <2>3. name \in DOMAIN store.inventory /\ store.inventory[name].source = source[name]
    BY <1>7, <1>8, <1>9, <1>10 DEF HasDense
  <2> QED  BY <2>1, <2>2, <2>3 DEF DenseShapes
<1> QED  BY <1>9, <1>10, Zenon DEF Provides

\* What is published can be used, by the invariants.
LEMMA Usable ==
    ASSUME SourceOpened, FilesKept, GroupsInOrder, PublishedKept
    PROVE  PublishedCanBeUsed
<1> SUFFICES ASSUME phase = "published" PROVE PublishedCanBeUsed
  BY DEF PublishedCanBeUsed
<1>1. /\ Opened(job, checkpoint) /\ ConfigType(job.config) /\ Validate(job.config)
  BY CheckpointOpened
<1>2. Detect(job.config)
  BY <1>1 DEF Opened
<1>3. PICK c : c = job.config
  OBVIOUS
<1>4. PICK dense : dense = OpenStore(directory.dense)
  OBVIOUS
<1>5. PICK experts : experts = OpenStore(directory.experts)
  OBVIOUS
<1>6. /\ directory.config = c /\ directory.tokenizer = job.tokenizer /\ directory.links = FALSE
      /\ directory.dense = OnDisk(staged.dense) /\ directory.experts = OnDisk(staged.experts)
      /\ directory.manifest = Manifest(c, job, staged.scalar, job, Recorded(staged.dense),
                                       Recorded(staged.experts), job.tokenizer # None)
      /\ job.tokenizer # None => LoadTokenizer(job.tokenizer, c.vocab)
  BY <1>3 DEF PublishedKept, PublishedAs
<1>7. Accepts(directory)
  BY PublishedAccepts
<1>8. \A f \in DOMAIN directory.dense : \A n \in DOMAIN directory.dense[f] :
        WholeCopy(directory.dense[f][n])
  BY <1>6, DenseWhole
<1>9. \A x \in Experts(c) : CanParse(experts.inventory[PackedName(x[1], x[2])], MoeConfig(c))
  <2>1. TAKE x \in Experts(c)
  <2>2. x[1] \in Range(SparseLayers(c)) /\ x[2] \in 0..(c.experts - 1)
    BY DEF Experts
  <2>3. Parses(job, checkpoint, staged.scalar, Stored[PackedName(x[1], x[2])], x[1], x[2])
    BY <1>3, <2>2, PublishedExpert
  <2>4. Stored = experts.inventory
    BY <1>5, <1>6 DEF Stored
  <2> QED  BY <1>3, <2>3, <2>4 DEF Parses
<1>10. ASSUME directory.tokenizer # None, DoesFit(MaterializedBytes(dense)),
              LoadResidentModel(Source(job), checkpoint) # Refused
       PROVE  CanLoad(directory, [config |-> c, manifest |-> directory.manifest])
  <2>1. Streamable(c, dense, experts)
    <3>1. Provides(DenseShapes(dense), ModelParameters(c))
      BY <1>3, <1>4, <1>6, <1>10, PublishedProvides
    <3>2. StreamsExperts(experts, MoeConfig(c), SparseLayers(c))
      BY <1>3, <1>5, <1>6, PublishedStreams
    <3> QED  BY <1>1, <1>3, <1>10, <3>1, <3>2 DEF Streamable
  <2>2. LoadStreamingModel(c, dense, experts)
    BY <1>2, <1>3, <2>1, ModelStreams
  <2>3. directory.manifest.tokenizer = TRUE
    <3>1. States(directory.manifest, c, job, staged.scalar, Recorded(staged.dense),
                 Recorded(staged.experts), job.tokenizer # None)
      BY <1>2, <1>3, <1>6, ManifestStates
    <3> QED  BY <1>6, <1>10, <3>1 DEF States
  <2>4. LoadTokenizer(directory.tokenizer, c.vocab)
    BY <1>6, <1>10
  <2> QED  BY <1>4, <1>5, <1>6, <2>2, <2>3, <2>4 DEF CanLoad
<1> QED  BY <1>4, <1>5, <1>6, <1>7, <1>8, <1>9, <1>10 DEF PublishedCanBeUsed

\* Whatever is converted, with whatever options: the directory that is
\* published opens, its tensors are whole, its experts parse and its model loads.
THEOREM PublishedUsable == Spec => []PublishedCanBeUsed
<1>1. Init => BuffersKept /\ FilesKept /\ GroupsInOrder /\ PublishedKept
  BY DEF Init, BuffersKept, Nothing, StagedFields, FilesKept, GroupsInOrder, PublishedKept
<1>2. SourceOpened /\ BuffersKept /\ [Next]_vars => BuffersKept'
  BY BuffersStep
<1>3. SourceOpened /\ BuffersKept /\ FilesKept /\ [Next]_vars => FilesKept'
  BY FilesStep
<1>4. SourceOpened /\ BuffersKept /\ FilesKept /\ GroupsInOrder /\ [Next]_vars => GroupsInOrder'
  BY ProgressStep
<1>5. SourceOpened /\ PublishedKept /\ [Next]_vars => PublishedKept'
  BY PublishedStep
<1>6. SourceOpened /\ FilesKept /\ GroupsInOrder /\ PublishedKept => PublishedCanBeUsed
  BY Usable
<1> QED  BY <1>1, <1>2, <1>3, <1>4, <1>5, <1>6, OrderCorrect, PTL DEF Spec
=============================================================================
