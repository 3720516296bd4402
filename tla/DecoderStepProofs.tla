---------------------------- MODULE DecoderStepProofs ----------------------------
(***************************************************************************)
(* Proofs about DecoderStep, for any models, sessions, texts, batch sizes, *)
(* widths and budgets: what a step returns, what the caches hold and what  *)
(* a generation returns are what the reference computes from the tokens.   *)
(*                                                                         *)
(* The invariant follows a step layer by layer: hidden states, routes and  *)
(* copied caches are the reference's for the whole sequences, up to the    *)
(* layer reached.  It is preserved because                                 *)
(*   - attention over cached keys and new ones, masked or not, sees just   *)
(*     the keys the reference lets the position see;                       *)
(*   - the convolution history and the updates are enough to go on with;   *)
(*   - ranking, union, sums and cut give each position its own experts;    *)
(*   - the copies replace the caches in one step, or are dropped.          *)
(* The library's induction theorems take an operator, so induction is      *)
(* stated here for sets (Least, UpTo), from the well-foundedness of <.     *)
(* A list is treated as a function on 1..n, because the values in it (a    *)
(* state is made of states) belong to no set that could be named.          *)
(***************************************************************************)
EXTENDS DecoderStep, TLAPS, FiniteSetTheorems, FunctionTheorems, SequenceTheorems, WellFoundedInduction

(***************************************************************************)
(* Induction.                                                              *)
(***************************************************************************)

\* A set of natural numbers that is not empty has a least one.
LEMMA Least ==
    ASSUME NEW T, T \subseteq Nat, T # {}
    PROVE  \E m \in T : \A k \in T : m <= k
<1>1. IsWellFoundedOn(OpToRel(<, Nat), Nat)
  BY NatLessThanWellFounded
<1>2. \A k, m \in Nat : k < m => <<k, m>> \in OpToRel(<, Nat)
  BY DEF OpToRel
<1>3. \E m \in T : \A k \in T : ~ (<<k, m>> \in OpToRel(<, Nat))
  BY <1>1, WFMin, Zenon
<1>4. PICK m \in T : \A k \in T : ~ (<<k, m>> \in OpToRel(<, Nat))
  BY <1>3, Zenon
<1>5. m \in Nat /\ \A k \in T : k \in Nat
  OBVIOUS
<1>6. \A k \in T : ~ (k < m)
  BY <1>2, <1>4, <1>5, Zenon
<1> QED  BY <1>5, <1>6

\* Induction up to N, for a set: the numbers with the property to be shown.
LEMMA UpTo ==
    ASSUME NEW N \in Nat, NEW T, 0 \in T, \A n \in 1..N : n - 1 \in T => n \in T
    PROVE  \A n \in 0..N : n \in T
<1> DEFINE Rest == (0..N) \ T
<1>1. SUFFICES ASSUME Rest # {} PROVE FALSE
  OBVIOUS
<1>2. PICK m \in Rest : \A k \in Rest : m <= k
  <2>1. Rest \subseteq Nat
    OBVIOUS
  <2> HIDE DEF Rest
  <2> QED  BY <1>1, <2>1, Least
<1>3. m \in 0..N /\ m \notin T /\ m # 0
  BY <1>2
<1>4. m \in 1..N /\ m - 1 \in 0..N /\ m - 1 \notin Rest
  BY <1>2, <1>3
<1> QED  BY <1>3, <1>4

(***************************************************************************)
(* Order: InOrder lists a finite set that its argument orders totally.     *)
(***************************************************************************)

Orders(ahead) ==
    /\ IsFiniteSet(DOMAIN ahead)
    /\ ahead \in [DOMAIN ahead -> SUBSET DOMAIN ahead]
    /\ \A e \in DOMAIN ahead : e \notin ahead[e]
    /\ \A e, f \in DOMAIN ahead : e \in ahead[f] => ahead[e] \subseteq ahead[f]
    /\ \A e, f \in DOMAIN ahead : e # f => e \in ahead[f] \/ f \in ahead[e]

\* Every member has the place after those ahead of it, and every place a member.
LEMMA InOrderLists ==
    ASSUME NEW ahead, Orders(ahead)
    PROVE  /\ InOrder(ahead) \in [1..Cardinality(DOMAIN ahead) -> DOMAIN ahead]
           /\ Cardinality(DOMAIN ahead) \in Nat
           /\ \A k \in 1..Cardinality(DOMAIN ahead) :
                Cardinality(ahead[InOrder(ahead)[k]]) = k - 1
           /\ \A e \in DOMAIN ahead :
                /\ Cardinality(ahead[e]) \in 0..(Cardinality(DOMAIN ahead) - 1)
                /\ InOrder(ahead)[Cardinality(ahead[e]) + 1] = e
<1> DEFINE S == DOMAIN ahead
           N == Cardinality(S)
           place == [e \in S |-> Cardinality(ahead[e])]
<1>1. IsFiniteSet(S) /\ N \in Nat
  BY FS_CardinalityType DEF Orders
<1>2. ASSUME NEW e \in S PROVE IsFiniteSet(ahead[e]) /\ Cardinality(ahead[e]) \in 0..(N - 1)
  <2>1. ahead[e] \in SUBSET S /\ e \notin ahead[e]
    BY DEF Orders
  <2>2. IsFiniteSet(ahead[e]) /\ Cardinality(ahead[e]) <= N /\ Cardinality(ahead[e]) # N
    BY <1>1, <2>1, FS_Subset
  <2> QED  BY <1>1, <2>2, FS_CardinalityType
<1>3. ASSUME NEW e \in S, NEW f \in S, e \in ahead[f]
      PROVE  Cardinality(ahead[e]) # Cardinality(ahead[f])
  <2>1. ahead[e] \in SUBSET ahead[f] /\ ahead[e] # ahead[f]
    BY <1>3 DEF Orders
  <2> QED  BY <1>2, <2>1, FS_Subset
<1>4. \A e, f \in S : place[e] = place[f] => e = f
  <2> SUFFICES ASSUME NEW e \in S, NEW f \in S, e # f PROVE place[e] # place[f]
    OBVIOUS
  <2>1. e \in ahead[f] \/ f \in ahead[e]
    BY DEF Orders
  <2> QED  BY <1>3, <2>1
<1>5. place \in [S -> 0..(N - 1)]
  BY <1>2
<1>6. place \in Injection(S, 0..(N - 1))
  <2> HIDE DEF S, N, place
  <2> QED  BY <1>4, <1>5, Fun_IsInj
<1>7. IsFiniteSet(0..(N - 1)) /\ Cardinality(0..(N - 1)) = N
  <2>1. N \in Nat
    BY <1>1
  <2> HIDE DEF N
  <2> QED  BY <2>1, FS_Interval
<1>8. \A k \in 0..(N - 1) : \E e \in S : place[e] = k
  <2> HIDE DEF S, N, place
  <2>1. place \in Surjection(S, 0..(N - 1))
    BY <1>6, <1>7, FS_Injection DEF N
  <2> QED  BY <2>1 DEF Surjection
<1>9. ASSUME NEW k \in 1..N
      PROVE  InOrder(ahead)[k] \in S /\ Cardinality(ahead[InOrder(ahead)[k]]) = k - 1
  <2>1. k - 1 \in 0..(N - 1)
    BY <1>1
  <2>2. \E e \in S : Cardinality(ahead[e]) = k - 1
    BY <1>8, <2>1
  <2>3. InOrder(ahead)[k] = CHOOSE e \in S : Cardinality(ahead[e]) = k - 1
    BY DEF InOrder
  <2> QED  BY <2>2, <2>3
<1>10. InOrder(ahead) \in [1..N -> S]
  BY <1>9 DEF InOrder
<1>11. ASSUME NEW e \in S PROVE InOrder(ahead)[Cardinality(ahead[e]) + 1] = e
  <2> DEFINE k == Cardinality(ahead[e]) + 1
  <2>1. k \in 1..N /\ k - 1 = Cardinality(ahead[e])
    BY <1>1, <1>2
  <2>2. InOrder(ahead)[k] \in S /\ place[InOrder(ahead)[k]] = place[e]
    BY <1>9, <2>1
  <2> QED  BY <1>4, <2>2
<1> QED  BY <1>1, <1>2, <1>9, <1>10, <1>11

(***************************************************************************)
(* Lists: functions on 1..n, whatever their values.                        *)
(***************************************************************************)

IsList(f, n) == f = [k \in 1..n |-> f[k]]

\* A list is a sequence of its values.
LEMMA ListSeq ==
    ASSUME NEW n \in Nat, NEW f, IsList(f, n)
    PROVE  /\ f \in Seq({f[k] : k \in 1..n})
           /\ Len(f) = n /\ DOMAIN f = 1..n
<1> DEFINE S == {f[k] : k \in 1..n}
<1>1. f \in [1..n -> S] /\ DOMAIN f = 1..n
  BY DEF IsList
<1>2. f \in Seq(S)
  BY <1>1, SeqDef
<1>3. Len(f) \in Nat /\ DOMAIN f = 1..Len(f)
  BY <1>2, LenProperties
<1>4. Len(f) = n
  BY <1>1, <1>3
<1> QED  BY <1>1, <1>2, <1>4

\* A sequence is a list.
LEMMA SeqList ==
    ASSUME NEW S, NEW f \in Seq(S)
    PROVE  Len(f) \in Nat /\ IsList(f, Len(f)) /\ \A k \in 1..Len(f) : f[k] \in S
BY LenProperties, ElementOfSeq DEF IsList

\* Lists are equal when their members are.
LEMMA ListEqual ==
    ASSUME NEW n \in Nat, NEW f, NEW g, IsList(f, n), IsList(g, n),
           \A k \in 1..n : f[k] = g[k]
    PROVE  f = g
BY DEF IsList

\* List f of length m, then list g of length n.
Concatenates(f, m, g, n) ==
    /\ IsList(f \o g, m + n) /\ Len(f \o g) = m + n
    /\ \A k \in 1..m : (f \o g)[k] = f[k]
    /\ \A k \in 1..n : (f \o g)[m + k] = g[k]

\* A list of m and one of n members make one of m + n, the second behind the first.
LEMMA ListConcat ==
    ASSUME NEW m \in Nat, NEW n \in Nat, NEW f, NEW g, IsList(f, m), IsList(g, n)
    PROVE  Concatenates(f, m, g, n)
<1> DEFINE S == {f[k] : k \in 1..m} \cup {g[k] : k \in 1..n}
<1>1. Len(f) = m /\ Len(g) = n /\ f \in Seq(S) /\ g \in Seq(S)
  <2>1. /\ f \in Seq({f[k] : k \in 1..m}) /\ Len(f) = m
        /\ g \in Seq({g[k] : k \in 1..n}) /\ Len(g) = n
    BY ListSeq, Zenon
  <2>2. {f[k] : k \in 1..m} \subseteq S /\ {g[k] : k \in 1..n} \subseteq S
    OBVIOUS
  <2> HIDE DEF S
  <2>3. f \in Seq(S)
    BY <2>1, <2>2, SeqMonotonic
  <2>4. g \in Seq(S)
    BY <2>1, <2>2, SeqMonotonic
  <2> QED  BY <2>1, <2>3, <2>4
<1> HIDE DEF S
<1>2. /\ f \o g \in Seq(S) /\ Len(f \o g) = m + n
      /\ \A i \in 1..(m + n) : (f \o g)[i] = IF i <= m THEN f[i] ELSE g[i - m]
  BY <1>1, ConcatProperties
<1>3. IsList(f \o g, m + n)
  BY <1>2, SeqList
<1>4. ASSUME NEW k \in 1..m PROVE (f \o g)[k] = f[k]
  BY <1>2
<1>5. ASSUME NEW k \in 1..n PROVE (f \o g)[m + k] = g[k]
  <2>1. m + k \in 1..(m + n) /\ ~(m + k <= m) /\ (m + k) - m = k
    OBVIOUS
  <2> QED  BY <1>2, <2>1
<1> QED  BY <1>2, <1>3, <1>4, <1>5 DEF Concatenates

Appends(f, n, x) ==
    /\ IsList(Append(f, x), n + 1)
    /\ \A k \in 1..n : Append(f, x)[k] = f[k]
    /\ Append(f, x)[n + 1] = x

\* A list grows by one member at its end.
LEMMA ListAppend ==
    ASSUME NEW n \in Nat, NEW f, NEW x, IsList(f, n)
    PROVE  Appends(f, n, x)
<1> DEFINE S == {f[k] : k \in 1..n} \cup {x}
<1>1. Len(f) = n /\ f \in Seq(S) /\ x \in S
  <2>1. f \in Seq({f[k] : k \in 1..n}) /\ Len(f) = n
    BY ListSeq, Zenon
  <2>2. {f[k] : k \in 1..n} \subseteq S /\ x \in S
    OBVIOUS
  <2> QED  BY <2>1, <2>2, SeqMonotonic, Zenon
<1> HIDE DEF S
<1>2. Append(f, x) \in Seq(S) /\ Len(Append(f, x)) = n + 1
  BY <1>1
<1>3. IsList(Append(f, x), n + 1)
  BY <1>2, SeqList
<1>4. \A k \in 1..n : Append(f, x)[k] = f[k]
  BY <1>1
<1>5. Append(f, x)[n + 1] = x
  BY <1>1
<1> QED  BY <1>3, <1>4, <1>5 DEF Appends

\* The members from place a on, len of them.
IsCut(part, f, a, len) ==
    IsList(part, len) /\ Len(part) = len /\ \A k \in 1..len : part[k] = f[a + k - 1]

\* SubSeq cuts a list, whatever the values in it.
LEMMA ListCut ==
    ASSUME NEW f, NEW a \in Int, NEW len \in Nat
    PROVE  IsCut(SubSeq(f, a, a + len - 1), f, a, len)
<1> DEFINE S == {f[k] : k \in a..(a + len - 1)}
           part == SubSeq(f, a, a + len - 1)
<1>1. a + len - 1 \in Int /\ \A i \in a..(a + len - 1) : f[i] \in S
  OBVIOUS
<1> HIDE DEF S
<1>2. /\ part \in Seq(S)
      /\ Len(part) = IF a <= a + len - 1 THEN (a + len - 1) - a + 1 ELSE 0
      /\ \A i \in 1..((a + len - 1) - a + 1) : part[i] = f[a + i - 1]
  BY <1>1, SubSeqProperties
<1>3. (a + len - 1) - a + 1 = len /\ (~ (a <= a + len - 1) => len = 0)
  OBVIOUS
<1>4. Len(part) = len
  BY <1>2, <1>3
<1>5. IsList(part, len)
  BY <1>2, <1>4, SeqList
<1> QED  BY <1>2, <1>3, <1>4, <1>5 DEF IsCut

(***************************************************************************)
(* FlattenSeq.                                                             *)
(***************************************************************************)

Lists(seqs, n) ==
    /\ n \in Nat /\ IsList(seqs, n)
    /\ \A i \in 1..n : Len(seqs[i]) \in Nat /\ IsList(seqs[i], Len(seqs[i]))

\* f[i] is the concatenation of the first i lists.
Joins(f, seqs, n) == f[0] = <<>> /\ \A i \in 1..n : f[i] = f[i - 1] \o seqs[i]

\* The recursion by which FlattenSeq joins n lists has a solution.
LEMMA JoinExists ==
    ASSUME NEW n, NEW seqs, Lists(seqs, n)
    PROVE  \E f : Joins(f, seqs, n)
<1> DEFINE T == {k \in 0..n : \E f : Joins(f, seqs, k)}
<1>1. n \in Nat
  BY DEF Lists
<1>2. 0 \in T
  <2>1. Joins([i \in 0..n |-> <<>>], seqs, 0)
    BY <1>1 DEF Joins
  <2> QED  BY <1>1, <2>1
<1>3. ASSUME NEW k \in 1..n, k - 1 \in T PROVE k \in T
  <2>1. PICK f : Joins(f, seqs, k - 1)
    BY <1>3
  <2> DEFINE g == [i \in 0..n |-> IF i < k THEN f[i] ELSE f[k - 1] \o seqs[k]]
  <2>2. g[0] = <<>>
    BY <1>1, <2>1 DEF Joins
  <2>3. ASSUME NEW i \in 1..k PROVE g[i] = g[i - 1] \o seqs[i]
    <3>1. i \in Nat /\ i - 1 \in 0..n /\ i \in 0..n /\ k \in Nat /\ i - 1 < k /\ i <= k
      BY <1>1
    <3>2. CASE i < k
      <4>1. i \in 1..(k - 1)
        BY <3>1, <3>2
      <4>2. f[i] = f[i - 1] \o seqs[i]
        BY <2>1, <4>1 DEF Joins
      <4> QED  BY <3>1, <3>2, <4>2
    <3>3. CASE ~(i < k)
      <4>1. i = k /\ g[i - 1] = f[k - 1]
        BY <3>1, <3>3
      <4>2. g[i] = f[k - 1] \o seqs[k]
        BY <3>1, <3>3
      <4> QED  BY <4>1, <4>2
    <3> QED  BY <3>2, <3>3
  <2>4. Joins(g, seqs, k)
    BY <2>2, <2>3 DEF Joins
  <2> QED  BY <1>1, <2>4
<1> HIDE DEF T
<1>4. \A k \in 0..n : k \in T
  BY <1>1, <1>2, <1>3, UpTo
<1>5. n \in T
  BY <1>1, <1>4
<1> QED  BY <1>5 DEF T

\* Every stage of the join is a list.
LEMMA JoinIsList ==
    ASSUME NEW n, NEW seqs, Lists(seqs, n), NEW f, Joins(f, seqs, n)
    PROVE  \A i \in 0..n : Len(f[i]) \in Nat /\ IsList(f[i], Len(f[i]))
<1> DEFINE T == {i \in 0..n : Len(f[i]) \in Nat /\ IsList(f[i], Len(f[i]))}
<1>1. n \in Nat
  BY DEF Lists
<1>2. 0 \in T
  BY <1>1 DEF Joins, IsList
<1>3. ASSUME NEW i \in 1..n, i - 1 \in T PROVE i \in T
  <2> DEFINE a == f[i - 1]  b == seqs[i]
  <2>1. f[i] = a \o b
    BY DEF Joins
  <2>2. Len(b) \in Nat /\ IsList(b, Len(b))
    BY DEF Lists
  <2>3. Len(a) \in Nat /\ IsList(a, Len(a))
    BY <1>3
  <2> HIDE DEF a, b
  <2>4. IsList(a \o b, Len(a) + Len(b)) /\ Len(a \o b) = Len(a) + Len(b)
    <3>1. Concatenates(a, Len(a), b, Len(b))
      BY <2>2, <2>3, ListConcat
    <3> QED  BY <3>1 DEF Concatenates
  <2>5. Len(a \o b) \in Nat /\ IsList(a \o b, Len(a \o b))
    BY <2>2, <2>3, <2>4
  <2>6. Len(f[i]) \in Nat /\ IsList(f[i], Len(f[i])) /\ i \in 0..n
    BY <1>1, <2>1, <2>5
  <2> QED  BY <2>6
<1> HIDE DEF T
<1>4. \A i \in 0..n : i \in T
  BY <1>1, <1>2, <1>3, UpTo
<1> QED  BY <1>4 DEF T

IsJoin(c, a, b) ==
    /\ Len(a) \in Nat /\ Len(b) \in Nat /\ Len(c) = Len(a) + Len(b)
    /\ \A k \in 1..Len(a) : c[k] = a[k]
    /\ \A k \in 1..Len(b) : c[Len(a) + k] = b[k]

\* A stage of the join is the stage before with one more list behind it.
LEMMA JoinStep ==
    ASSUME NEW n, NEW seqs, Lists(seqs, n), NEW f, Joins(f, seqs, n), NEW i \in 1..n
    PROVE  IsJoin(f[i], f[i - 1], seqs[i])
<1> DEFINE a == f[i - 1]  b == seqs[i]
<1>1. n \in Nat /\ i - 1 \in 0..n
  BY DEF Lists
<1>2. Len(a) \in Nat /\ IsList(a, Len(a))
  BY <1>1, JoinIsList
<1>3. Len(b) \in Nat /\ IsList(b, Len(b))
  BY DEF Lists
<1>4. f[i] = a \o b
  BY DEF Joins
<1> HIDE DEF a, b
<1>5. /\ Len(a \o b) = Len(a) + Len(b)
      /\ \A k \in 1..Len(a) : (a \o b)[k] = a[k]
      /\ \A k \in 1..Len(b) : (a \o b)[Len(a) + k] = b[k]
  <2>1. Concatenates(a, Len(a), b, Len(b))
    BY <1>2, <1>3, ListConcat
  <2> QED  BY <2>1 DEF Concatenates
<1> QED  BY <1>2, <1>3, <1>4, <1>5 DEF a, b, IsJoin

\* FlattenSeq of the first m lists.
LEMMA FlattenJoins ==
    ASSUME NEW n, NEW seqs, Lists(seqs, n), NEW f, Joins(f, seqs, n), NEW m \in 0..n
    PROVE  FlattenSeq(SubSeq(seqs, 1, m)) = f[m]
<1> DEFINE part == SubSeq(seqs, 1, m)
<1>1. n \in Nat /\ m \in Nat
  BY DEF Lists
<1>2. IsList(part, m) /\ Len(part) = m /\ \A k \in 1..m : part[k] = seqs[k]
  <2>1. 1 + m - 1 = m /\ \A k \in 1..m : 1 + k - 1 = k
    BY <1>1
  <2>2. /\ IsList(SubSeq(seqs, 1, 1 + m - 1), m) /\ Len(SubSeq(seqs, 1, 1 + m - 1)) = m
        /\ \A k \in 1..m : SubSeq(seqs, 1, 1 + m - 1)[k] = seqs[1 + k - 1]
    <3>1. 1 \in Int
      OBVIOUS
    <3>2. IsCut(SubSeq(seqs, 1, 1 + m - 1), seqs, 1, m)
      BY <1>1, <3>1, ListCut
    <3> QED  BY <3>2 DEF IsCut
  <2> QED  BY <2>1, <2>2
<1>3. CASE m = 0
  <2>1. part = <<>>
    BY <1>3, SubSeqEmpty
  <2>2. FlattenSeq(part) = <<>>
    BY <2>1 DEF FlattenSeq
  <2> QED  BY <1>3, <2>2 DEF Joins
<1>4. CASE m # 0
  <2> DEFINE Unfolds(g) == g = [k \in 1..Len(part) |-> IF k = 1 THEN part[k] ELSE g[k - 1] \o part[k]]
  <2>1. FlattenSeq(part) = (CHOOSE g : Unfolds(g))[m]
    BY <1>2, <1>4 DEF FlattenSeq
  <2>2. Unfolds([k \in 1..m |-> f[k]])
    <3>1. ASSUME NEW k \in 1..m, k # 1 PROVE f[k] = [j \in 1..m |-> f[j]][k - 1] \o part[k]
      <4>1. k - 1 \in 1..m /\ k \in 1..n
        BY <1>1, <3>1
      <4>2. f[k] = f[k - 1] \o seqs[k]
        BY <4>1 DEF Joins
      <4> QED  BY <1>2, <4>1, <4>2
    <3>2. f[1] = part[1]
      <4>1. 1 \in 1..n /\ 1 \in 1..m /\ 1 - 1 = 0
        BY <1>1, <1>4
      <4>2. Len(seqs[1]) \in Nat /\ IsList(seqs[1], Len(seqs[1]))
        BY <4>1 DEF Lists
      <4>3. f[1] = <<>> \o seqs[1]
        BY <4>1 DEF Joins
      <4>4. f[1] = seqs[1]
        BY <4>2, <4>3, ListSeq
      <4> QED  BY <1>2, <4>1, <4>4
    <3> QED  BY <1>2, <3>1, <3>2
  <2> DEFINE g == CHOOSE h : Unfolds(h)
  <2>3. Unfolds(g)
    BY <2>2, Zenon
  <2> HIDE DEF g
  <2> DEFINE T == {k \in 0..m : k = 0 \/ g[k] = f[k]}
  <2>4. 0 \in T
    BY <1>1
  <2>5. ASSUME NEW k \in 1..m, k - 1 \in T PROVE k \in T
    <3>1. k \in 1..n /\ k \in 0..m
      BY <1>1
    <3>2. g[k] = IF k = 1 THEN part[k] ELSE g[k - 1] \o part[k]
      BY <1>2, <2>3
    <3>3. f[k] = f[k - 1] \o part[k]
      BY <1>2, <3>1 DEF Joins
    <3>4. CASE k = 1
      <4>1. [j \in 1..m |-> f[j]][1] = part[1]
        BY <1>2, <2>2, <3>4
      <4> QED  BY <3>1, <3>2, <3>4, <4>1
    <3>5. CASE k # 1
      <4>1. k - 1 # 0 /\ g[k - 1] = f[k - 1]
        BY <2>5, <3>5
      <4> QED  BY <3>1, <3>2, <3>3, <3>5, <4>1
    <3> QED  BY <3>4, <3>5
  <2> HIDE DEF T
  <2>6. \A k \in 0..m : k \in T
    BY <1>1, <2>4, <2>5, UpTo
  <2>7. m \in T
    BY <1>1, <2>6
  <2> QED  BY <1>4, <2>1, <2>7 DEF T, g
<1> QED  BY <1>3, <1>4

\* List b is the part of c behind its first start members.
Holds(c, start, b) ==
    /\ start \in Nat /\ Len(b) \in Nat /\ Len(c) \in Nat /\ start + Len(b) <= Len(c)
    /\ \A k \in 1..Len(b) : c[start + k] = b[k]

\* A join holds the list that was added, behind what was there.
LEMMA JoinNew ==
    ASSUME NEW a, NEW b, NEW c, IsJoin(c, a, b)
    PROVE  Holds(c, Len(a), b)
BY DEF IsJoin, Holds

\* What a list holds it still holds when another one is joined to it.
LEMMA JoinKeeps ==
    ASSUME NEW a, NEW b, NEW c, IsJoin(c, a, b), NEW start, NEW part, Holds(a, start, part)
    PROVE  Holds(c, start, part)
<1>1. Len(c) \in Nat /\ start + Len(part) <= Len(c)
  BY DEF IsJoin, Holds
<1>2. ASSUME NEW k \in 1..Len(part) PROVE c[start + k] = part[k]
  <2>1. start + k \in 1..Len(a)
    BY DEF IsJoin, Holds
  <2> QED  BY <2>1 DEF IsJoin, Holds
<1> QED  BY <1>1, <1>2 DEF Holds

\* Every list keeps its place in the longer concatenations.
LEMMA JoinHolds ==
    ASSUME NEW n, NEW seqs, Lists(seqs, n), NEW f, Joins(f, seqs, n), NEW i \in 1..n
    PROVE  Holds(f[n], Len(f[i - 1]), seqs[i])
<1> DEFINE start == Len(f[i - 1])
           T == {m \in 0..n : m < i \/ Holds(f[m], start, seqs[i])}
<1>1. n \in Nat /\ i \in Nat /\ i <= n
  BY DEF Lists
<1>2. 0 \in T
  BY <1>1
<1>3. ASSUME NEW m \in 1..n, m - 1 \in T PROVE m \in T
  <2>1. m \in 0..n
    BY <1>1
  <2>2. CASE m < i
    BY <2>1, <2>2
  <2>3. CASE m = i
    <3>1. IsJoin(f[m], f[i - 1], seqs[i])
      BY <2>3, JoinStep
    <3>2. Holds(f[m], start, seqs[i])
      BY <3>1, JoinNew
    <3> QED  BY <2>1, <3>2
  <2>4. CASE i < m
    <3>1. ~(m - 1 < i)
      BY <1>1, <2>4
    <3>2. Holds(f[m - 1], start, seqs[i])
      BY <1>3, <3>1
    <3>3. IsJoin(f[m], f[m - 1], seqs[m])
      BY JoinStep
    <3>4. Holds(f[m], start, seqs[i])
      BY <3>2, <3>3, JoinKeeps
    <3> QED  BY <2>1, <3>4
  <2> QED  BY <1>1, <2>2, <2>3, <2>4
<1> HIDE DEF T, start
<1>4. \A m \in 0..n : m \in T
  BY <1>1, <1>2, <1>3, UpTo
<1>5. n \in T /\ ~(n < i)
  BY <1>1, <1>4
<1> QED  BY <1>5 DEF T, start

\* Where a list starts depends on the lengths before it alone.
LEMMA JoinLens ==
    ASSUME NEW n, NEW A, NEW B, Lists(A, n), Lists(B, n),
           \A i \in 1..n : Len(A[i]) = Len(B[i]),
           NEW f, NEW g, Joins(f, A, n), Joins(g, B, n)
    PROVE  \A i \in 0..n : Len(f[i]) = Len(g[i])
<1> DEFINE T == {i \in 0..n : Len(f[i]) = Len(g[i])}
<1>1. n \in Nat
  BY DEF Lists
<1>2. 0 \in T
  BY <1>1 DEF Joins
<1>3. ASSUME NEW i \in 1..n, i - 1 \in T PROVE i \in T
  <2>1. IsJoin(f[i], f[i - 1], A[i]) /\ IsJoin(g[i], g[i - 1], B[i])
    BY JoinStep
  <2>2. Len(f[i]) = Len(f[i - 1]) + Len(A[i]) /\ Len(g[i]) = Len(g[i - 1]) + Len(B[i])
    BY <2>1 DEF IsJoin
  <2>3. Len(f[i - 1]) = Len(g[i - 1]) /\ Len(A[i]) = Len(B[i])
    BY <1>3
  <2>4. i \in 0..n
    BY <1>1
  <2> QED  BY <2>2, <2>3, <2>4
<1> HIDE DEF T
<1>4. \A i \in 0..n : i \in T
  BY <1>1, <1>2, <1>3, UpTo
<1> QED  BY <1>4 DEF T

\* The members come from the lists.
LEMMA JoinValues ==
    ASSUME NEW n, NEW seqs, Lists(seqs, n), NEW f, Joins(f, seqs, n), NEW S,
           \A i \in 1..n : \A k \in 1..Len(seqs[i]) : seqs[i][k] \in S
    PROVE  \A k \in 1..Len(f[n]) : f[n][k] \in S
<1> DEFINE T == {i \in 0..n : \A k \in 1..Len(f[i]) : f[i][k] \in S}
<1>1. n \in Nat
  BY DEF Lists
<1>2. 0 \in T
  BY <1>1 DEF Joins
<1>3. ASSUME NEW i \in 1..n, i - 1 \in T PROVE i \in T
  <2> DEFINE a == Len(f[i - 1])  b == Len(seqs[i])
  <2>1. /\ Len(f[i]) = a + b /\ a \in Nat /\ b \in Nat
        /\ \A k \in 1..a : f[i][k] = f[i - 1][k]
        /\ \A k \in 1..b : f[i][a + k] = seqs[i][k]
    <3>1. IsJoin(f[i], f[i - 1], seqs[i])
      BY JoinStep
    <3> QED  BY <3>1 DEF IsJoin
  <2>2. \A k \in 1..a : f[i - 1][k] \in S
    BY <1>3
  <2>3. \A k \in 1..b : seqs[i][k] \in S
    OBVIOUS
  <2> HIDE DEF a, b
  <2>4. ASSUME NEW k \in 1..(a + b) PROVE f[i][k] \in S
    <3>1. CASE k <= a
      <4>1. k \in 1..a
        BY <2>1, <3>1
      <4>2. f[i][k] = f[i - 1][k]
        BY <2>1, <4>1
      <4> QED  BY <2>2, <4>1, <4>2
    <3>2. CASE ~(k <= a)
      <4>1. k - a \in 1..b /\ a + (k - a) = k
        BY <2>1, <3>2
      <4>2. f[i][a + (k - a)] = seqs[i][k - a]
        BY <2>1, <4>1
      <4> QED  BY <2>3, <4>1, <4>2
    <3> QED  BY <3>1, <3>2
  <2>5. i \in 0..n
    BY <1>1
  <2> QED  BY <2>1, <2>4, <2>5
<1> HIDE DEF T
<1>4. \A i \in 0..n : i \in T
  BY <1>1, <1>2, <1>3, UpTo
<1>5. n \in T
  BY <1>1, <1>4
<1> QED  BY <1>5 DEF T

\* Cutting the concatenation of lists at the places where lists of the same
\* lengths start gives the lists back.
LEMMA FlattenCut ==
    ASSUME NEW n, NEW A, NEW B, Lists(A, n), Lists(B, n),
           \A i \in 1..n : Len(A[i]) = Len(B[i]), NEW S,
           \A i \in 1..n : \A k \in 1..Len(A[i]) : A[i][k] \in S
    PROVE  /\ Len(FlattenSeq(A)) \in Nat /\ IsList(FlattenSeq(A), Len(FlattenSeq(A)))
           /\ \A j \in 1..Len(FlattenSeq(A)) : FlattenSeq(A)[j] \in S
           /\ \A i \in 1..n : Holds(FlattenSeq(A), Len(FlattenSeq(SubSeq(B, 1, i - 1))), A[i])
<1>1. PICK f : Joins(f, A, n)
  BY JoinExists
<1>2. PICK g : Joins(g, B, n)
  BY JoinExists
<1>3. n \in Nat /\ IsList(A, n) /\ n \in 0..n
  BY DEF Lists
<1>4. FlattenSeq(A) = f[n]
  <2>1. SubSeq(A, 1, n) = A
    BY <1>3, ListSeq, SubSeqFull
  <2>2. FlattenSeq(SubSeq(A, 1, n)) = f[n]
    BY <1>1, <1>3, FlattenJoins
  <2> QED  BY <2>1, <2>2
<1>5. Len(f[n]) \in Nat /\ IsList(f[n], Len(f[n]))
  BY <1>1, <1>3, JoinIsList
<1>6. \A k \in 1..Len(f[n]) : f[n][k] \in S
  BY <1>1, JoinValues
<1>7. ASSUME NEW i \in 1..n
      PROVE  Holds(f[n], Len(FlattenSeq(SubSeq(B, 1, i - 1))), A[i])
  <2>1. i - 1 \in 0..n
    BY <1>3
  <2>2. FlattenSeq(SubSeq(B, 1, i - 1)) = g[i - 1]
    BY <1>2, <2>1, FlattenJoins
  <2>3. Len(f[i - 1]) = Len(g[i - 1])
    BY <1>1, <1>2, <2>1, JoinLens
  <2>4. Holds(f[n], Len(f[i - 1]), A[i])
    BY <1>1, JoinHolds
  <2> QED  BY <2>2, <2>3, <2>4
<1> QED  BY <1>4, <1>5, <1>6, <1>7

(***************************************************************************)
(* The reference computation.                                              *)
(***************************************************************************)

\* The states after layer l, given those below it.
Grow(l, below, tokens) ==
    [n \in DOMAIN tokens |-> below[n] \o <<ReferenceMixer(l, below, n), ReferenceMlp(l, tokens[n])>>]

Layered(states, tokens, top) ==
    /\ states[0] = Embed(tokens)
    /\ \A l \in 1..top : states[l] = Grow(l, states[l - 1], tokens)

\* The recursion of Reference over the layers has a solution.
LEMMA LayeredExists ==
    ASSUME NEW top \in Nat, NEW tokens
    PROVE  \E states : Layered(states, tokens, top)
<1> DEFINE T == {k \in 0..top : \E states : Layered(states, tokens, k)}
<1>1. 0 \in T
  <2>1. Layered([l \in 0..top |-> Embed(tokens)], tokens, 0)
    BY DEF Layered
  <2> QED  BY <2>1
<1>2. ASSUME NEW k \in 1..top, k - 1 \in T PROVE k \in T
  <2>1. PICK states : Layered(states, tokens, k - 1)
    BY <1>2
  <2> DEFINE more == [l \in 0..top |-> IF l < k THEN states[l] ELSE Grow(k, states[k - 1], tokens)]
  <2>2. more[0] = Embed(tokens)
    BY <2>1 DEF Layered
  <2>3. ASSUME NEW l \in 1..k PROVE more[l] = Grow(l, more[l - 1], tokens)
    <3>1. l \in Nat /\ l - 1 \in 0..top /\ l \in 0..top /\ k \in Nat /\ l - 1 < k /\ l <= k
      OBVIOUS
    <3>2. CASE l < k
      <4>1. l \in 1..(k - 1)
        BY <3>1, <3>2
      <4>2. states[l] = Grow(l, states[l - 1], tokens)
        BY <2>1, <4>1 DEF Layered
      <4> QED  BY <3>1, <3>2, <4>2
    <3>3. CASE ~(l < k)
      <4>1. l = k /\ more[l - 1] = states[k - 1]
        BY <3>1, <3>3
      <4>2. more[l] = Grow(k, states[k - 1], tokens)
        BY <3>1, <3>3
      <4> QED  BY <4>1, <4>2
    <3> QED  BY <3>2, <3>3
  <2>4. Layered(more, tokens, k)
    BY <2>2, <2>3 DEF Layered
  <2> QED  BY <2>4
<1> HIDE DEF T
<1>3. \A k \in 0..top : k \in T
  BY <1>1, <1>2, UpTo
<1>4. top \in T
  BY <1>3
<1> QED  BY <1>4 DEF T

\* Reference is that solution: each layer is computed from the one below it.
LEMMA ReferenceLayered ==
    ASSUME Layers \in Nat, NEW tokens
    PROVE  Layered(Reference(tokens), tokens, Layers)
<1> DEFINE Unfolds(r) == r = [l \in 0..Layers |->
                IF l = 0 THEN Embed(tokens)
                ELSE [n \in DOMAIN tokens |->
                        r[l - 1][n] \o <<ReferenceMixer(l, r[l - 1], n), ReferenceMlp(l, tokens[n])>>]]
<1>1. Reference(tokens) = CHOOSE r : Unfolds(r)
  BY DEF Reference
<1>2. PICK states : Layered(states, tokens, Layers)
  BY LayeredExists
<1>3. Unfolds([l \in 0..Layers |-> states[l]])
  <2> DEFINE r == [l \in 0..Layers |-> states[l]]
  <2>1. ASSUME NEW l \in 0..Layers
        PROVE  r[l] = IF l = 0 THEN Embed(tokens)
                      ELSE [n \in DOMAIN tokens |->
                        r[l - 1][n] \o <<ReferenceMixer(l, r[l - 1], n), ReferenceMlp(l, tokens[n])>>]
    <3>1. CASE l = 0
      BY <1>2, <3>1 DEF Layered
    <3>2. CASE l # 0
      <4>1. l \in 1..Layers /\ l - 1 \in 0..Layers /\ r[l - 1] = states[l - 1] /\ r[l] = states[l]
        BY <3>2
      <4>2. states[l] = Grow(l, states[l - 1], tokens)
        BY <1>2, <4>1 DEF Layered
      <4> HIDE DEF r
      <4> QED  BY <3>2, <4>1, <4>2 DEF Grow
    <3> QED  BY <3>1, <3>2
  <2> QED  BY <2>1
<1>4. Unfolds(Reference(tokens))
  BY <1>1, <1>3, Zenon
<1>5. Reference(tokens)[0] = Embed(tokens)
  BY <1>4
<1>6. ASSUME NEW l \in 1..Layers
      PROVE  Reference(tokens)[l] = Grow(l, Reference(tokens)[l - 1], tokens)
  <2> DEFINE r == Reference(tokens)
  <2>1. Unfolds(r)
    BY <1>4
  <2> HIDE DEF r
  <2>2. l \in 0..Layers /\ l # 0
    OBVIOUS
  <2>3. r[l] = [n \in DOMAIN tokens |->
                  r[l - 1][n] \o <<ReferenceMixer(l, r[l - 1], n), ReferenceMlp(l, tokens[n])>>]
    BY <2>1, <2>2
  <2>4. r[l] = Grow(l, r[l - 1], tokens)
    BY <2>3, Zenon DEF Grow
  <2> QED  BY <2>4 DEF r
<1> QED  BY <1>5, <1>6 DEF Layered

\* A hidden state starts with the token of its position.
StateOf(state, token) == \E m \in Nat \ {0} : IsList(state, m) /\ state[1] = token

StatesOf(states, tokens, n) ==
    IsList(states, n) /\ \A k \in 1..n : StateOf(states[k], tokens[k])

\* What a layer adds comes at the end of a state.
LEMMA StateGrows ==
    ASSUME NEW state, NEW token, StateOf(state, token), NEW a, NEW b
    PROVE  /\ StateOf(state \o <<a, b>>, token)
           /\ (state \o <<a, b>>)[Len(state \o <<a, b>>) - 1] = a
<1>1. PICK m \in Nat \ {0} : IsList(state, m) /\ state[1] = token
  BY DEF StateOf
<1>2. IsList(<<a, b>>, 2) /\ <<a, b>>[1] = a
  BY DEF IsList
<1> DEFINE t == <<a, b>>
<1> HIDE DEF t
<1>3. /\ IsList(state \o t, m + 2) /\ Len(state \o t) = m + 2
      /\ \A k \in 1..m : (state \o t)[k] = state[k]
      /\ \A k \in 1..2 : (state \o t)[m + k] = t[k]
  <2>1. Concatenates(state, m, t, 2)
    BY <1>1, <1>2, ListConcat DEF t
  <2> QED  BY <2>1 DEF Concatenates
<1>4. (state \o t)[1] = token
  BY <1>1, <1>3
<1>5. (state \o t)[Len(state \o t) - 1] = a
  <2>1. Len(state \o t) - 1 = m + 1 /\ 1 \in 1..2
    BY <1>1, <1>3
  <2> QED  BY <1>2, <1>3, <2>1 DEF t
<1>6. m + 2 \in Nat \ {0}
  BY <1>1
<1> QED  BY <1>3, <1>4, <1>5, <1>6 DEF StateOf, t

\* After any layer the reference has one state for every token, and the state still
\* tells its token.
LEMMA ReferenceStates ==
    ASSUME Layers \in Nat, NEW n \in Nat, NEW tokens, IsList(tokens, n)
    PROVE  \A l \in 0..Layers : StatesOf(Reference(tokens)[l], tokens, n)
<1> DEFINE T == {l \in 0..Layers : StatesOf(Reference(tokens)[l], tokens, n)}
<1>1. Layered(Reference(tokens), tokens, Layers)
  BY ReferenceLayered
<1>2. DOMAIN tokens = 1..n
  BY ListSeq
<1>3. 0 \in T
  <2>1. IsList(Embed(tokens), n)
    BY <1>2 DEF Embed, IsList
  <2>2. ASSUME NEW k \in 1..n PROVE StateOf(Embed(tokens)[k], tokens[k])
    <3>1. Embed(tokens)[k] = <<tokens[k]>>
      BY <1>2 DEF Embed
    <3>2. IsList(<<tokens[k]>>, 1)
      BY DEF IsList
    <3>3. 1 \in Nat \ {0} /\ <<tokens[k]>>[1] = tokens[k]
      OBVIOUS
    <3> QED  BY <3>1, <3>2, <3>3 DEF StateOf
  <2>3. StatesOf(Reference(tokens)[0], tokens, n)
    BY <1>1, <2>1, <2>2 DEF StatesOf, Layered
  <2> QED  BY <2>3
<1>4. ASSUME NEW l \in 1..Layers, l - 1 \in T PROVE l \in T
  <2> DEFINE below == Reference(tokens)[l - 1]
  <2>1. StatesOf(below, tokens, n)
    BY <1>4
  <2>2. Reference(tokens)[l] = Grow(l, below, tokens)
    BY <1>1 DEF Layered
  <2> HIDE DEF below
  <2>3. IsList(Grow(l, below, tokens), n)
    BY <1>2 DEF Grow, IsList
  <2>4. ASSUME NEW k \in 1..n PROVE StateOf(Grow(l, below, tokens)[k], tokens[k])
    <3>1. Grow(l, below, tokens)[k]
            = below[k] \o <<ReferenceMixer(l, below, k), ReferenceMlp(l, tokens[k])>>
      BY <1>2 DEF Grow
    <3>2. StateOf(below[k], tokens[k])
      BY <2>1 DEF StatesOf
    <3> QED  BY <3>1, <3>2, StateGrows
  <2>5. StatesOf(Reference(tokens)[l], tokens, n)
    BY <2>2, <2>3, <2>4 DEF StatesOf
  <2> QED  BY <2>5
<1> HIDE DEF T
<1>5. \A l \in 0..Layers : l \in T
  BY <1>3, <1>4, UpTo
<1> QED  BY <1>5 DEF T

\* What the proofs use of a model.
LEMMA ModelFacts ==
    ASSUME ModelType(model)
    PROVE  /\ Layers \in Nat \ {0} /\ model.sparse \subseteq 1..Layers
           /\ model.window \in Nat /\ model.kernel \in Nat \ {0} /\ History \in Nat
           /\ model.kernel = History + 1
           /\ model.topK \in 1..Cardinality(Experts(model)) /\ model.vocab \in Nat \ {0}
           /\ Experts(model) \subseteq Nat /\ IsFiniteSet(Experts(model))
           /\ DOMAIN model.gate = 0..(model.vocab - 1)
           /\ \A t \in DOMAIN model.gate : model.gate[t] \in [Experts(model) -> Int \cup {NaN}]
<1>1. model.kinds \in Seq(Kinds) /\ model.kinds # <<>>
  BY DEF ModelType
<1>2. Layers \in Nat \ {0} /\ DOMAIN model.kinds = 1..Layers
  BY <1>1, LenProperties, EmptySeq DEF Layers
<1>3. model.window \in Nat /\ model.kernel \in Nat \ {0}
  BY DEF ModelType
<1>4. History \in Nat /\ model.kernel = History + 1
  BY <1>3 DEF History
<1> QED  BY <1>2, <1>3, <1>4 DEF ModelType

FirstSeen(n) == IF model.window = 0 \/ n <= model.window THEN 1 ELSE n - model.window + 1

Taps(below, k) ==
    [tap \in 1..model.kernel |->
        IF k + tap > model.kernel THEN below[k + tap - model.kernel] ELSE Zero]

SeenKeys(below, n) ==
    [k \in 1..(n - FirstSeen(n) + 1) |->
        [at |-> FirstSeen(n) + k - 2, of |-> below[FirstSeen(n) + k - 1]]]

\* The reference's mixer in named parts: visible keys, or taps of the convolution.
LEMMA MixerParts ==
    ASSUME NEW l, NEW below, NEW n
    PROVE  ReferenceMixer(l, below, n) =
             IF model.kinds[l] = "full" THEN [at |-> n - 1, over |-> SeenKeys(below, n)]
             ELSE [query |-> Taps(below, n), state |-> [k \in 1..n |-> Taps(below, k)]]
BY DEF ReferenceMixer, FirstSeen, Taps, SeenKeys

\* The first position a query sees is a position up to its own.
LEMMA FirstSeenType ==
    ASSUME ModelType(model), NEW n \in Nat \ {0}
    PROVE  FirstSeen(n) \in 1..n
<1>1. model.window \in Nat
  BY DEF ModelType
<1> QED  BY <1>1 DEF FirstSeen

\* What a mixer adds to a position depends on the states up to it alone.
LEMMA MixerIsCausal ==
    ASSUME ModelType(model), NEW l, NEW n \in Nat \ {0}, NEW below, NEW other,
           \A k \in 1..n : below[k] = other[k]
    PROVE  ReferenceMixer(l, below, n) = ReferenceMixer(l, other, n)
<1>1. model.kernel \in Nat \ {0} /\ FirstSeen(n) \in 1..n
  BY ModelFacts, FirstSeenType
<1>2. ASSUME NEW k \in 1..n PROVE Taps(below, k) = Taps(other, k)
  <2>1. ASSUME NEW tap \in 1..model.kernel, k + tap > model.kernel
        PROVE  below[k + tap - model.kernel] = other[k + tap - model.kernel]
    <3>1. k + tap - model.kernel \in 1..n
      BY <1>1, <2>1
    <3> QED  BY <3>1
  <2> QED  BY <2>1 DEF Taps
<1>3. SeenKeys(below, n) = SeenKeys(other, n)
  <2>1. ASSUME NEW k \in 1..(n - FirstSeen(n) + 1)
        PROVE  below[FirstSeen(n) + k - 1] = other[FirstSeen(n) + k - 1]
    <3>1. FirstSeen(n) + k - 1 \in 1..n
      BY <1>1
    <3> QED  BY <3>1
  <2> QED  BY <2>1 DEF SeenKeys
<1>4. n \in 1..n
  OBVIOUS
<1>5. [k \in 1..n |-> Taps(below, k)] = [k \in 1..n |-> Taps(other, k)]
  BY <1>2
<1> QED  BY <1>2, <1>3, <1>4, <1>5, MixerParts

\* The states of a prefix are the states of the whole.
LEMMA ReferenceIsCausal ==
    ASSUME ModelType(model), NEW p \in Nat, NEW n \in Nat, p <= n, NEW prefix, NEW tokens,
           IsList(prefix, p), IsList(tokens, n), \A k \in 1..p : prefix[k] = tokens[k]
    PROVE  \A l \in 0..Layers : \A k \in 1..p : Reference(prefix)[l][k] = Reference(tokens)[l][k]
<1> DEFINE T == {l \in 0..Layers : \A k \in 1..p : Reference(prefix)[l][k] = Reference(tokens)[l][k]}
<1>1. Layers \in Nat
  BY ModelFacts
<1>2. Layered(Reference(prefix), prefix, Layers) /\ Layered(Reference(tokens), tokens, Layers)
  BY <1>1, ReferenceLayered
<1>3. DOMAIN prefix = 1..p /\ DOMAIN tokens = 1..n /\ \A k \in 1..p : k \in 1..n
  <2>1. DOMAIN prefix = 1..p
    BY ListSeq
  <2>2. DOMAIN tokens = 1..n
    BY ListSeq
  <2> QED  BY <2>1, <2>2
<1>4. 0 \in T
  BY <1>1, <1>2, <1>3 DEF Layered, Embed
<1>5. ASSUME NEW l \in 1..Layers, l - 1 \in T PROVE l \in T
  <2> DEFINE a == Reference(prefix)[l - 1]  b == Reference(tokens)[l - 1]
  <2>1. Reference(prefix)[l] = Grow(l, a, prefix) /\ Reference(tokens)[l] = Grow(l, b, tokens)
    BY <1>2 DEF Layered
  <2>2. \A k \in 1..p : a[k] = b[k]
    BY <1>5
  <2> HIDE DEF a, b
  <2>3. ASSUME NEW k \in 1..p PROVE Grow(l, a, prefix)[k] = Grow(l, b, tokens)[k]
    <3>1. k \in Nat \ {0} /\ \A j \in 1..k : a[j] = b[j]
      BY <2>2
    <3>2. ReferenceMixer(l, a, k) = ReferenceMixer(l, b, k)
      BY <3>1, MixerIsCausal
    <3>3. a[k] = b[k] /\ prefix[k] = tokens[k]
      BY <2>2
    <3>4. Grow(l, a, prefix)[k] = a[k] \o <<ReferenceMixer(l, a, k), ReferenceMlp(l, prefix[k])>>
      BY <1>3 DEF Grow
    <3>5. Grow(l, b, tokens)[k] = b[k] \o <<ReferenceMixer(l, b, k), ReferenceMlp(l, tokens[k])>>
      BY <1>3 DEF Grow
    <3> QED  BY <3>2, <3>3, <3>4, <3>5
  <2>4. l \in 0..Layers
    BY <1>1
  <2> QED  BY <2>1, <2>3, <2>4
<1> HIDE DEF T
<1>6. \A l \in 0..Layers : l \in T
  BY <1>1, <1>4, <1>5, UpTo
<1> QED  BY <1>6 DEF T

(***************************************************************************)
(* The mixers: a step of w tokens after p tokens, with what the cache kept *)
(* of the p, adds what the reference adds to the positions p + 1 .. p + w. *)
(***************************************************************************)

KeysOf(keys, below, n) ==
    IsList(keys, n) /\ \A k \in 1..n : keys[k] = [at |-> k - 1, of |-> below[k]]

\* The states of the step are those of the reference behind position p.
Behind(states, below, p, w) ==
    IsList(states, w) /\ \A k \in 1..w : states[k] = below[p + k]

\* append_cache: keys of p positions and those of a step of w are the keys of p + w.
LEMMA KeysGrow ==
    ASSUME NEW p \in Nat, NEW w \in Nat, NEW below, NEW states, Behind(states, below, p, w),
           NEW keys, KeysOf(keys, below, p)
    PROVE  KeysOf(keys \o Keys(states, p), below, p + w)
<1> DEFINE new == Keys(states, p)
<1>1. DOMAIN states = 1..w
  BY ListSeq DEF Behind
<1>2. IsList(new, w)
  BY <1>1 DEF Keys, IsList
<1>3. ASSUME NEW k \in 1..w PROVE new[k] = [at |-> (p + k) - 1, of |-> below[p + k]]
  BY <1>1 DEF Keys, Rotated, Behind
<1> HIDE DEF new
<1>4. IsList(keys, p) /\ \A k \in 1..p : keys[k] = [at |-> k - 1, of |-> below[k]]
  BY DEF KeysOf
<1>5. /\ IsList(keys \o new, p + w)
      /\ \A k \in 1..p : (keys \o new)[k] = keys[k]
      /\ \A k \in 1..w : (keys \o new)[p + k] = new[k]
  <2>1. Concatenates(keys, p, new, w)
    BY <1>2, <1>4, ListConcat
  <2> QED  BY <2>1 DEF Concatenates
<1>6. ASSUME NEW k \in 1..(p + w) PROVE (keys \o new)[k] = [at |-> k - 1, of |-> below[k]]
  <2>1. CASE k <= p
    <3>1. k \in 1..p
      BY <2>1
    <3> QED  BY <1>4, <1>5, <3>1
  <2>2. CASE ~(k <= p)
    <3>1. k - p \in 1..w /\ p + (k - p) = k
      BY <2>2
    <3>2. (keys \o new)[p + (k - p)] = new[k - p]
      BY <1>5, <3>1
    <3>3. new[k - p] = [at |-> (p + (k - p)) - 1, of |-> below[p + (k - p)]]
      BY <1>3, <3>1
    <3> QED  BY <3>1, <3>2, <3>3
  <2> QED  BY <2>1, <2>2
<1> QED  BY <1>5, <1>6 DEF KeysOf, new

\* Mask or not, a query sees the keys from FirstSeen to its own.
LEMMA VisibleKeys ==
    ASSUME ModelType(model), NEW p \in Nat, NEW w \in Nat \ {0}, NEW q \in 1..w
    PROVE  Visible(p + w, p + q - 1, w) = (FirstSeen(p + q) - 1)..(p + q - 1)
<1>1. model.window \in Nat
  BY ModelFacts
<1>2. CASE w > 1 \/ model.window # 0
  <2>1. Visible(p + w, p + q - 1, w) = FirstKey(p + q - 1)..(p + q - 1)
    BY <1>2 DEF Visible, Masked
  <2>2. FirstKey(p + q - 1) = FirstSeen(p + q) - 1
    BY <1>1 DEF FirstKey, FirstSeen
  <2> QED  BY <2>1, <2>2
<1>3. CASE ~(w > 1 \/ model.window # 0)
  <2>1. w = 1 /\ q = 1 /\ model.window = 0
    BY <1>3
  <2>2. Visible(p + w, p + q - 1, w) = 0..(p + w - 1)
    BY <1>3 DEF Visible, Masked
  <2>3. FirstSeen(p + q) = 1
    BY <2>1 DEF FirstSeen
  <2> QED  BY <2>1, <2>2, <2>3
<1> QED  BY <1>2, <1>3

\* The least and the greatest member of an interval.
LEMMA Ends ==
    ASSUME NEW a \in Int, NEW b \in Int, a <= b
    PROVE  /\ (CHOOSE k \in a..b : \A j \in a..b : k <= j) = a
           /\ (CHOOSE k \in a..b : \A j \in a..b : k >= j) = b
<1>1. a \in a..b /\ \A j \in a..b : a <= j
  OBVIOUS
<1>2. b \in a..b /\ \A j \in a..b : b >= j
  OBVIOUS
<1>3. \A k \in a..b : (\A j \in a..b : k <= j) => k = a
  BY <1>1
<1>4. \A k \in a..b : (\A j \in a..b : k >= j) => k = b
  BY <1>2
<1> QED  BY <1>1, <1>2, <1>3, <1>4

\* Cached attention with its rotary offset and its mask adds to the positions of a
\* step what the reference adds to them, with and without a window, at any width.
LEMMA AttendIsTheReference ==
    ASSUME ModelType(model), NEW p \in Nat, NEW w \in Nat \ {0}, NEW below, NEW states,
           Behind(states, below, p, w), NEW keys, KeysOf(keys, below, p + w)
    PROVE  \A q \in 1..w : Attend(states, keys, p)[q]
                             = [at |-> (p + q) - 1, over |-> SeenKeys(below, p + q)]
<1> SUFFICES ASSUME NEW q \in 1..w
             PROVE  Attend(states, keys, p)[q]
                      = [at |-> (p + q) - 1, over |-> SeenKeys(below, p + q)]
  OBVIOUS
<1> DEFINE n == p + q
           first == FirstSeen(n)
           seen == (first - 1)..(n - 1)
<1>1. DOMAIN states = 1..w /\ Len(states) = w
  BY ListSeq DEF Behind
<1>2. Len(keys) = p + w
  <2>1. p + w \in Nat
    OBVIOUS
  <2> QED  BY <2>1, ListSeq DEF KeysOf
<1>3. n \in Nat \ {0} /\ first \in 1..n /\ n <= p + w
  BY FirstSeenType
<1>4. Visible(Len(keys), p + q - 1, Len(states)) = seen
  <2>1. Visible(p + w, p + q - 1, w) = (FirstSeen(p + q) - 1)..(p + q - 1)
    BY VisibleKeys
  <2>2. n - 1 = p + q - 1
    OBVIOUS
  <2> QED  BY <1>1, <1>2, <2>1, <2>2
<1>5. Attend(states, keys, p)[q] =
        [at |-> p + q - 1,
         over |-> SubSeq(keys, 1 + CHOOSE k \in seen : \A j \in seen : k <= j,
                               1 + CHOOSE k \in seen : \A j \in seen : k >= j)]
  BY <1>1, <1>4 DEF Attend, Rotated
<1>6. SubSeq(keys, 1 + CHOOSE k \in seen : \A j \in seen : k <= j,
                   1 + CHOOSE k \in seen : \A j \in seen : k >= j) = SubSeq(keys, first, n)
  <2> HIDE DEF first, n
  <2>1. first - 1 \in Int /\ n - 1 \in Int /\ first - 1 <= n - 1
    BY <1>3
  <2>2. /\ (CHOOSE k \in seen : \A j \in seen : k <= j) = first - 1
        /\ (CHOOSE k \in seen : \A j \in seen : k >= j) = n - 1
    BY <2>1, Ends
  <2>3. 1 + (first - 1) = first /\ 1 + (n - 1) = n
    BY <1>3
  <2> HIDE DEF seen
  <2> QED  BY <2>2, <2>3
<1>7. SubSeq(keys, first, n) = SeenKeys(below, n)
  <2> DEFINE len == n - first + 1
  <2>1. len \in Nat /\ first \in Int /\ first + len - 1 = n
    BY <1>3
  <2>2. /\ IsList(SubSeq(keys, first, first + len - 1), len)
        /\ \A k \in 1..len : SubSeq(keys, first, first + len - 1)[k] = keys[first + k - 1]
    <3> HIDE DEF len, first
    <3>1. IsCut(SubSeq(keys, first, first + len - 1), keys, first, len)
      BY <2>1, ListCut
    <3> QED  BY <3>1 DEF IsCut
  <2>3. ASSUME NEW k \in 1..len
        PROVE  keys[first + k - 1] = [at |-> first + k - 2, of |-> below[first + k - 1]]
    <3>1. first + k - 1 \in 1..(p + w) /\ (first + k - 1) - 1 = first + k - 2
      BY <1>3
    <3> QED  BY <3>1 DEF KeysOf
  <2>4. IsList(SeenKeys(below, n), len)
    BY DEF SeenKeys, IsList
  <2>5. \A k \in 1..len : SeenKeys(below, n)[k] = [at |-> first + k - 2, of |-> below[first + k - 1]]
    BY DEF SeenKeys
  <2>6. IsList(SubSeq(keys, first, n), len)
    BY <2>1, <2>2
  <2>7. \A k \in 1..len : SubSeq(keys, first, n)[k] = SeenKeys(below, n)[k]
    BY <2>1, <2>2, <2>3, <2>5
  <2> HIDE DEF len, first, n
  <2> QED  BY <2>1, <2>4, <2>6, <2>7, ListEqual
<1>8. n - 1 = p + q - 1
  OBVIOUS
<1> HIDE DEF first, seen
<1> QED  BY <1>5, <1>6, <1>7, <1>8

(***************************************************************************)
(* The delta net.                                                          *)
(***************************************************************************)

\* The inputs of the convolution, History zeros ahead of them.
PaddedAt(below, x) == IF x > History THEN below[x - History] ELSE Zero
\* What is to the left of position n, as the convolution reads it.
Padded(below, n) == [i \in 1..History |-> PaddedAt(below, n + i)]

TapsUpTo(below, n) == [k \in 1..n |-> Taps(below, k)]

Reads(window, below, p, n) == \A x \in 1..n : window[x] = PaddedAt(below, p + x)

\* The window over history and new states is the padded sequence.
LEMMA WindowReads ==
    ASSUME ModelType(model), NEW p \in Nat, NEW w \in Nat \ {0}, NEW below, NEW states,
           Behind(states, below, p, w)
    PROVE  Reads(Padded(below, p) \o states, below, p, History + w)
<1> DEFINE past == Padded(below, p)
<1>1. History \in Nat
  BY ModelFacts
<1>2. IsList(past, History)
  BY DEF Padded, IsList
<1>3. \A i \in 1..History : past[i] = PaddedAt(below, p + i)
  BY DEF Padded
<1>4. IsList(states, w) /\ \A k \in 1..w : states[k] = below[p + k]
  BY DEF Behind
<1> HIDE DEF past
<1>5. /\ \A k \in 1..History : (past \o states)[k] = past[k]
      /\ \A k \in 1..w : (past \o states)[History + k] = states[k]
  <2>1. Concatenates(past, History, states, w)
    BY <1>1, <1>2, <1>4, ListConcat
  <2> QED  BY <2>1 DEF Concatenates
<1>6. ASSUME NEW x \in 1..(History + w)
      PROVE  (past \o states)[x] = PaddedAt(below, p + x)
  <2>1. CASE x <= History
    <3>1. x \in 1..History
      BY <1>1, <2>1
    <3> QED  BY <1>3, <1>5, <3>1
  <2>2. CASE ~(x <= History)
    <3>1. x - History \in 1..w /\ History + (x - History) = x /\ p + x > History
          /\ p + (x - History) = p + x - History
      BY <1>1, <2>2
    <3>2. (past \o states)[History + (x - History)] = states[x - History]
      BY <1>5, <3>1
    <3>3. states[x - History] = below[p + (x - History)]
      BY <1>4, <3>1
    <3>4. PaddedAt(below, p + x) = below[p + x - History]
      BY <1>1, <3>1 DEF PaddedAt
    <3> QED  BY <3>1, <3>2, <3>3, <3>4
  <2> QED  BY <2>1, <2>2
<1> QED  BY <1>6 DEF past, Reads

\* What the recurrence adds to the positions after p.
DeltaReads(delta, below, p, w) ==
    \A n \in 1..w : delta[n] = [query |-> Taps(below, p + n), state |-> TapsUpTo(below, p + n)]

\* The delta net, from the convolution history and the updates of p positions, leaves
\* those of p + w and reads at each position the state the reference has there.
LEMMA LinearIsTheReference ==
    ASSUME ModelType(model), NEW p \in Nat, NEW w \in Nat \ {0}, NEW below, NEW states,
           Behind(states, below, p, w), NEW held, NEW b,
           ConvHistory(held, b) = Padded(below, p), Updates(held, b) = TapsUpTo(below, p)
    PROVE  /\ LinearState(states, held, b)
                = [conv |-> Padded(below, p + w), updates |-> TapsUpTo(below, p + w)]
           /\ DeltaReads(Delta(states, held, b), below, p, w)
<1> DEFINE window == ConvHistory(held, b) \o states
           new == Convolved(window, w)
           after == TapsUpTo(below, p) \o new
<1>1. History \in Nat /\ model.kernel = History + 1
  BY ModelFacts
<1>2. DOMAIN states = 1..w /\ Len(states) = w
  BY ListSeq DEF Behind
<1>3. \A x \in 1..(History + w) : window[x] = PaddedAt(below, p + x)
  <2>1. Reads(Padded(below, p) \o states, below, p, History + w)
    BY WindowReads
  <2> QED  BY <2>1 DEF Reads
<1>4. \A n \in 1..w : new[n] = Taps(below, p + n)
  <2> SUFFICES ASSUME NEW n \in 1..w PROVE new[n] = Taps(below, p + n)
    OBVIOUS
  <2>1. new[n] = [tap \in 1..model.kernel |-> window[n + tap - 1]]
    BY DEF Convolved
  <2>2. ASSUME NEW tap \in 1..model.kernel
        PROVE  window[n + tap - 1] =
                 IF (p + n) + tap > model.kernel THEN below[(p + n) + tap - model.kernel] ELSE Zero
    <3> HIDE DEF window
    <3>1. n + tap - 1 \in 1..(History + w)
      BY <1>1
    <3>2. window[n + tap - 1] = PaddedAt(below, p + (n + tap - 1))
      BY <1>3, <3>1
    <3>3. p + (n + tap - 1) > History <=> (p + n) + tap > model.kernel
      BY <1>1
    <3>4. p + (n + tap - 1) - History = (p + n) + tap - model.kernel
      BY <1>1
    <3> QED  BY <1>1, <3>2, <3>3, <3>4 DEF PaddedAt
  <2> HIDE DEF window, new
  <2> QED  BY <2>1, <2>2 DEF Taps
<1>5. KeptHistory(window, w) = Padded(below, p + w)
  <2> DEFINE kept == SubSeq(window, w + 1, (w + 1) + History - 1)
  <2>1. IsList(kept, History) /\ \A i \in 1..History : kept[i] = window[(w + 1) + i - 1]
    <3> HIDE DEF window
    <3>1. w + 1 \in Int
      OBVIOUS
    <3>2. IsCut(kept, window, w + 1, History)
      BY <1>1, <3>1, ListCut
    <3> HIDE DEF kept
    <3> QED  BY <3>2 DEF IsCut
  <2>2. (w + 1) + History - 1 = w + History
    BY <1>1
  <2>3. KeptHistory(window, w) = kept
    BY <2>2 DEF KeptHistory
  <2>4. ASSUME NEW i \in 1..History PROVE kept[i] = Padded(below, p + w)[i]
    <3> HIDE DEF window, kept
    <3>1. (w + 1) + i - 1 \in 1..(History + w) /\ (w + 1) + i - 1 = w + i
      BY <1>1
    <3>2. kept[i] = PaddedAt(below, p + (w + i))
      BY <1>3, <2>1, <3>1
    <3>3. p + (w + i) = (p + w) + i
      BY <1>1
    <3>4. Padded(below, p + w)[i] = PaddedAt(below, (p + w) + i)
      BY DEF Padded
    <3> QED  BY <3>2, <3>3, <3>4
  <2>5. IsList(Padded(below, p + w), History)
    BY DEF Padded, IsList
  <2> HIDE DEF kept, window
  <2> QED  BY <1>1, <2>1, <2>3, <2>4, <2>5, ListEqual
<1>6. IsList(new, w)
  BY DEF Convolved, IsList
<1>7. IsList(TapsUpTo(below, p), p) /\ IsList(TapsUpTo(below, p + w), p + w)
      /\ Len(TapsUpTo(below, p)) = p
  <2>1. IsList(TapsUpTo(below, p), p) /\ IsList(TapsUpTo(below, p + w), p + w)
    BY DEF TapsUpTo, IsList
  <2> QED  BY <2>1, ListSeq
<1>8. after = TapsUpTo(below, p + w)
  <2> DEFINE old == TapsUpTo(below, p)  all == TapsUpTo(below, p + w)
  <2>1. \A k \in 1..p : old[k] = Taps(below, k)
    BY DEF TapsUpTo
  <2>2. \A k \in 1..(p + w) : all[k] = Taps(below, k)
    BY DEF TapsUpTo
  <2>3. w \in Nat /\ p + w \in Nat
    OBVIOUS
  <2> HIDE DEF new, old, all
  <2>4. /\ IsList(old \o new, p + w)
        /\ \A k \in 1..p : (old \o new)[k] = old[k]
        /\ \A k \in 1..w : (old \o new)[p + k] = new[k]
    <3>1. IsList(old, p)
      BY <1>7 DEF old
    <3>2. Concatenates(old, p, new, w)
      BY <1>6, <2>3, <3>1, ListConcat
    <3> QED  BY <3>2 DEF Concatenates
  <2>5. ASSUME NEW k \in 1..(p + w) PROVE (old \o new)[k] = all[k]
    <3>1. CASE k <= p
      <4>1. k \in 1..p
        BY <3>1
      <4> QED  BY <2>1, <2>2, <2>4, <4>1
    <3>2. CASE ~(k <= p)
      <4>1. k - p \in 1..w /\ p + (k - p) = k
        BY <3>2
      <4>2. (old \o new)[p + (k - p)] = new[k - p] /\ new[k - p] = Taps(below, p + (k - p))
        BY <1>4, <2>4, <4>1
      <4> QED  BY <2>2, <4>1, <4>2
    <3> QED  BY <3>1, <3>2
  <2>6. IsList(all, p + w)
    BY <1>7 DEF all
  <2>7. old \o new = all
    BY <2>3, <2>4, <2>5, <2>6, ListEqual
  <2> QED  BY <2>7 DEF old, all
<1>9. LinearState(states, held, b)
        = [conv |-> Padded(below, p + w), updates |-> TapsUpTo(below, p + w)]
  BY <1>2, <1>5, <1>8 DEF LinearState
<1>10. ASSUME NEW n \in 1..w
       PROVE  Delta(states, held, b)[n]
                = [query |-> Taps(below, p + n), state |-> TapsUpTo(below, p + n)]
  <2> DEFINE all == TapsUpTo(below, p + w)
  <2>1. Delta(states, held, b)[n] = [query |-> all[p + n], state |-> SubSeq(all, 1, p + n)]
    BY <1>2, <1>7, <1>9 DEF Delta
  <2>2. all[p + n] = Taps(below, p + n)
    BY DEF TapsUpTo
  <2>3. SubSeq(all, 1, p + n) = TapsUpTo(below, p + n)
    <3>1. p + n \in Nat /\ 1 \in Int /\ 1 + (p + n) - 1 = p + n /\ \A k \in 1..(p + n) : 1 + k - 1 = k
      OBVIOUS
    <3> DEFINE m == p + n  cut == SubSeq(all, 1, 1 + m - 1)
    <3>2. IsList(cut, m) /\ \A k \in 1..m : cut[k] = all[1 + k - 1]
      <4>1. m \in Nat /\ 1 \in Int
        BY <3>1
      <4> HIDE DEF all, m
      <4>2. IsCut(cut, all, 1, m)
        BY <4>1, ListCut
      <4> HIDE DEF cut
      <4> QED  BY <4>2 DEF IsCut
    <3>3. \A k \in 1..m : all[k] = Taps(below, k)
      BY DEF TapsUpTo
    <3>4. IsList(TapsUpTo(below, m), m) /\ \A k \in 1..m : TapsUpTo(below, m)[k] = Taps(below, k)
      BY DEF TapsUpTo, IsList
    <3>5. \A k \in 1..m : cut[k] = TapsUpTo(below, m)[k]
      <4> HIDE DEF all, cut
      <4> QED  BY <3>1, <3>2, <3>3, <3>4
    <3>6. cut = TapsUpTo(below, m)
      <4> HIDE DEF cut, m
      <4> QED  BY <3>1, <3>2, <3>4, <3>5, ListEqual DEF m
    <3> QED  BY <3>1, <3>6
  <2> QED  BY <2>1, <2>2, <2>3
<1>11. DeltaReads(Delta(states, held, b), below, p, w)
  BY <1>10 DEF DeltaReads
<1> QED  BY <1>9, <1>11

(***************************************************************************)
(* Routing.                                                                *)
(***************************************************************************)

AheadIn(row) == [e \in DOMAIN row |-> {f \in DOMAIN row : Better(row, f, e)}]
Below(experts) == [e \in experts |-> {f \in experts : f < e}]

IsTop(top, row) ==
    /\ top \in SUBSET DOMAIN row /\ Cardinality(top) = model.topK
    /\ \A e \in top, f \in DOMAIN row \ top : Better(row, e, f)

\* The ascending order of a finite set of experts is total.
LEMMA AscendingOrders ==
    ASSUME NEW experts, experts \subseteq Nat, IsFiniteSet(experts)
    PROVE  Orders(Below(experts)) /\ DOMAIN Below(experts) = experts
           /\ Ascending(experts) = InOrder(Below(experts))
<1>1. DOMAIN Below(experts) = experts /\ Ascending(experts) = InOrder(Below(experts))
  BY DEF Below, Ascending
<1>2. \A e \in experts : Below(experts)[e] = {f \in experts : f < e}
  BY DEF Below
<1>3. Below(experts) \in [experts -> SUBSET experts]
  BY DEF Below
<1>4. \A e, f \in experts : e \in Below(experts)[f] => Below(experts)[e] \subseteq Below(experts)[f]
  <2> SUFFICES ASSUME NEW e \in experts, NEW f \in experts, e < f, NEW g \in experts, g < e
               PROVE  g < f
    BY <1>2
  <2> QED  OBVIOUS
<1>5. \A e, f \in experts : e # f => e \in Below(experts)[f] \/ f \in Below(experts)[e]
  BY <1>2
<1>6. \A e \in experts : e \notin Below(experts)[e]
  BY <1>2
<1> QED  BY <1>1, <1>3, <1>4, <1>5, <1>6 DEF Orders

\* The router's order, by probability and then by index, is total.
LEMMA RankedOrders ==
    ASSUME NEW experts, experts \subseteq Nat, IsFiniteSet(experts), NEW row \in [experts -> Int]
    PROVE  Orders(AheadIn(row)) /\ DOMAIN AheadIn(row) = experts
           /\ Ranked(row) = InOrder(AheadIn(row))
<1>1. DOMAIN AheadIn(row) = experts /\ Ranked(row) = InOrder(AheadIn(row))
  BY DEF AheadIn, Ranked
<1>2. \A e \in experts : AheadIn(row)[e] = {f \in experts : Better(row, f, e)}
  BY DEF AheadIn
<1>3. AheadIn(row) \in [experts -> SUBSET experts]
  BY DEF AheadIn
<1>4. \A e, f, g \in experts : Better(row, g, e) /\ Better(row, e, f) => Better(row, g, f)
  <2> SUFFICES ASSUME NEW e \in experts, NEW f \in experts, NEW g \in experts,
                      Better(row, g, e), Better(row, e, f)
               PROVE  Better(row, g, f)
    OBVIOUS
  <2>1. row[e] \in Int /\ row[f] \in Int /\ row[g] \in Int /\ e \in Nat /\ f \in Nat /\ g \in Nat
    OBVIOUS
  <2> QED  BY <2>1 DEF Better
<1>5. \A e, f \in experts : e # f => Better(row, e, f) \/ Better(row, f, e)
  <2> SUFFICES ASSUME NEW e \in experts, NEW f \in experts, e # f
               PROVE  Better(row, e, f) \/ Better(row, f, e)
    OBVIOUS
  <2>1. row[e] \in Int /\ row[f] \in Int /\ e \in Nat /\ f \in Nat
    OBVIOUS
  <2> QED  BY <2>1 DEF Better
<1>6. \A e \in experts : ~Better(row, e, e)
  <2> SUFFICES ASSUME NEW e \in experts PROVE ~Better(row, e, e)
    OBVIOUS
  <2>1. row[e] \in Int /\ e \in Nat
    OBVIOUS
  <2> QED  BY <2>1 DEF Better
<1>7. \A e, f \in experts : e \in AheadIn(row)[f] => AheadIn(row)[e] \subseteq AheadIn(row)[f]
  BY <1>2, <1>4
<1>8. \A e, f \in experts : e # f => e \in AheadIn(row)[f] \/ f \in AheadIn(row)[e]
  BY <1>2, <1>5
<1>9. \A e \in experts : e \notin AheadIn(row)[e]
  BY <1>2, <1>6
<1> QED  BY <1>1, <1>3, <1>7, <1>8, <1>9 DEF Orders

\* What select_routes picks is what TopExperts means.
LEMMA TopIsRanked ==
    ASSUME NEW experts, experts \subseteq Nat, IsFiniteSet(experts), NEW row \in [experts -> Int],
           model.topK \in 1..Cardinality(experts)
    PROVE  LET chosen == SubSeq(Ranked(row), 1, model.topK) IN
           /\ IsList(chosen, model.topK) /\ model.topK \in Nat \ {0}
           /\ ToSet(chosen) = TopExperts(row)
           /\ TopExperts(row) \subseteq experts /\ Cardinality(TopExperts(row)) = model.topK
<1> DEFINE K == model.topK
           N == Cardinality(experts)
           ranked == Ranked(row)
           ahead == AheadIn(row)
           chosen == SubSeq(ranked, 1, K)
           C == {ranked[k] : k \in 1..K}
<1>1. Orders(ahead) /\ DOMAIN ahead = experts /\ ranked = InOrder(ahead)
  BY RankedOrders
<1>2. N \in Nat /\ K \in Nat \ {0} /\ K <= N
  BY FS_CardinalityType
<1>3. /\ ranked \in [1..N -> experts]
      /\ \A k \in 1..N : Cardinality(ahead[ranked[k]]) = k - 1
      /\ \A e \in experts : /\ Cardinality(ahead[e]) \in 0..(N - 1)
                            /\ ranked[Cardinality(ahead[e]) + 1] = e
  <2> HIDE DEF ahead, ranked
  <2> QED  BY <1>1, InOrderLists
<1>4. /\ IsList(chosen, K) /\ \A k \in 1..K : chosen[k] = ranked[k]
  <2>1. K \in Nat /\ 1 \in Int /\ 1 + K - 1 = K /\ \A k \in 1..K : 1 + k - 1 = k
    BY <1>2
  <2> DEFINE cut == SubSeq(ranked, 1, 1 + K - 1)
  <2>2. IsList(cut, K) /\ \A k \in 1..K : cut[k] = ranked[1 + k - 1]
    <3> HIDE DEF ranked, K
    <3>1. IsCut(cut, ranked, 1, K)
      BY <2>1, ListCut
    <3> HIDE DEF cut
    <3> QED  BY <3>1 DEF IsCut
  <2> HIDE DEF ranked, K
  <2> QED  BY <2>1, <2>2
<1>5. ToSet(chosen) = C
  <2>1. DOMAIN chosen = 1..K
    <3> HIDE DEF chosen
    <3> QED  BY <1>2, <1>4, ListSeq
  <2> QED  BY <1>4, <2>1 DEF ToSet
<1>6. C \in SUBSET experts /\ IsFiniteSet(C) /\ Cardinality(C) = K
  <2> DEFINE first == [k \in 1..K |-> ranked[k]]
  <2>1. C \in SUBSET experts
    BY <1>2, <1>3
  <2>2. \A j, k \in 1..K : first[j] = first[k] => j = k
    <3> SUFFICES ASSUME NEW j \in 1..K, NEW k \in 1..K, ranked[j] = ranked[k] PROVE j = k
      OBVIOUS
    <3>1. j \in 1..N /\ k \in 1..N
      BY <1>2
    <3>2. j - 1 = k - 1
      BY <1>3, <3>1
    <3> QED  BY <3>1, <3>2
  <2>3. first \in [1..K -> C] /\ \A c \in C : \E k \in 1..K : first[k] = c
    OBVIOUS
  <2> HIDE DEF first, C
  <2>4. first \in Injection(1..K, C)
    BY <2>2, <2>3, Fun_IsInj
  <2>5. first \in Surjection(1..K, C)
    BY <2>3, Fun_IsSurj
  <2>6. IsFiniteSet(1..K) /\ Cardinality(1..K) = K
    <3>1. 1 \in Int /\ K \in Int /\ ~(1 > K) /\ K - 1 + 1 = K
      BY <1>2
    <3> HIDE DEF K
    <3> QED  BY <3>1, FS_Interval
  <2>7. IsFiniteSet(C) /\ Cardinality(C) = Cardinality(1..K)
    BY <2>4, <2>5, <2>6, FS_Surjection
  <2> QED  BY <2>1, <2>6, <2>7
<1>7. ASSUME NEW e \in C, NEW f \in experts \ C PROVE Better(row, e, f)
  <2>1. Cardinality(ahead[e]) < K /\ e \in experts
    <3>1. PICK k \in 1..K : e = ranked[k]
      OBVIOUS
    <3>2. k \in 1..N
      BY <1>2
    <3> HIDE DEF ahead, ranked
    <3>3. Cardinality(ahead[e]) = k - 1
      BY <1>3, <3>1, <3>2
    <3>4. k - 1 < K
      BY <1>2
    <3>5. e \in experts
      BY <1>3, <3>1, <3>2
    <3> QED  BY <3>3, <3>4, <3>5
  <2>2. ~(Cardinality(ahead[f]) < K)
    <3> SUFFICES ASSUME Cardinality(ahead[f]) < K PROVE FALSE
      OBVIOUS
    <3>1. Cardinality(ahead[f]) + 1 \in 1..K /\ ranked[Cardinality(ahead[f]) + 1] = f
      BY <1>2, <1>3
    <3> QED  BY <3>1
  <2>3. f \notin ahead[e]
    <3> SUFFICES ASSUME f \in ahead[e] PROVE FALSE
      OBVIOUS
    <3> HIDE DEF ahead
    <3>1. ahead[f] \in SUBSET ahead[e] /\ ahead[e] \in SUBSET experts
      BY <1>1, <2>1 DEF Orders
    <3>2. IsFiniteSet(ahead[e])
      BY <3>1, FS_Subset
    <3>3. Cardinality(ahead[f]) <= Cardinality(ahead[e])
      BY <3>1, <3>2, FS_Subset
    <3>4. Cardinality(ahead[f]) \in Nat /\ Cardinality(ahead[e]) \in Nat
      BY <1>2, <1>3, <2>1
    <3> QED  BY <1>2, <2>1, <2>2, <3>3, <3>4
  <2>4. e # f
    OBVIOUS
  <2>5. e \in ahead[f]
    <3> HIDE DEF ahead
    <3> QED  BY <1>1, <2>1, <2>3, <2>4 DEF Orders
  <2> QED  BY <2>5 DEF AheadIn
<1>8. DOMAIN row = experts
  OBVIOUS
<1>9. IsTop(C, row)
  <2> HIDE DEF C
  <2> QED  BY <1>6, <1>7, <1>8 DEF IsTop
<1>10. ASSUME NEW top, IsTop(top, row) PROVE top = C
  <2>1. top \in SUBSET experts /\ Cardinality(top) = K
    BY <1>8, <1>10 DEF IsTop
  <2>2. IsFiniteSet(top)
    BY <2>1, FS_Subset
  <2> HIDE DEF C
  <2>3. \A e \in top \ C, f \in C \ top : Better(row, e, f) /\ Better(row, f, e)
    BY <1>6, <1>8, <1>9, <1>10, <2>1 DEF IsTop
  <2>4. ~(\E e \in top \ C, f \in C \ top : TRUE)
    <3> SUFFICES ASSUME NEW e \in top \ C, NEW f \in C \ top PROVE FALSE
      OBVIOUS
    <3>1. row[e] \in Int /\ row[f] \in Int /\ e \in Nat /\ f \in Nat
      BY <1>6, <2>1
    <3>2. Better(row, e, f) /\ Better(row, f, e)
      BY <2>3
    <3> QED  BY <3>1, <3>2 DEF Better
  <2>5. top \in SUBSET C \/ C \in SUBSET top
    BY <2>4
  <2> QED  BY <1>6, <2>1, <2>2, <2>5, FS_Subset
<1>11. TopExperts(row) = CHOOSE top : IsTop(top, row)
  <2>1. TopExperts(row) = CHOOSE top \in SUBSET DOMAIN row :
            /\ Cardinality(top) = model.topK
            /\ \A e \in top, f \in DOMAIN row \ top : Better(row, e, f)
    BY DEF TopExperts, Better
  <2> QED  BY <2>1 DEF IsTop
<1>12. TopExperts(row) = C
  <2> HIDE DEF C
  <2> QED  BY <1>9, <1>10, <1>11
<1> HIDE DEF chosen, C
<1> QED  BY <1>2, <1>4, <1>5, <1>6, <1>12 DEF chosen

\* The places in ascending order.
LEMMA PlacesAscend ==
    ASSUME NEW all, all \subseteq Nat, IsFiniteSet(all)
    PROVE  /\ Cardinality(all) \in Nat /\ Ascending(all) \in [1..Cardinality(all) -> all]
           /\ \A n \in 1..Cardinality(all) : Cardinality(Below(all)[Ascending(all)[n]]) = n - 1
           /\ \A e \in all : /\ Cardinality(Below(all)[e]) \in 0..(Cardinality(all) - 1)
                             /\ Ascending(all)[Cardinality(Below(all)[e]) + 1] = e
           /\ \A e, f \in all : f < e <=> Cardinality(Below(all)[f]) < Cardinality(Below(all)[e])
<1> DEFINE ahead == Below(all)
<1>1. Orders(ahead) /\ DOMAIN ahead = all /\ Ascending(all) = InOrder(ahead)
  BY AscendingOrders
<1>2. /\ Cardinality(all) \in Nat /\ Ascending(all) \in [1..Cardinality(all) -> all]
      /\ \A n \in 1..Cardinality(all) : Cardinality(ahead[Ascending(all)[n]]) = n - 1
      /\ \A e \in all : /\ Cardinality(ahead[e]) \in 0..(Cardinality(all) - 1)
                        /\ Ascending(all)[Cardinality(ahead[e]) + 1] = e
  <2> HIDE DEF ahead
  <2> QED  BY <1>1, InOrderLists
<1>3. ASSUME NEW e \in all, NEW f \in all, f < e
      PROVE  Cardinality(ahead[f]) < Cardinality(ahead[e])
  <2>1. f \in ahead[e] /\ f \notin ahead[f]
    BY <1>3 DEF Below
  <2>2. ahead[f] \in SUBSET ahead[e] /\ ahead[e] \in SUBSET all
    <3> HIDE DEF ahead
    <3> QED  BY <1>1, <2>1 DEF Orders
  <2>3. IsFiniteSet(ahead[e])
    <3> HIDE DEF ahead
    <3> QED  BY <2>2, FS_Subset
  <2>4. Cardinality(ahead[f]) <= Cardinality(ahead[e]) /\ Cardinality(ahead[f]) # Cardinality(ahead[e])
    <3> HIDE DEF ahead
    <3> QED  BY <2>1, <2>2, <2>3, FS_Subset
  <2>5. Cardinality(ahead[f]) \in Nat /\ Cardinality(ahead[e]) \in Nat
    <3> HIDE DEF ahead
    <3> QED  BY <1>2
  <2> HIDE DEF ahead
  <2> QED  BY <2>4, <2>5
<1>4. ASSUME NEW e \in all, NEW f \in all
      PROVE  f < e <=> Cardinality(ahead[f]) < Cardinality(ahead[e])
  <2> HIDE DEF ahead
  <2>1. e \in Nat /\ f \in Nat /\ Cardinality(ahead[f]) \in Nat /\ Cardinality(ahead[e]) \in Nat
    BY <1>2
  <2>2. CASE f < e
    BY <1>3, <2>2
  <2>3. CASE f = e
    BY <2>1, <2>3
  <2>4. CASE e < f
    <3>1. Cardinality(ahead[e]) < Cardinality(ahead[f])
      BY <1>3, <2>4
    <3> QED  BY <2>1, <2>4, <3>1
  <2> QED  BY <2>1, <2>2, <2>3, <2>4
<1> HIDE DEF ahead
<1> QED  BY <1>2, <1>4 DEF ahead

RouteTo(e, share) == [expert |-> e, share |-> share]

\* The routes of one position, as a set.
Selects(selection, top, share) == ToSet(selection) = {RouteTo(e, share) : e \in top}

\* A selection names each of its experts once, with its share.
LEMMA SelectedExperts ==
    ASSUME NEW selection, NEW top, NEW share, Selects(selection, top, share)
    PROVE  /\ ExpertsOf(selection) = top
           /\ \A e \in top : (CHOOSE r \in ToSet(selection) : r.expert = e) = RouteTo(e, share)
<1>1. ExpertsOf(selection) = top
  <2>1. ExpertsOf(selection) = {r.expert : r \in {RouteTo(e, share) : e \in top}}
    BY DEF Selects, ExpertsOf
  <2>2. \A e \in top : RouteTo(e, share).expert = e
    BY DEF RouteTo
  <2> QED  BY <2>1, <2>2
<1>2. ASSUME NEW e \in top
      PROVE  (CHOOSE r \in ToSet(selection) : r.expert = e) = RouteTo(e, share)
  <2>1. RouteTo(e, share) \in ToSet(selection) /\ RouteTo(e, share).expert = e
    BY DEF Selects, RouteTo
  <2>2. \A r \in ToSet(selection) : r.expert = e => r = RouteTo(e, share)
    BY DEF Selects, RouteTo
  <2> QED  BY <2>1, <2>2
<1> QED  BY <1>1, <1>2

\* The routes to a set of experts, in ascending order.
RoutesTo(top, share, n) == [k \in 1..n |-> RouteTo(Ascending(top)[k], share)]

\* Those of top that are among the first n of all.
Among(top, all, n) == {e \in top : Cardinality(Below(all)[e]) < n}

\* Going through the union in ascending order meets the experts of one position in
\* their ascending order.
LEMMA AmongGrows ==
    ASSUME NEW all, all \subseteq Nat, IsFiniteSet(all), NEW top \in SUBSET all,
           NEW n \in 1..Cardinality(all)
    PROVE  LET e == Ascending(all)[n] IN
           /\ e \in all /\ Cardinality(Among(top, all, n - 1)) \in Nat
           /\ e \notin top => Among(top, all, n) = Among(top, all, n - 1)
           /\ e \in top => /\ Cardinality(Among(top, all, n)) = Cardinality(Among(top, all, n - 1)) + 1
                           /\ Ascending(top)[Cardinality(Among(top, all, n - 1)) + 1] = e
<1> DEFINE e == Ascending(all)[n]
           place(f) == Cardinality(Below(all)[f])
           old == Among(top, all, n - 1)
<1>1. /\ Cardinality(all) \in Nat /\ e \in all /\ place(e) = n - 1
      /\ \A f \in all : place(f) \in Nat /\ Ascending(all)[place(f) + 1] = f
      /\ \A f \in all : f < e <=> place(f) < place(e)
  <2>1. /\ Cardinality(all) \in Nat /\ Ascending(all) \in [1..Cardinality(all) -> all]
        /\ \A k \in 1..Cardinality(all) : Cardinality(Below(all)[Ascending(all)[k]]) = k - 1
        /\ \A f \in all : /\ Cardinality(Below(all)[f]) \in 0..(Cardinality(all) - 1)
                          /\ Ascending(all)[Cardinality(Below(all)[f]) + 1] = f
        /\ \A g, f \in all : f < g <=> Cardinality(Below(all)[f]) < Cardinality(Below(all)[g])
    BY PlacesAscend, Zenon
  <2>2. e \in all /\ place(e) = n - 1 /\ Cardinality(all) \in Nat
    BY <2>1
  <2>3. \A f \in all : place(f) \in Nat /\ Ascending(all)[place(f) + 1] = f
    <3>1. ASSUME NEW f \in all PROVE place(f) \in 0..(Cardinality(all) - 1)
      BY <2>1
    <3> QED  BY <2>1, <2>2, <3>1
  <2>4. \A f \in all : f < e <=> place(f) < place(e)
    BY <2>1, <2>2, Zenon
  <2> QED  BY <2>2, <2>3, <2>4
<1>2. IsFiniteSet(top) /\ top \subseteq Nat
  BY FS_Subset
<1>3. old \in SUBSET top /\ IsFiniteSet(old) /\ Cardinality(old) \in Nat
  <2>1. old \in SUBSET top
    BY DEF Among
  <2> HIDE DEF old
  <2> QED  BY <1>2, <2>1, FS_Subset, FS_CardinalityType
<1>4. \A f \in all : place(f) < n <=> place(f) < n - 1 \/ f = e
  <2> SUFFICES ASSUME NEW f \in all PROVE place(f) < n <=> place(f) < n - 1 \/ f = e
    OBVIOUS
  <2>1. place(f) = n - 1 => f = e
    <3> SUFFICES ASSUME place(f) = n - 1 PROVE f = e
      OBVIOUS
    <3>1. Ascending(all)[place(f) + 1] = f /\ place(f) + 1 = n
      BY <1>1
    <3> HIDE DEF place
    <3> QED  BY <3>1
  <2>2. place(f) \in Nat /\ place(e) = n - 1 /\ n \in Nat
    BY <1>1
  <2> HIDE DEF place, e
  <2> QED  BY <2>1, <2>2
<1>5. CASE e \notin top
  <2>1. Among(top, all, n) = old
    BY <1>4, <1>5 DEF Among
  <2> QED  BY <1>1, <1>3, <1>5, <2>1
<1>6. CASE e \in top
  <2>1. Among(top, all, n) = old \cup {e} /\ e \notin old
    <3>1. e \notin old
      BY <1>1 DEF Among
    <3>2. Among(top, all, n) = old \cup {e}
      BY <1>4, <1>6 DEF Among
    <3> QED  BY <3>1, <3>2
  <2>2. Cardinality(Among(top, all, n)) = Cardinality(old) + 1
    <3> HIDE DEF old, e
    <3> QED  BY <1>3, <2>1, FS_AddElement
  <2>3. Below(top)[e] = old
    <3>1. Below(top)[e] = {f \in top : f < e}
      BY <1>6 DEF Below
    <3>2. \A f \in top : f < e <=> place(f) < n - 1
      BY <1>1
    <3> QED  BY <3>1, <3>2 DEF Among
  <2>4. Ascending(top)[Cardinality(Below(top)[e]) + 1] = e
    <3> HIDE DEF e
    <3> QED  BY <1>2, <1>6, PlacesAscend
  <2> HIDE DEF old, e
  <2> QED  BY <1>1, <1>3, <1>6, <2>2, <2>3, <2>4 DEF old, e
<1> QED  BY <1>5, <1>6

SumsAre(sums, tops, shares, width) ==
    sums = [j \in 1..width |-> RoutesTo(tops[j], shares[j], Cardinality(tops[j]))]

\* Every position gets its routes in ascending order of the experts, whatever
\* the other positions of the union chose.
LEMMA SumsAscend ==
    ASSUME NEW width \in Nat, NEW selections, IsList(selections, width),
           NEW experts, experts \subseteq Nat, IsFiniteSet(experts),
           NEW tops, NEW shares, \A j \in 1..width : tops[j] \in SUBSET experts,
           \A j \in 1..width : Selects(selections[j], tops[j], shares[j])
    PROVE  SumsAre(RoutedSums(selections), tops, shares, width)
<1> DEFINE all == UNION {ExpertsOf(selections[j]) : j \in DOMAIN selections}
           order == Ascending(all)
           N == Cardinality(all)
           count(j, n) == Cardinality(Among(tops[j], all, n))
           closed == [n \in 0..N |-> [j \in 1..width |-> RoutesTo(tops[j], shares[j], count(j, n))]]
           Unfolds(f) == f = [n \in 0..Len(order) |->
                            IF n = 0 THEN [j \in DOMAIN selections |-> <<>>]
                            ELSE AddExpert(f[n - 1], selections, order[n])]
<1>1. DOMAIN selections = 1..width
  BY ListSeq
<1>2. \A j \in 1..width : /\ ExpertsOf(selections[j]) = tops[j]
                          /\ \A e \in tops[j] : (CHOOSE r \in ToSet(selections[j]) : r.expert = e)
                                                  = RouteTo(e, shares[j])
  BY SelectedExperts
<1>3. all \subseteq Nat /\ IsFiniteSet(all) /\ \A j \in 1..width : tops[j] \in SUBSET all
  <2>1. all \in SUBSET experts /\ \A j \in 1..width : tops[j] \in SUBSET all
    BY <1>1, <1>2
  <2> HIDE DEF all
  <2> QED  BY <2>1, FS_Subset
<1> HIDE DEF all
<1>4. N \in Nat /\ order \in [1..N -> all] /\ Len(order) = N
      /\ \A e \in all : Cardinality(Below(all)[e]) \in 0..(N - 1)
  <2>1. N \in Nat /\ order \in [1..N -> all]
        /\ \A e \in all : Cardinality(Below(all)[e]) \in 0..(N - 1)
    BY <1>3, PlacesAscend
  <2>2. IsList(order, N)
    BY <2>1 DEF IsList
  <2> QED  BY <2>1, <2>2, ListSeq
<1>5. \A j \in 1..width : count(j, 0) = 0 /\ count(j, N) = Cardinality(tops[j])
  <2> SUFFICES ASSUME NEW j \in 1..width PROVE count(j, 0) = 0 /\ count(j, N) = Cardinality(tops[j])
    OBVIOUS
  <2>1. \A e \in tops[j] : Cardinality(Below(all)[e]) \in 0..(N - 1)
    BY <1>3, <1>4
  <2>2. Among(tops[j], all, 0) = {} /\ Among(tops[j], all, N) = tops[j]
    BY <1>4, <2>1 DEF Among
  <2> QED  BY <2>2, FS_EmptySet
<1>6. closed[0] = [j \in DOMAIN selections |-> <<>>]
  <2>1. ASSUME NEW j \in 1..width PROVE RoutesTo(tops[j], shares[j], count(j, 0)) = <<>>
    BY <1>5 DEF RoutesTo
  <2>2. closed[0] = [j \in 1..width |-> RoutesTo(tops[j], shares[j], count(j, 0))]
    BY <1>4
  <2> QED  BY <1>1, <2>1, <2>2
<1>7. ASSUME NEW n \in 1..N
      PROVE  closed[n] = AddExpert(closed[n - 1], selections, order[n])
  <2> DEFINE e == order[n]
  <2>1. n \in 0..N /\ n - 1 \in 0..N
    BY <1>4
  <2>2. closed[n] = [j \in 1..width |-> RoutesTo(tops[j], shares[j], count(j, n))]
    BY <2>1
  <2>3. \A j \in 1..width : closed[n - 1][j] = RoutesTo(tops[j], shares[j], count(j, n - 1))
    BY <2>1
  <2>4. AddExpert(closed[n - 1], selections, e) =
          [j \in 1..width |-> IF e \in ExpertsOf(selections[j])
             THEN Append(closed[n - 1][j], CHOOSE r \in ToSet(selections[j]) : r.expert = e)
             ELSE closed[n - 1][j]]
    BY <1>1 DEF AddExpert
  <2>5. ASSUME NEW j \in 1..width
        PROVE  RoutesTo(tops[j], shares[j], count(j, n)) =
                 IF e \in tops[j]
                 THEN Append(RoutesTo(tops[j], shares[j], count(j, n - 1)), RouteTo(e, shares[j]))
                 ELSE RoutesTo(tops[j], shares[j], count(j, n - 1))
    <3> DEFINE c == count(j, n - 1)  s == shares[j]  top == tops[j]
    <3>1. /\ c \in Nat /\ (e \notin top => count(j, n) = c)
          /\ e \in top => count(j, n) = c + 1 /\ Ascending(top)[c + 1] = e
      BY <1>3, AmongGrows
    <3>2. CASE e \notin top
      BY <3>1, <3>2
    <3>3. CASE e \in top
      <4> DEFINE old == RoutesTo(top, s, c)  new == RoutesTo(top, s, c + 1)
      <4>1. IsList(old, c) /\ IsList(new, c + 1)
        BY DEF RoutesTo, IsList
      <4>2. \A k \in 1..c : new[k] = old[k]
        BY <3>1 DEF RoutesTo
      <4>3. new[c + 1] = RouteTo(e, s)
        <5>1. c + 1 \in 1..(c + 1)
          BY <3>1
        <5>2. new[c + 1] = RouteTo(Ascending(top)[c + 1], s)
          BY <5>1 DEF RoutesTo
        <5> QED  BY <3>1, <3>3, <5>2
      <4> HIDE DEF old, new
      <4>4. Appends(old, c, RouteTo(e, s))
        <5> HIDE DEF c, e, s
        <5> QED  BY <3>1, <4>1, ListAppend
      <4>5. Append(old, RouteTo(e, s)) = new
        <5> DEFINE app == Append(old, RouteTo(e, s))
        <5>1. IsList(app, c + 1) /\ c + 1 \in Nat
          BY <3>1, <4>4 DEF Appends
        <5>2. \A k \in 1..c : app[k] = new[k]
          BY <4>2, <4>4 DEF Appends
        <5>3. app[c + 1] = new[c + 1]
          BY <4>3, <4>4 DEF Appends
        <5> HIDE DEF app, c
        <5>4. \A k \in 1..(c + 1) : app[k] = new[k]
          BY <3>1, <5>2, <5>3
        <5>5. app = new
          BY <4>1, <5>1, <5>4, ListEqual
        <5> QED  BY <5>5 DEF app
      <4>6. count(j, n) = c + 1
        BY <3>1, <3>3
      <4> QED  BY <3>3, <4>5, <4>6 DEF old, new
    <3> QED  BY <3>2, <3>3
  <2> HIDE DEF closed, count, e
  <2>6. ASSUME NEW j \in 1..width
        PROVE  RoutesTo(tops[j], shares[j], count(j, n)) =
                 IF e \in ExpertsOf(selections[j])
                 THEN Append(closed[n - 1][j], CHOOSE r \in ToSet(selections[j]) : r.expert = e)
                 ELSE closed[n - 1][j]
    BY <1>2, <2>3, <2>5
  <2>7. closed[n] = AddExpert(closed[n - 1], selections, e)
    BY <2>2, <2>4, <2>6
  <2> QED  BY <2>7 DEF e
<1>8. Unfolds(closed)
  <2>1. closed = [n \in 0..N |-> closed[n]]
    OBVIOUS
  <2> HIDE DEF closed, order
  <2>2. ASSUME NEW n \in 0..N, n # 0 PROVE closed[n] = AddExpert(closed[n - 1], selections, order[n])
    <3>1. n \in 1..N
      BY <1>4, <2>2
    <3> QED  BY <1>7, <3>1
  <2> QED  BY <1>4, <1>6, <2>1, <2>2
<1> DEFINE sums == CHOOSE f : Unfolds(f)
<1>9. Unfolds(sums)
  BY <1>8, Zenon
<1>10. RoutedSums(selections) = sums[N]
  BY <1>4 DEF RoutedSums, all
<1> HIDE DEF sums, closed, order
<1> DEFINE T == {n \in 0..N : sums[n] = closed[n]}
<1>11. 0 \in T
  BY <1>4, <1>6, <1>9
<1>12. ASSUME NEW n \in 1..N, n - 1 \in T PROVE n \in T
  <2>1. n \in 0..N /\ n # 0
    BY <1>4
  <2>2. sums[n] = AddExpert(sums[n - 1], selections, order[n])
    BY <1>4, <1>9, <2>1
  <2>3. sums[n - 1] = closed[n - 1]
    BY <1>12
  <2> QED  BY <1>7, <2>1, <2>2, <2>3
<1>13. N \in 0..N /\ \A n \in 0..N : n \in T
  <2>1. N \in Nat
    BY <1>4
  <2> HIDE DEF T, N
  <2>2. \A n \in 0..N : n \in T
    BY <1>11, <1>12, <2>1, UpTo
  <2> QED  BY <2>1, <2>2
<1>14. sums[N] = closed[N]
  BY <1>13
<1>15. closed[N] = [j \in 1..width |-> RoutesTo(tops[j], shares[j], count(j, N))]
  BY <1>13 DEF closed
<1>16. [j \in 1..width |-> RoutesTo(tops[j], shares[j], count(j, N))]
         = [j \in 1..width |-> RoutesTo(tops[j], shares[j], Cardinality(tops[j]))]
  <2> HIDE DEF count
  <2> QED  BY <1>5
<1> QED  BY <1>10, <1>14, <1>15, <1>16 DEF SumsAre

(***************************************************************************)
(* The inductive invariant.                                                *)
(***************************************************************************)

Token == 0..(model.vocab - 1)

\* What a lane's sequence has been fed before the step, and with the step.
Before(i) == Fed(lanes[i][1], lanes[i][2])
Sequence(i) == Before(i) \o input[i]
Offset(i) == Len(Before(i))
Width(i) == Len(input[i])
States(i, l) == Reference(Sequence(i))[l]

\* The lane of member b of session s.
Lane(s, b) == CHOOSE i \in DOMAIN lanes : lanes[i] = <<s, b>>

\* The members of a batch have been fed as many tokens each.
FedOK ==
    /\ DOMAIN fed = Caches
    /\ \A s \in Caches :
         /\ fed[s] \in Seq(Seq(Token))
         /\ \A b \in 1..Len(fed[s]) : Len(fed[s][b]) = Len(fed[s][1])
         /\ fed[s] # <<>> => Len(fed[s][1]) \in 1..MaxPositions

CachesOK == cache = [s \in Caches |-> ReferenceCache(fed[s])]

\* The lanes are the members of the batches of the stepping sessions, each once;
\* the batches are those of the caches and the positions suffice.
LanesOK ==
    /\ layer \in 1..(Layers + 1)
    /\ Len(lanes) \in Nat \ {0} /\ IsList(lanes, Len(lanes))
    /\ IsList(input, Len(lanes)) /\ IsList(hidden, Len(lanes)) /\ IsList(routes, Len(lanes))
    /\ \A i \in 1..Len(lanes) :
         /\ lanes[i] = <<lanes[i][1], lanes[i][2]>> /\ lanes[i][1] \in Caches
         /\ BatchOf(lanes[i][1]) \in Nat \ {0} /\ lanes[i][2] \in 1..BatchOf(lanes[i][1])
         /\ input[i] \in Seq(Token) /\ input[i] # <<>>
         /\ ValidStep(cache[lanes[i][1]], BatchOf(lanes[i][1]), Len(input[i]))
         /\ \A b \in 1..BatchOf(lanes[i][1]) :
              \E j \in 1..Len(lanes) : lanes[j] = <<lanes[i][1], b>>
    /\ \A i, j \in 1..Len(lanes) : lanes[i] = lanes[j] => i = j
    /\ \A i, j \in 1..Len(lanes) : lanes[i][1] = lanes[j][1] => Len(input[i]) = Len(input[j])

\* The copies hold the states of the layers done, of the sequences with the step.
WorkLayers(s) ==
    [l \in 1..Layers |->
        IF l < layer
        THEN [b \in 1..BatchOf(s) |-> ReferenceState(l, States(Lane(s, b), l - 1))]
        ELSE cache[s].layers[l]]

WorkOK == work = [s \in Stepping |-> [cache[s] EXCEPT !.layers = WorkLayers(s)]]

HiddenOK ==
    \A i \in 1..Len(lanes) : Behind(hidden[i], States(i, layer - 1), Offset(i), Width(i))

\* The experts a layer chose for the tokens of a lane.
Chose(chosen, tokens) ==
    \A k \in 1..Len(tokens) : {r.expert : r \in ToSet(chosen[k])} = TopExperts(model.gate[tokens[k]])

RoutesOK ==
    \A i \in 1..Len(lanes) :
        /\ IsList(routes[i], layer - 1)
        /\ \A l \in model.sparse : l < layer => Chose(routes[i][l], input[i])

\* The sequences the reference generation goes through.
Grown(prompt, budget, eos) ==
    LET grown[n \in 0..budget] ==
          IF n = 0 THEN prompt
          ELSE LET before == grown[n - 1] IN
               IF n > 1 /\ Last(before) \in eos THEN before
               ELSE Append(before, ArgMax(Last(Reference(before)[Layers])))
    IN  grown

\* The generation loop is where the reference is, and its cache has read all but
\* the token to be fed next.
LoopOK ==
    /\ greedy = [prompt |-> greedy.prompt, left |-> greedy.left, eos |-> greedy.eos,
                 generated |-> greedy.generated, budget |-> greedy.budget]
    /\ greedy.prompt \in Seq(Token) /\ greedy.prompt # <<>> /\ greedy.generated \in Seq(Token)
    /\ greedy.budget \in Nat \ {0} /\ Len(greedy.prompt) + greedy.budget <= MaxPositions
    /\ greedy.left = greedy.budget - Len(greedy.generated) /\ greedy.left >= 1
    /\ greedy.generated # <<>> => Last(greedy.generated) \notin greedy.eos
    /\ greedy.prompt \o greedy.generated
         = Grown(greedy.prompt, greedy.budget, greedy.eos)[Len(greedy.generated)]
    /\ fed[Local] = IF greedy.generated = <<>> THEN <<>>
                    ELSE <<greedy.prompt \o SubSeq(greedy.generated, 1, Len(greedy.generated) - 1)>>
    /\ Running => lanes = <<<<Local, 1>>>> /\ input = <<NextInput>>

GreedyOK ==
    /\ greedy # NoLoop => LoopOK
    /\ greedy = NoLoop => fed[Local] = <<>> /\ (Running => Local \notin Stepping)

IInv ==
    /\ model \in Models /\ text \in Texts /\ layer \in Nat
    /\ FedOK /\ CachesOK /\ GreedyOK /\ GreedyIsTheReference
    /\ Running => LanesOK /\ WorkOK /\ HiddenOK /\ RoutesOK

(***************************************************************************)
(* What the invariant says of the lanes.                                   *)
(***************************************************************************)

\* The model of a run is one of the models assumed.
LEMMA ModelTyped ==
    ASSUME IInv
    PROVE  ModelType(model)
BY DecoderAssumption DEF IInv

\* The caches, by the reference.
CacheReads(s) ==
    /\ cache[s].position = IF fed[s] = <<>> THEN 0 ELSE Len(fed[s][1])
    /\ cache[s].batch = Len(fed[s]) /\ Len(fed[s]) \in Nat
    /\ DOMAIN cache[s].layers = 1..Layers /\ IsList(cache[s].layers, Layers)
    /\ \A l \in 1..Layers :
         cache[s].layers[l] =
            IF fed[s] = <<>> THEN <<>>
            ELSE [b \in 1..Len(fed[s]) |-> ReferenceState(l, Reference(fed[s][b])[l - 1])]
    /\ cache[s] = [position |-> cache[s].position, batch |-> cache[s].batch,
                   layers |-> cache[s].layers]

\* The invariant, read for one cache: position, batch size and the state of each layer.
LEMMA CachesRead ==
    ASSUME FedOK, CachesOK, NEW s \in Caches
    PROVE  CacheReads(s)
<1>1. cache[s] = ReferenceCache(fed[s])
  BY DEF CachesOK
<1>2. fed[s] \in Seq(Seq(Token))
  BY DEF FedOK
<1>3. Len(fed[s]) \in Nat /\ DOMAIN fed[s] = 1..Len(fed[s])
  BY <1>2, LenProperties
<1>4. CASE fed[s] = <<>>
  BY <1>1, <1>3, <1>4 DEF ReferenceCache, NewCache, CacheReads, IsList
<1>5. CASE fed[s] # <<>>
  <2>1. cache[s] = [position |-> Len(fed[s][1]), batch |-> Len(fed[s]),
                    layers |-> [l \in 1..Layers |-> [b \in 1..Len(fed[s]) |->
                        ReferenceState(l, Reference(fed[s][b])[l - 1])]]]
    BY <1>1, <1>3, <1>5 DEF ReferenceCache
  <2> QED  BY <1>3, <1>5, <2>1 DEF CacheReads, IsList
<1> QED  BY <1>4, <1>5

LaneReads(i) ==
    /\ lanes[i][1] \in Caches
    /\ Offset(i) \in Nat /\ Before(i) \in Seq(Token) /\ IsList(Before(i), Offset(i))
    /\ Width(i) \in Nat \ {0} /\ input[i] \in Seq(Token) /\ IsList(input[i], Width(i))
    /\ cache[lanes[i][1]].position = Offset(i) /\ Offset(i) + Width(i) <= MaxPositions
    /\ fed[lanes[i][1]] = <<>> => Offset(i) = 0
    /\ fed[lanes[i][1]] # <<>> => /\ Len(fed[lanes[i][1]]) = BatchOf(lanes[i][1])
                                  /\ Before(i) = fed[lanes[i][1]][lanes[i][2]]

\* The invariant, read for one lane: its tokens continue what its session was fed.
LEMMA LanesRead ==
    ASSUME FedOK, CachesOK, LanesOK, NEW i \in 1..Len(lanes)
    PROVE  LaneReads(i)
<1> DEFINE s == lanes[i][1]  b == lanes[i][2]
<1>1. /\ s \in Caches /\ BatchOf(s) \in Nat \ {0} /\ b \in 1..BatchOf(s)
      /\ input[i] \in Seq(Token) /\ input[i] # <<>>
      /\ ValidStep(cache[s], BatchOf(s), Len(input[i]))
  BY DEF LanesOK
<1>2. /\ fed[s] \in Seq(Seq(Token)) /\ \A c \in 1..Len(fed[s]) : Len(fed[s][c]) = Len(fed[s][1])
  BY <1>1 DEF FedOK
<1>3. CacheReads(s)
  BY <1>1, CachesRead
<1>4. Width(i) \in Nat \ {0} /\ IsList(input[i], Width(i))
  BY <1>1, EmptySeq, SeqList DEF Width
<1>5. cache[s].batch \in {0, BatchOf(s)} /\ cache[s].position + Width(i) <= MaxPositions
  BY <1>1 DEF ValidStep, Width
<1>6. CASE fed[s] = <<>>
  <2>1. Before(i) = <<>>
    BY <1>6 DEF Before, Fed
  <2>2. Before(i) \in Seq(Token) /\ Offset(i) = 0 /\ IsList(Before(i), Offset(i))
    BY <2>1, EmptySeq DEF Offset, IsList
  <2>3. cache[s].position = 0
    BY <1>3, <1>6 DEF CacheReads
  <2> QED  BY <1>1, <1>4, <1>5, <1>6, <2>2, <2>3 DEF LaneReads
<1>7. CASE fed[s] # <<>>
  <2>1. Len(fed[s]) \in Nat \ {0}
    BY <1>2, <1>7, EmptySeq
  <2>2. Len(fed[s]) = BatchOf(s)
    BY <1>3, <1>5, <2>1 DEF CacheReads
  <2>3. Before(i) = fed[s][b]
    BY <1>7 DEF Before, Fed
  <2>4. fed[s][b] \in Seq(Token)
    BY <1>1, <1>2, <2>2, ElementOfSeq
  <2>5. Offset(i) \in Nat /\ IsList(Before(i), Offset(i))
    BY <2>3, <2>4, SeqList DEF Offset
  <2>6. Offset(i) = Len(fed[s][1])
    BY <1>1, <1>2, <2>2, <2>3 DEF Offset
  <2>7. cache[s].position = Offset(i)
    BY <1>3, <1>7, <2>6 DEF CacheReads
  <2> QED  BY <1>1, <1>4, <1>5, <1>7, <2>2, <2>3, <2>4, <2>5, <2>7 DEF LaneReads
<1> QED  BY <1>6, <1>7

SequenceReads(i) ==
    /\ Sequence(i) \in Seq(Token) /\ Len(Sequence(i)) = Offset(i) + Width(i)
    /\ IsList(Sequence(i), Offset(i) + Width(i))
    /\ \A k \in 1..Offset(i) : Sequence(i)[k] = Before(i)[k]
    /\ \A k \in 1..Width(i) : Sequence(i)[Offset(i) + k] = input[i][k]

\* The sequence of a lane is what was fed before with the step behind it.
LEMMA SequencesRead ==
    ASSUME NEW i, LaneReads(i)
    PROVE  SequenceReads(i)
<1>1. Concatenates(Before(i), Offset(i), input[i], Width(i))
  BY ListConcat DEF LaneReads
<1>2. Sequence(i) \in Seq(Token)
  BY DEF LaneReads, Sequence
<1> QED  BY <1>1, <1>2 DEF Concatenates, SequenceReads, Sequence

\* A session's member has one lane.
LEMMA LaneIs ==
    ASSUME LanesOK, NEW i \in 1..Len(lanes)
    PROVE  /\ Lane(lanes[i][1], lanes[i][2]) = i
           /\ DOMAIN lanes = 1..Len(lanes) /\ lanes[i][1] \in Stepping
<1>1. DOMAIN lanes = 1..Len(lanes)
  BY ListSeq DEF LanesOK
<1>2. \A j \in 1..Len(lanes) : lanes[j] = <<lanes[i][1], lanes[i][2]>> => j = i
  BY DEF LanesOK
<1>3. lanes[i] = <<lanes[i][1], lanes[i][2]>>
  BY DEF LanesOK
<1> QED  BY <1>1, <1>2, <1>3 DEF Lane, Stepping

\* Every member of a stepping session's batch has its lane.
LEMMA LaneOfMember ==
    ASSUME LanesOK, NEW s \in Stepping, NEW b \in 1..BatchOf(s)
    PROVE  /\ Lane(s, b) \in 1..Len(lanes) /\ lanes[Lane(s, b)][1] = s /\ lanes[Lane(s, b)][2] = b
           /\ lanes[Lane(s, b)] = <<s, b>>
<1>1. DOMAIN lanes = 1..Len(lanes)
  BY ListSeq DEF LanesOK
<1>2. PICK i \in 1..Len(lanes) : lanes[i][1] = s
  BY <1>1 DEF Stepping
<1>3. PICK j \in 1..Len(lanes) : lanes[j] = <<s, b>>
  BY <1>2 DEF LanesOK
<1>4. Lane(s, b) \in 1..Len(lanes) /\ lanes[Lane(s, b)] = <<s, b>>
  BY <1>1, <1>3 DEF Lane
<1> QED  BY <1>4

\* Nothing of the reference depends on another variable than the model.
LEMMA ReferenceUnchanged ==
    ASSUME model' = model
    PROVE  /\ Layers' = Layers /\ Token' = Token
           /\ \A tokens : Reference(tokens)' = Reference(tokens)
           /\ \A row : TopExperts(row)' = TopExperts(row)
           /\ \A l, below : ReferenceState(l, below)' = ReferenceState(l, below)
           /\ \A sequences : ReferenceCache(sequences)' = ReferenceCache(sequences)
           /\ \A p, b, e : Grown(p, b, e)' = Grown(p, b, e)
           /\ \A p, b, e : ReferenceGreedy(p, b, e)' = ReferenceGreedy(p, b, e)
           /\ NewCache' = NewCache
<1>1. Layers' = Layers /\ Token' = Token
  BY DEF Layers, Token
<1>2. \A row : TopExperts(row)' = TopExperts(row)
  BY DEF TopExperts
<1>3. \A l, token : ReferenceMlp(l, token)' = ReferenceMlp(l, token)
  BY <1>2 DEF ReferenceMlp
<1>4. \A l, below, n : ReferenceMixer(l, below, n)' = ReferenceMixer(l, below, n)
  BY DEF ReferenceMixer
<1>5. \A tokens : Reference(tokens)' = Reference(tokens)
  <2> SUFFICES ASSUME NEW tokens PROVE Reference(tokens)' = Reference(tokens)
    OBVIOUS
  <2>1. Embed(tokens)' = Embed(tokens)
    BY DEF Embed
  <2> QED  BY <1>1, <1>3, <1>4, <2>1, ZenonT(30) DEF Reference
<1>6. \A l, below : ReferenceState(l, below)' = ReferenceState(l, below)
  BY <1>4 DEF ReferenceState, History
<1>7. NewCache' = NewCache
  BY <1>1 DEF NewCache
<1>8. \A sequences : ReferenceCache(sequences)' = ReferenceCache(sequences)
  BY <1>1, <1>5, <1>6, <1>7 DEF ReferenceCache
<1>9. \A state : ArgMax(state)' = ArgMax(state)
  BY DEF ArgMax
<1>10. \A p, b, e : Grown(p, b, e)' = Grown(p, b, e)
  <2> SUFFICES ASSUME NEW p, NEW b, NEW e PROVE Grown(p, b, e)' = Grown(p, b, e)
    OBVIOUS
  <2> QED  BY <1>1, <1>5, <1>9, ZenonT(30) DEF Grown
<1>11. \A p, b, e : ReferenceGreedy(p, b, e)' = ReferenceGreedy(p, b, e)
  <2> SUFFICES ASSUME NEW p, NEW b, NEW e PROVE ReferenceGreedy(p, b, e)' = ReferenceGreedy(p, b, e)
    OBVIOUS
  <2> QED  BY <1>1, <1>5, <1>9, ZenonT(30) DEF ReferenceGreedy
<1> QED  BY <1>1, <1>2, <1>5, <1>6, <1>7, <1>8, <1>10, <1>11

Share(row) == IF model.normalize THEN TopExperts(row) ELSE DOMAIN row

\* The routes of one position.
LEMMA RoutesSelect ==
    ASSUME ModelType(model), NEW row, row \in [Experts(model) -> Int \cup {NaN}], Routable(row)
    PROVE  /\ Selects(SelectRoutes(row), TopExperts(row), Share(row))
           /\ TopExperts(row) \in SUBSET Experts(model)
           /\ Cardinality(TopExperts(row)) = model.topK
<1> DEFINE chosen == SubSeq(Ranked(row), 1, model.topK)  K == model.topK
<1>1. row \in [Experts(model) -> Int]
  BY DEF Routable
<1>2. /\ Experts(model) \subseteq Nat /\ IsFiniteSet(Experts(model))
      /\ model.topK \in 1..Cardinality(Experts(model))
  BY ModelFacts
<1>3. /\ IsList(chosen, K) /\ K \in Nat \ {0} /\ ToSet(chosen) = TopExperts(row)
      /\ TopExperts(row) \subseteq Experts(model) /\ Cardinality(TopExperts(row)) = K
  <2> DEFINE experts == Experts(model)
  <2>1. experts \subseteq Nat /\ IsFiniteSet(experts) /\ row \in [experts -> Int]
        /\ model.topK \in 1..Cardinality(experts)
    BY <1>1, <1>2
  <2> HIDE DEF experts
  <2> QED  BY <2>1, TopIsRanked DEF experts
<1>4. DOMAIN chosen = 1..K
  <2> HIDE DEF chosen, K
  <2> QED  BY <1>3, ListSeq
<1>5. SelectRoutes(row) = [k \in 1..K |-> RouteTo(chosen[k], Share(row))]
  BY <1>3, <1>4 DEF SelectRoutes, RouteTo, Share
<1>6. ToSet(SelectRoutes(row)) = {RouteTo(chosen[k], Share(row)) : k \in 1..K}
  <2> HIDE DEF chosen, K
  <2> QED  BY <1>5 DEF ToSet
<1>7. TopExperts(row) = {chosen[k] : k \in 1..K}
  <2> HIDE DEF chosen, K
  <2> QED  BY <1>3, <1>4 DEF ToSet
<1>8. Selects(SelectRoutes(row), TopExperts(row), Share(row))
  <2> HIDE DEF chosen, K
  <2> QED  BY <1>6, <1>7 DEF Selects
<1> QED  BY <1>3, <1>8

\* The state a layer keeps, in the terms of the mixers.
LEMMA StateKept ==
    ASSUME ModelType(model), NEW l, NEW below, NEW n \in Nat \ {0}, IsList(below, n)
    PROVE  ReferenceState(l, below) =
             IF model.kinds[l] = "full" THEN [k \in 1..n |-> [at |-> k - 1, of |-> below[k]]]
             ELSE [conv |-> Padded(below, n), updates |-> TapsUpTo(below, n)]
<1>1. DOMAIN below = 1..n /\ Len(below) = n
  BY ListSeq
<1>2. CASE model.kinds[l] = "full"
  BY <1>1, <1>2 DEF ReferenceState
<1>3. CASE model.kinds[l] # "full"
  <2>1. ReferenceMixer(l, below, n).state = TapsUpTo(below, n)
    BY <1>3, MixerParts DEF TapsUpTo
  <2>2. [i \in 1..History |-> IF n + i > History THEN below[n + i - History] ELSE Zero]
          = Padded(below, n)
    <3>1. History \in Nat
      BY ModelFacts
    <3>2. ASSUME NEW i \in 1..History
          PROVE  (IF n + i > History THEN below[n + i - History] ELSE Zero) = PaddedAt(below, n + i)
      BY <3>1 DEF PaddedAt
    <3> QED  BY <3>2 DEF Padded
  <2> QED  BY <1>1, <1>3, <2>1, <2>2 DEF ReferenceState
<1> QED  BY <1>2, <1>3

\* What is kept of a prefix is what is kept of the whole at that place.
LEMMA PaddedIsCausal ==
    ASSUME ModelType(model), NEW p \in Nat, NEW below, NEW other,
           \A k \in 1..p : below[k] = other[k]
    PROVE  Padded(below, p) = Padded(other, p) /\ TapsUpTo(below, p) = TapsUpTo(other, p)
<1>1. History \in Nat /\ model.kernel = History + 1
  BY ModelFacts
<1>2. ASSUME NEW i \in 1..History PROVE PaddedAt(below, p + i) = PaddedAt(other, p + i)
  <2>1. CASE p + i > History
    <3>1. p + i - History \in 1..p
      BY <1>1, <2>1
    <3> QED  BY <1>1, <2>1, <3>1 DEF PaddedAt
  <2>2. CASE ~(p + i > History)
    BY <2>2 DEF PaddedAt
  <2> QED  BY <2>1, <2>2
<1>3. ASSUME NEW k \in 1..p PROVE Taps(below, k) = Taps(other, k)
  <2>1. ASSUME NEW tap \in 1..model.kernel, k + tap > model.kernel
        PROVE  below[k + tap - model.kernel] = other[k + tap - model.kernel]
    <3>1. k + tap - model.kernel \in 1..p
      BY <1>1, <2>1
    <3> QED  BY <3>1
  <2> QED  BY <2>1 DEF Taps
<1> QED  BY <1>2, <1>3 DEF Padded, TapsUpTo

(***************************************************************************)
(* A layer of a step.                                                      *)
(***************************************************************************)

StepOK == ModelType(model) /\ FedOK /\ CachesOK /\ LanesOK /\ WorkOK /\ HiddenOK /\ RoutesOK

\* What the copies hold at the layer to compute is what was kept of the states
\* below it, up to the step.
HoldsPast(held, b, below, p) ==
    /\ model.kinds[layer] = "full" => KeysOf(Held(held, b), below, p)
    /\ model.kinds[layer] # "full" => /\ ConvHistory(held, b) = Padded(below, p)
                                      /\ Updates(held, b) = TapsUpTo(below, p)

\* A copy differs from its cache in the layers done.
LEMMA WorkReads ==
    ASSUME StepOK, NEW s \in Stepping
    PROVE  /\ s \in Caches /\ work[s].position = cache[s].position
           /\ work[s] = [position |-> cache[s].position, batch |-> cache[s].batch,
                         layers |-> WorkLayers(s)]
           /\ work[s].layers = WorkLayers(s) /\ CacheReads(s)
<1>1. DOMAIN lanes = 1..Len(lanes)
  BY ListSeq DEF LanesOK, StepOK
<1>2. PICK i \in 1..Len(lanes) : lanes[i][1] = s
  BY <1>1 DEF Stepping
<1>3. s \in Caches
  BY <1>2 DEF LanesOK, StepOK
<1>4. CacheReads(s)
  BY <1>3, CachesRead DEF StepOK
<1>5. work[s] = [cache[s] EXCEPT !.layers = WorkLayers(s)]
  BY DEF WorkOK, StepOK
<1>6. work[s] = [position |-> cache[s].position, batch |-> cache[s].batch,
                 layers |-> WorkLayers(s)]
  <2> DEFINE c == cache[s]  w == WorkLayers(s)
  <2>1. c = [position |-> c.position, batch |-> c.batch, layers |-> c.layers]
    BY <1>4 DEF CacheReads
  <2> HIDE DEF c, w
  <2>2. [c EXCEPT !.layers = w] = [position |-> c.position, batch |-> c.batch, layers |-> w]
    BY <2>1
  <2> QED  BY <1>5, <2>2 DEF c, w
<1> QED  BY <1>3, <1>4, <1>6

\* Before a layer runs, the copied cache holds the layer's state of exactly the
\* tokens fed before the step.
LEMMA PastHeld ==
    ASSUME StepOK, layer \in 1..Layers, NEW i \in 1..Len(lanes)
    PROVE  /\ work[lanes[i][1]].position = Offset(i)
           /\ HoldsPast(work[lanes[i][1]].layers[layer], lanes[i][2], States(i, layer - 1), Offset(i))
<1> DEFINE s == lanes[i][1]  b == lanes[i][2]  p == Offset(i)  below == States(i, layer - 1)
           held == work[s].layers[layer]
           old == Reference(Before(i))[layer - 1]
<1>1. LaneReads(i) /\ s \in Stepping
  BY LanesRead, LaneIs DEF StepOK
<1>2. SequenceReads(i)
  BY <1>1, SequencesRead
<1>3. work[s].position = cache[s].position /\ work[s].layers = WorkLayers(s) /\ CacheReads(s)
  BY <1>1, WorkReads
<1>4. held = cache[s].layers[layer]
  <2>1. ~(layer < layer)
    OBVIOUS
  <2> QED  BY <1>3, <2>1 DEF WorkLayers
<1>5. work[s].position = p
  BY <1>1, <1>3 DEF LaneReads
<1>6. p \in Nat /\ History \in Nat
  BY <1>1, ModelFacts DEF LaneReads, StepOK
<1>7. CASE fed[s] = <<>>
  <2>1. held = <<>> /\ p = 0
    BY <1>1, <1>3, <1>4, <1>7 DEF CacheReads, LaneReads
  <2> HIDE DEF held, p
  <2>2. KeysOf(Held(held, b), below, p)
    BY <2>1 DEF KeysOf, Held, IsList
  <2>3. ConvHistory(held, b) = Padded(below, p)
    <3>1. \A j \in 1..History : PaddedAt(below, p + j) = Zero
      BY <1>6, <2>1 DEF PaddedAt
    <3> QED  BY <2>1, <3>1 DEF ConvHistory, Padded
  <2>4. Updates(held, b) = TapsUpTo(below, p)
    BY <2>1 DEF Updates, TapsUpTo
  <2>5. HoldsPast(held, b, below, p)
    BY <2>2, <2>3, <2>4 DEF HoldsPast
  <2> QED  BY <1>5, <2>5 DEF held, p
<1>8. CASE fed[s] # <<>>
  <2>1. /\ Len(fed[s]) = BatchOf(s) /\ Before(i) = fed[s][b]
        /\ BatchOf(s) \in Nat \ {0} /\ b \in 1..BatchOf(s)
    BY <1>1, <1>8 DEF LaneReads, LanesOK, StepOK
  <2>2. p \in Nat \ {0}
    <3>1. s \in Caches /\ cache[s].position = p
      BY <1>1 DEF LaneReads
    <3>2. cache[s].position = Len(fed[s][1])
      BY <1>3, <1>8 DEF CacheReads
    <3>3. Len(fed[s][1]) \in 1..MaxPositions
      BY <1>8, <3>1 DEF FedOK, StepOK
    <3> QED  BY <3>1, <3>2, <3>3, DecoderAssumption
  <2>3. held = [c \in 1..BatchOf(s) |-> ReferenceState(layer, Reference(fed[s][c])[layer - 1])]
    BY <1>3, <1>4, <1>8, <2>1 DEF CacheReads
  <2>4. held # <<>> /\ held[b] = ReferenceState(layer, old)
    <3>1. DOMAIN held = 1..BatchOf(s) /\ 1 \in 1..BatchOf(s)
      BY <2>1, <2>3
    <3>2. held # <<>>
      BY <2>1, <2>3
    <3>3. held[b] = ReferenceState(layer, Reference(fed[s][b])[layer - 1])
      BY <2>1, <2>3
    <3> HIDE DEF held
    <3> QED  BY <2>1, <3>2, <3>3
  <2>5. layer - 1 \in 0..Layers /\ Layers \in Nat
    BY ModelFacts DEF StepOK
  <2>6. IsList(old, p)
    <3>1. StatesOf(old, Before(i), p)
      BY <1>1, <1>6, <2>5, ReferenceStates DEF LaneReads
    <3> QED  BY <3>1 DEF StatesOf
  <2>7. \A k \in 1..p : old[k] = below[k]
    <3> DEFINE whole == Sequence(i)  first == Before(i)  n == p + Width(i)
    <3>1. n \in Nat /\ p <= n /\ IsList(first, p) /\ IsList(whole, n)
          /\ \A k \in 1..p : first[k] = whole[k]
      BY <1>1, <1>2 DEF LaneReads, SequenceReads
    <3> HIDE DEF whole, first, p, n
    <3>2. \A l \in 0..Layers : \A k \in 1..p : Reference(first)[l][k] = Reference(whole)[l][k]
      <4>1. ModelType(model) /\ p \in Nat
        BY <1>6 DEF StepOK
      <4> QED  BY <3>1, <4>1, ReferenceIsCausal
    <3>3. \A k \in 1..p : Reference(first)[layer - 1][k] = Reference(whole)[layer - 1][k]
      BY <2>5, <3>2
    <3> QED  BY <3>3 DEF first, whole, States
  <2> HIDE DEF held, p, old, below
  <2>8. held[b] = IF model.kinds[layer] = "full" THEN [k \in 1..p |-> [at |-> k - 1, of |-> old[k]]]
                  ELSE [conv |-> Padded(old, p), updates |-> TapsUpTo(old, p)]
    <3>1. ModelType(model)
      BY DEF StepOK
    <3> QED  BY <2>2, <2>4, <2>6, <3>1, StateKept
  <2>9. ASSUME model.kinds[layer] = "full" PROVE KeysOf(Held(held, b), below, p)
    <3>1. Held(held, b) = [k \in 1..p |-> [at |-> k - 1, of |-> old[k]]]
      BY <2>4, <2>8, <2>9 DEF Held
    <3> QED  BY <2>7, <3>1 DEF KeysOf, IsList
  <2>10. ASSUME model.kinds[layer] # "full"
         PROVE  ConvHistory(held, b) = Padded(below, p) /\ Updates(held, b) = TapsUpTo(below, p)
    <3>1. Padded(old, p) = Padded(below, p) /\ TapsUpTo(old, p) = TapsUpTo(below, p)
      <4>1. ModelType(model)
        BY DEF StepOK
      <4> QED  BY <1>6, <2>7, <4>1, PaddedIsCausal
    <3>2. held[b].conv = Padded(below, p) /\ held[b].updates = TapsUpTo(below, p)
      BY <2>8, <2>10, <3>1
    <3>3. Updates(held, b) = TapsUpTo(below, p)
      BY <2>4, <3>2 DEF Updates
    <3>4. ConvHistory(held, b) = Padded(below, p)
      <4>1. CASE History = 0
        BY <4>1 DEF ConvHistory, Padded
      <4>2. CASE History # 0
        BY <2>4, <3>2, <4>2 DEF ConvHistory
      <4> QED  BY <4>1, <4>2
    <3> QED  BY <3>3, <3>4
  <2>11. HoldsPast(held, b, below, p)
    BY <2>9, <2>10 DEF HoldsPast
  <2> QED  BY <1>5, <2>11 DEF held, p, below
<1> QED  BY <1>7, <1>8

\* What the mixer adds is what the reference adds at the positions of the step.
LEMMA MixedIsTheReference ==
    ASSUME StepOK, layer \in 1..Layers, NEW i \in 1..Len(lanes)
    PROVE  \A k \in 1..Width(i) :
             Mixed(i)[k] = ReferenceMixer(layer, States(i, layer - 1), Offset(i) + k)
<1> DEFINE s == lanes[i][1]  b == lanes[i][2]  p == Offset(i)  w == Width(i)
           below == States(i, layer - 1)
           held == work[s].layers[layer]
<1>1. p \in Nat /\ w \in Nat \ {0} /\ ModelType(model)
  BY LanesRead DEF LaneReads, StepOK
<1>2. Behind(hidden[i], below, p, w)
  BY DEF HiddenOK, StepOK
<1>3. work[s].position = p /\ HoldsPast(held, b, below, p)
  BY PastHeld
<1>4. Mixed(i) = IF model.kinds[layer] = "full"
                 THEN Attend(hidden[i], Held(held, b) \o Keys(hidden[i], p), p)
                 ELSE Delta(hidden[i], held, b)
  BY <1>3 DEF Mixed
<1> HIDE DEF p, w, below, held
<1>5. SUFFICES ASSUME NEW k \in 1..w
               PROVE  Mixed(i)[k] = ReferenceMixer(layer, below, p + k)
  BY DEF p, w, below
<1>6. CASE model.kinds[layer] = "full"
  <2>1. KeysOf(Held(held, b), below, p)
    BY <1>3, <1>6 DEF HoldsPast
  <2>2. w \in Nat
    BY <1>1
  <2> DEFINE keys == Held(held, b) \o Keys(hidden[i], p)
  <2>3. KeysOf(keys, below, p + w)
    BY <1>1, <1>2, <2>1, <2>2, KeysGrow
  <2> HIDE DEF keys
  <2>4. Attend(hidden[i], keys, p)[k] = [at |-> (p + k) - 1, over |-> SeenKeys(below, p + k)]
    BY <1>1, <1>2, <2>3, AttendIsTheReference
  <2>5. ReferenceMixer(layer, below, p + k) = [at |-> (p + k) - 1, over |-> SeenKeys(below, p + k)]
    BY <1>6, MixerParts
  <2> QED  BY <1>4, <1>6, <2>4, <2>5 DEF keys
<1>7. CASE model.kinds[layer] # "full"
  <2>1. ConvHistory(held, b) = Padded(below, p) /\ Updates(held, b) = TapsUpTo(below, p)
    BY <1>3, <1>7 DEF HoldsPast
  <2>2. Delta(hidden[i], held, b)[k] = [query |-> Taps(below, p + k), state |-> TapsUpTo(below, p + k)]
    <3>1. DeltaReads(Delta(hidden[i], held, b), below, p, w)
      BY <1>1, <1>2, <2>1, LinearIsTheReference
    <3> QED  BY <3>1 DEF DeltaReads
  <2>3. ReferenceMixer(layer, below, p + k)
          = [query |-> Taps(below, p + k), state |-> [n \in 1..(p + k) |-> Taps(below, n)]]
    BY <1>7, MixerParts
  <2>4. TapsUpTo(below, p + k) = [n \in 1..(p + k) |-> Taps(below, n)]
    BY DEF TapsUpTo
  <2> QED  BY <1>4, <1>7, <2>2, <2>3, <2>4
<1> QED  BY <1>6, <1>7

\* What the mixer leaves is what the reference keeps of the sequences with the step.
LEMMA MixedStateIsTheReference ==
    ASSUME StepOK, layer \in 1..Layers, NEW s \in Stepping
    PROVE  MixedState(s) = [b \in 1..BatchOf(s) |-> ReferenceState(layer, States(Lane(s, b), layer - 1))]
<1> DEFINE held == work[s].layers[layer]
           mixed(b) == IF model.kinds[layer] = "full"
                       THEN Held(held, b) \o Keys(hidden[Lane(s, b)], work[s].position)
                       ELSE LinearState(hidden[Lane(s, b)], held, b)
<1>1. MixedState(s) = [b \in 1..BatchOf(s) |-> mixed(b)]
  BY DEF MixedState, Lane
<1>2. ASSUME NEW b \in 1..BatchOf(s)
      PROVE  mixed(b) = ReferenceState(layer, States(Lane(s, b), layer - 1))
  <2> DEFINE i == Lane(s, b)  p == Offset(i)  w == Width(i)  below == States(i, layer - 1)
  <2>1. i \in 1..Len(lanes) /\ lanes[i][1] = s /\ lanes[i][2] = b
    BY LaneOfMember DEF StepOK
  <2>2. LaneReads(i)
    BY <2>1, LanesRead DEF StepOK
  <2>3. SequenceReads(i)
    BY <2>2, SequencesRead
  <2>4. p \in Nat /\ w \in Nat \ {0} /\ ModelType(model) /\ w \in Nat /\ p + w \in Nat \ {0}
    BY <2>2 DEF LaneReads, StepOK
  <2>5. Behind(hidden[i], below, p, w)
    BY <2>1 DEF HiddenOK, StepOK
  <2>6. work[s].position = p /\ HoldsPast(held, b, below, p)
    BY <2>1, PastHeld
  <2>7. IsList(below, p + w)
    <3>1. layer - 1 \in 0..Layers /\ Layers \in Nat
      BY <2>4, ModelFacts
    <3>2. StatesOf(below, Sequence(i), p + w)
      BY <2>3, <2>4, <3>1, ReferenceStates DEF SequenceReads, States
    <3> QED  BY <3>2 DEF StatesOf
  <2> HIDE DEF i, p, w, below, held
  <2>8. ReferenceState(layer, below) =
          IF model.kinds[layer] = "full" THEN [k \in 1..(p + w) |-> [at |-> k - 1, of |-> below[k]]]
          ELSE [conv |-> Padded(below, p + w), updates |-> TapsUpTo(below, p + w)]
    BY <2>4, <2>7, StateKept
  <2>9. CASE model.kinds[layer] = "full"
    <3>1. KeysOf(Held(held, b), below, p)
      BY <2>6, <2>9 DEF HoldsPast
    <3> DEFINE keys == Held(held, b) \o Keys(hidden[i], p)
    <3>2. KeysOf(keys, below, p + w)
      BY <2>4, <2>5, <3>1, KeysGrow
    <3> HIDE DEF keys
    <3>3. keys = [k \in 1..(p + w) |-> [at |-> k - 1, of |-> below[k]]]
      BY <3>2 DEF KeysOf, IsList
    <3> QED  BY <2>6, <2>8, <2>9, <3>3 DEF keys, i, below
  <2>10. CASE model.kinds[layer] # "full"
    <3>1. ConvHistory(held, b) = Padded(below, p) /\ Updates(held, b) = TapsUpTo(below, p)
      BY <2>6, <2>10 DEF HoldsPast
    <3>2. LinearState(hidden[i], held, b)
            = [conv |-> Padded(below, p + w), updates |-> TapsUpTo(below, p + w)]
      BY <2>4, <2>5, <3>1, LinearIsTheReference
    <3> QED  BY <2>8, <2>10, <3>2 DEF i, below
  <2> QED  BY <2>9, <2>10
<1> HIDE DEF mixed
<1> QED  BY <1>1, <1>2

\* The copies after a layer.
LayersDone(s, l) ==
    [m \in 1..Layers |->
        IF m < l
        THEN [b \in 1..BatchOf(s) |-> ReferenceState(m, States(Lane(s, b), m - 1))]
        ELSE cache[s].layers[m]]

\* After the mixer the copies hold one layer more of the whole sequences.
LEMMA CachesMixed ==
    ASSUME StepOK, layer \in 1..Layers
    PROVE  MixedCaches = [s \in Stepping |-> [cache[s] EXCEPT !.layers = LayersDone(s, layer + 1)]]
<1> SUFFICES ASSUME NEW s \in Stepping
             PROVE  [work[s] EXCEPT !.layers[layer] = MixedState(s)]
                      = [cache[s] EXCEPT !.layers = LayersDone(s, layer + 1)]
  BY Zenon DEF MixedCaches
<1> DEFINE c == cache[s]  old == WorkLayers(s)  new == LayersDone(s, layer + 1)  mixed == MixedState(s)
<1>1. work[s] = [position |-> c.position, batch |-> c.batch, layers |-> old]
  BY WorkReads
<1>2. c = [position |-> c.position, batch |-> c.batch, layers |-> c.layers]
  BY WorkReads DEF CacheReads
<1>3. mixed = [b \in 1..BatchOf(s) |-> ReferenceState(layer, States(Lane(s, b), layer - 1))]
  BY MixedStateIsTheReference
<1>4. [old EXCEPT ![layer] = mixed] = new
  <2>1. Layers \in Nat /\ layer \in Nat
    BY ModelFacts DEF StepOK
  <2>2. old = [m \in 1..Layers |-> IF m < layer
            THEN [b \in 1..BatchOf(s) |-> ReferenceState(m, States(Lane(s, b), m - 1))]
            ELSE cache[s].layers[m]]
    BY DEF WorkLayers
  <2>3. new = [m \in 1..Layers |-> IF m < layer + 1
            THEN [b \in 1..BatchOf(s) |-> ReferenceState(m, States(Lane(s, b), m - 1))]
            ELSE cache[s].layers[m]]
    BY DEF LayersDone
  <2>4. \A m \in 1..Layers : m < layer + 1 <=> m < layer \/ m = layer
    BY <2>1
  <2> HIDE DEF mixed, old, new
  <2> QED  BY <1>3, <2>2, <2>3, <2>4
<1> HIDE DEF c, old, new, mixed
<1>5. [[position |-> c.position, batch |-> c.batch, layers |-> old] EXCEPT !.layers[layer] = mixed]
        = [position |-> c.position, batch |-> c.batch, layers |-> new]
  BY <1>4
<1>6. [c EXCEPT !.layers = new] = [position |-> c.position, batch |-> c.batch, layers |-> new]
  BY <1>2
<1>7. [work[s] EXCEPT !.layers[layer] = mixed] = [c EXCEPT !.layers = new]
  BY <1>1, <1>5, <1>6
<1> QED  BY <1>7 DEF c, new, mixed

\* The states of a step start with the tokens fed.
LEMMA TokensOfStates ==
    ASSUME StepOK, layer \in 1..Layers, NEW i \in 1..Len(lanes)
    PROVE  /\ DOMAIN hidden[i] = 1..Width(i) /\ DOMAIN input[i] = 1..Width(i)
           /\ \A k \in 1..Width(i) : TokenOf(hidden[i][k]) = input[i][k]
<1> DEFINE p == Offset(i)  w == Width(i)  below == States(i, layer - 1)
<1>1. LaneReads(i)
  BY LanesRead DEF StepOK
<1>2. SequenceReads(i)
  BY <1>1, SequencesRead
<1>3. p \in Nat /\ w \in Nat /\ p + w \in Nat /\ DOMAIN input[i] = 1..w
  BY <1>1, LenProperties DEF LaneReads, Width
<1>4. IsList(hidden[i], w) /\ \A k \in 1..w : hidden[i][k] = below[p + k]
  BY DEF HiddenOK, Behind, StepOK
<1>5. DOMAIN hidden[i] = 1..w
  <2> HIDE DEF w
  <2> QED  BY <1>3, <1>4, ListSeq
<1>6. StatesOf(below, Sequence(i), p + w)
  <2>1. layer - 1 \in 0..Layers /\ Layers \in Nat
    BY ModelFacts DEF StepOK
  <2>2. IsList(Sequence(i), p + w)
    BY <1>2 DEF SequenceReads
  <2> HIDE DEF p, w
  <2> QED  BY <1>3, <2>1, <2>2, ReferenceStates DEF States
<1>7. ASSUME NEW k \in 1..w PROVE TokenOf(hidden[i][k]) = input[i][k]
  <2>1. p + k \in 1..(p + w)
    BY <1>3
  <2>2. below[p + k][1] = Sequence(i)[p + k]
    <3> HIDE DEF p, w, below
    <3> QED  BY <1>6, <2>1 DEF StatesOf, StateOf
  <2>3. Sequence(i)[p + k] = input[i][k]
    BY <1>2 DEF SequenceReads
  <2> QED  BY <1>4, <2>2, <2>3 DEF TokenOf
<1> QED  BY <1>3, <1>5, <1>7

\* A layer that adds the reference's feed-forward adds what the reference adds.
LEMMA AddedIsTheReference ==
    ASSUME StepOK, layer \in 1..Layers, NEW i \in 1..Len(lanes), NEW mlp,
           \A k \in 1..Width(i) : mlp[k] = ReferenceMlp(layer, input[i][k])
    PROVE  Behind(Added(i, mlp), States(i, layer), Offset(i), Width(i))
<1> DEFINE p == Offset(i)  w == Width(i)  tokens == Sequence(i)
           below == Reference(tokens)[layer - 1]
<1>1. LaneReads(i)
  BY LanesRead DEF StepOK
<1>2. SequenceReads(i)
  BY <1>1, SequencesRead
<1>3. p \in Nat /\ w \in Nat /\ p + w \in Nat
  BY <1>1 DEF LaneReads
<1>4. DOMAIN hidden[i] = 1..w /\ \A k \in 1..w : hidden[i][k] = below[p + k]
  BY TokensOfStates DEF HiddenOK, Behind, StepOK, States
<1>5. \A k \in 1..w : Mixed(i)[k] = ReferenceMixer(layer, below, p + k)
  BY MixedIsTheReference DEF States
<1>6. DOMAIN tokens = 1..(p + w) /\ \A k \in 1..w : tokens[p + k] = input[i][k]
  <2>1. IsList(tokens, p + w)
    BY <1>2 DEF SequenceReads
  <2> QED  BY <1>2, <1>3, <2>1, ListSeq DEF SequenceReads
<1>7. Reference(tokens)[layer] = Grow(layer, below, tokens)
  BY ModelFacts, ReferenceLayered DEF Layered, StepOK
<1>8. ASSUME NEW k \in 1..w
      PROVE  Grow(layer, below, tokens)[p + k]
               = below[p + k] \o <<ReferenceMixer(layer, below, p + k), ReferenceMlp(layer, input[i][k])>>
  <2>1. p + k \in 1..(p + w)
    BY <1>3
  <2> HIDE DEF below, tokens
  <2> QED  BY <1>6, <2>1 DEF Grow
<1>9. Added(i, mlp) = [k \in 1..w |-> hidden[i][k] \o <<Mixed(i)[k], mlp[k]>>]
  BY <1>4 DEF Added
<1> HIDE DEF below, tokens, p, w
<1>10. ASSUME NEW k \in 1..w PROVE Added(i, mlp)[k] = Reference(tokens)[layer][p + k]
  <2>1. mlp[k] = ReferenceMlp(layer, input[i][k])
    BY DEF w
  <2> QED  BY <1>4, <1>5, <1>7, <1>8, <1>9, <2>1
<1>11. IsList(Added(i, mlp), w)
  BY <1>9 DEF IsList
<1> QED  BY <1>10, <1>11 DEF Behind, States, tokens, p, w

\* The rows of the union, lane after lane.
LaneRows(i) == [k \in 1..Width(i) |-> model.gate[input[i][k]]]

\* The union of routing rows has the rows of each lane together, from LaneStart on.
LEMMA UnionIs ==
    ASSUME StepOK, layer \in 1..Layers
    PROVE  /\ UnionRows = FlattenSeq([i \in 1..Len(lanes) |-> LaneRows(i)])
           /\ Len(UnionRows) \in Nat /\ IsList(UnionRows, Len(UnionRows))
           /\ \A j \in 1..Len(UnionRows) : UnionRows[j] \in [Experts(model) -> Int \cup {NaN}]
           /\ \A i \in 1..Len(lanes) : Holds(UnionRows, LaneStart(i), LaneRows(i))
<1> DEFINE n == Len(lanes)
           rows == [i \in 1..n |-> LaneRows(i)]
           R == [Experts(model) -> Int \cup {NaN}]
<1>1. n \in Nat /\ DOMAIN lanes = 1..n /\ IsList(input, n)
  BY ListSeq DEF LanesOK, StepOK
<1>2. ASSUME NEW i \in 1..n
      PROVE  [k \in DOMAIN hidden[i] |-> model.gate[TokenOf(hidden[i][k])]] = LaneRows(i)
  BY TokensOfStates DEF LaneRows
<1>3. UnionRows = FlattenSeq(rows)
  BY <1>1, <1>2 DEF UnionRows
<1>4. ASSUME NEW i \in 1..n
      PROVE  /\ Width(i) \in Nat /\ IsList(input[i], Width(i)) /\ Len(input[i]) = Width(i)
             /\ IsList(LaneRows(i), Width(i)) /\ Len(LaneRows(i)) = Width(i)
             /\ \A k \in 1..Width(i) : LaneRows(i)[k] \in R
  <2>1. LaneReads(i)
    BY LanesRead DEF StepOK
  <2>2. Width(i) \in Nat /\ IsList(input[i], Width(i)) /\ input[i] \in Seq(Token)
    BY <2>1 DEF LaneReads
  <2>3. IsList(LaneRows(i), Width(i))
    BY DEF LaneRows, IsList
  <2>4. Len(LaneRows(i)) = Width(i)
    BY <2>2, <2>3, ListSeq
  <2>5. ASSUME NEW k \in 1..Width(i) PROVE model.gate[input[i][k]] \in R
    <3>1. input[i][k] \in Token
      BY <2>2, ElementOfSeq DEF Width
    <3>2. Token = DOMAIN model.gate /\ \A t \in DOMAIN model.gate : model.gate[t] \in R
      BY ModelFacts DEF StepOK, Token
    <3> QED  BY <3>1, <3>2
  <2> HIDE DEF R
  <2> QED  BY <2>2, <2>3, <2>4, <2>5 DEF Width, LaneRows
<1> HIDE DEF R
<1>5. Lists(rows, n)
  <2>1. IsList(rows, n)
    BY DEF IsList
  <2> QED  BY <1>1, <1>4, <2>1 DEF Lists
<1>6. Lists(input, n)
  BY <1>1, <1>4 DEF Lists
<1>7. \A i \in 1..n : Len(rows[i]) = Len(input[i]) /\ \A k \in 1..Len(rows[i]) : rows[i][k] \in R
  BY <1>4
<1>8. \A i \in 1..n : rows[i] = LaneRows(i)
  OBVIOUS
<1> HIDE DEF rows, n
<1>9. /\ Len(FlattenSeq(rows)) \in Nat /\ IsList(FlattenSeq(rows), Len(FlattenSeq(rows)))
      /\ \A j \in 1..Len(FlattenSeq(rows)) : FlattenSeq(rows)[j] \in R
      /\ \A i \in 1..n : Holds(FlattenSeq(rows), Len(FlattenSeq(SubSeq(input, 1, i - 1))), rows[i])
  BY <1>5, <1>6, <1>7, FlattenCut
<1> QED  BY <1>3, <1>8, <1>9 DEF LaneStart, n, R, rows

\* Every position of a union selects the top experts of its row.
SelectsAll(selections, tops, shares, width) ==
    /\ width \in Nat /\ IsList(selections, width)
    /\ \A j \in 1..width : /\ Selects(selections[j], tops[j], shares[j])
                           /\ tops[j] \in SUBSET Experts(model)
                           /\ Cardinality(tops[j]) = model.topK

\* Summing the union expert by expert gives every position its own experts, in
\* ascending order, whatever the other positions chose.
LEMMA SumsOfSelections ==
    ASSUME ModelType(model), NEW selections, NEW tops, NEW shares, NEW width,
           SelectsAll(selections, tops, shares, width)
    PROVE  \A j \in 1..width : RoutedSums(selections)[j] = RoutesTo(tops[j], shares[j], model.topK)
<1> DEFINE experts == Experts(model)
<1>1. experts \subseteq Nat /\ IsFiniteSet(experts)
  BY ModelFacts
<1>2. /\ width \in Nat /\ IsList(selections, width)
      /\ \A j \in 1..width : tops[j] \in SUBSET experts
      /\ \A j \in 1..width : Selects(selections[j], tops[j], shares[j])
      /\ \A j \in 1..width : Cardinality(tops[j]) = model.topK
  BY DEF SelectsAll
<1> HIDE DEF experts
<1>3. SumsAre(RoutedSums(selections), tops, shares, width)
  BY <1>1, <1>2, SumsAscend
<1> QED  BY <1>2, <1>3 DEF SumsAre

\* What the union routes for a lane's tokens is what the reference routes for
\* them alone, and their sums are in the reference's order.
LEMMA RoutedIsTheReference ==
    ASSUME StepOK, layer \in 1..Layers, layer \in model.sparse, CanRoute, NEW i \in 1..Len(lanes),
           NEW selections, selections = [j \in DOMAIN UnionRows |-> SelectRoutes(UnionRows[j])]
    PROVE  \A k \in 1..Width(i) :
             /\ [routed |-> Cut(RoutedSums(selections), i)[k], shared |-> model.shared]
                  = ReferenceMlp(layer, input[i][k])
             /\ {r.expert : r \in ToSet(Cut(selections, i)[k])} = TopExperts(model.gate[input[i][k]])
<1> DEFINE width == Len(UnionRows)  start == LaneStart(i)  w == Width(i)
           top(j) == TopExperts(UnionRows[j])  share(j) == Share(UnionRows[j])
           tops == [j \in 1..width |-> top(j)]  shares == [j \in 1..width |-> share(j)]
           sums == RoutedSums(selections)
<1>1. /\ width \in Nat /\ IsList(UnionRows, width)
      /\ \A j \in 1..width : UnionRows[j] \in [Experts(model) -> Int \cup {NaN}]
      /\ Holds(UnionRows, start, LaneRows(i))
  BY UnionIs
<1>2. DOMAIN UnionRows = 1..width
  BY <1>1, ListSeq
<1>3. ASSUME NEW j \in 1..width
      PROVE  /\ Selects(SelectRoutes(UnionRows[j]), top(j), share(j))
             /\ top(j) \in SUBSET Experts(model) /\ Cardinality(top(j)) = model.topK
  <2> DEFINE row == UnionRows[j]
  <2>1. row \in [Experts(model) -> Int \cup {NaN}]
    BY <1>1
  <2>2. Routable(row)
    BY <1>2 DEF CanRoute
  <2> HIDE DEF row
  <2>3. /\ Selects(SelectRoutes(row), TopExperts(row), Share(row))
        /\ TopExperts(row) \in SUBSET Experts(model) /\ Cardinality(TopExperts(row)) = model.topK
    BY <2>1, <2>2, RoutesSelect DEF StepOK
  <2> QED  BY <2>3 DEF row
<1>4. IsList(selections, width) /\ \A j \in 1..width : selections[j] = SelectRoutes(UnionRows[j])
  BY <1>2 DEF IsList
<1>5. \A j \in 1..width : /\ Selects(selections[j], tops[j], shares[j])
                          /\ tops[j] = top(j) /\ shares[j] = share(j)
                          /\ tops[j] \in SUBSET Experts(model) /\ Cardinality(tops[j]) = model.topK
  <2> HIDE DEF top, share
  <2> QED  BY <1>3, <1>4
<1>6. \A j \in 1..width : sums[j] = RoutesTo(tops[j], shares[j], model.topK)
  <2>1. SelectsAll(selections, tops, shares, width)
    BY <1>1, <1>4, <1>5 DEF SelectsAll
  <2> HIDE DEF tops, shares, width
  <2> QED  BY <2>1, SumsOfSelections DEF StepOK
<1>7. start \in Nat /\ w \in Nat /\ start + w <= width
      /\ \A k \in 1..w : UnionRows[start + k] = model.gate[input[i][k]]
  <2>1. w \in Nat
    BY LanesRead DEF LaneReads, StepOK
  <2>2. IsList(LaneRows(i), w) /\ \A k \in 1..w : LaneRows(i)[k] = model.gate[input[i][k]]
    BY DEF LaneRows, IsList
  <2>3. Len(LaneRows(i)) = w
    BY <2>1, <2>2, ListSeq
  <2> HIDE DEF start, width, w
  <2> QED  BY <1>1, <2>1, <2>2, <2>3 DEF Holds, width
<1>8. ASSUME NEW union, NEW k \in 1..w PROVE Cut(union, i)[k] = union[start + k]
  <2> DEFINE a == start + 1
  <2>1. a \in Int /\ a + w - 1 = start + w /\ a + k - 1 = start + k
    <3>1. start \in Nat /\ w \in Nat
      BY <1>7
    <3> HIDE DEF start, w
    <3> QED  BY <3>1
  <2>2. SubSeq(union, a, a + w - 1)[k] = union[a + k - 1]
    <3> HIDE DEF a, w
    <3>1. IsCut(SubSeq(union, a, a + w - 1), union, a, w)
      BY <1>7, <2>1, ListCut
    <3> QED  BY <3>1 DEF IsCut
  <2>3. Cut(union, i) = SubSeq(union, start + 1, start + w)
    BY DEF Cut, Width
  <2> HIDE DEF start, w
  <2> QED  BY <2>1, <2>2, <2>3
<1>9. SUFFICES ASSUME NEW k \in 1..w
               PROVE  /\ [routed |-> Cut(sums, i)[k], shared |-> model.shared]
                           = ReferenceMlp(layer, input[i][k])
                      /\ {r.expert : r \in ToSet(Cut(selections, i)[k])}
                           = TopExperts(model.gate[input[i][k]])
  OBVIOUS
<1> DEFINE j == start + k  row == model.gate[input[i][k]]
<1>10. j \in 1..width /\ UnionRows[j] = row
  BY <1>1, <1>7
<1>11. Cut(sums, i)[k] = sums[j] /\ Cut(selections, i)[k] = selections[j]
  BY <1>8
<1>12. tops[j] = TopExperts(row) /\ shares[j] = Share(row) /\ Cardinality(tops[j]) = model.topK
       /\ Selects(selections[j], TopExperts(row), Share(row))
  BY <1>5, <1>10
<1>13. sums[j] = RoutesTo(TopExperts(row), Share(row), model.topK)
  <2> HIDE DEF j, row, tops, shares, width, sums, top, share
  <2> QED  BY <1>6, <1>10, <1>12
<1>14. ReferenceMlp(layer, input[i][k])
         = [routed |-> RoutesTo(TopExperts(row), Share(row), model.topK), shared |-> model.shared]
  BY DEF ReferenceMlp, RoutesTo, RouteTo, Share
<1>15. {r.expert : r \in ToSet(selections[j])} = TopExperts(row)
  <2>1. ExpertsOf(selections[j]) = TopExperts(row)
    <3> HIDE DEF j, row
    <3> QED  BY <1>12, SelectedExperts
  <2> QED  BY <2>1 DEF ExpertsOf
<1> HIDE DEF j, row, sums
<1> QED  BY <1>11, <1>13, <1>14, <1>15 DEF row

(***************************************************************************)
(* The layers preserve the invariant.                                      *)
(***************************************************************************)

\* While a step runs, its sequences stay what they are.
LEMMA SequencesUnchanged ==
    ASSUME model' = model, fed' = fed, lanes' = lanes, input' = input
    PROVE  /\ Stepping' = Stepping /\ \A s : BatchOf(s)' = BatchOf(s)
           /\ \A s, b : Lane(s, b)' = Lane(s, b)
           /\ \A i : Offset(i)' = Offset(i) /\ Width(i)' = Width(i) /\ Sequence(i)' = Sequence(i)
           /\ \A i, l : States(i, l)' = States(i, l)
<1>1. Stepping' = Stepping /\ \A s : BatchOf(s)' = BatchOf(s)
  BY DEF Stepping, BatchOf
<1>2. \A s, b : Lane(s, b)' = Lane(s, b)
  BY DEF Lane
<1>3. \A i : Before(i)' = Before(i) /\ Width(i)' = Width(i)
  BY DEF Before, Fed, Width
<1>4. \A i : Offset(i)' = Offset(i) /\ Sequence(i)' = Sequence(i)
  BY <1>3 DEF Offset, Sequence
<1>5. \A i, l : States(i, l)' = States(i, l)
  <2> SUFFICES ASSUME NEW i, NEW l PROVE States(i, l)' = States(i, l)
    OBVIOUS
  <2>1. Sequence(i)' = Sequence(i)
    BY <1>4
  <2>2. \A tokens : Reference(tokens)' = Reference(tokens)
    BY ReferenceUnchanged
  <2> QED  BY <2>1, <2>2 DEF States
<1> QED  BY <1>1, <1>2, <1>3, <1>4, <1>5

\* Nothing fed: the tokens stay well formed.
LEMMA FedUnchanged ==
    ASSUME model' = model, fed' = fed, FedOK
    PROVE  FedOK'
<1>1. Token' = Token
  BY ReferenceUnchanged
<1> QED  BY <1>1 DEF FedOK, Caches

\* Nothing fed and no cache written: the caches stay those of the fed tokens.
LEMMA CachesUnchanged ==
    ASSUME model' = model, fed' = fed, cache' = cache, CachesOK
    PROVE  CachesOK'
<1>1. \A sequences : ReferenceCache(sequences)' = ReferenceCache(sequences)
  BY ReferenceUnchanged
<1> QED  BY <1>1 DEF CachesOK, Caches

\* The generation loop is where it was while its step runs on.
LEMMA GreedyUnchanged ==
    ASSUME model' = model, fed' = fed, greedy' = greedy, GreedyOK, Running, Running',
           lanes' = lanes, input' = input
    PROVE  GreedyOK'
<1>1. /\ Token' = Token /\ Stepping' = Stepping
      /\ \A p, b, e : Grown(p, b, e)' = Grown(p, b, e)
  BY ReferenceUnchanged, SequencesUnchanged
<1>2. NextInput' = NextInput
  BY DEF NextInput
<1>3. LoopOK' <=> LoopOK
  BY <1>1, <1>2 DEF LoopOK
<1> QED  BY <1>1, <1>3 DEF GreedyOK, NoLoop

\* A returned generation stays what the reference gives.
LEMMA ResultUnchanged ==
    ASSUME model' = model, result' = result, GreedyIsTheReference
    PROVE  GreedyIsTheReference'
<1>1. \A p, b, e : ReferenceGreedy(p, b, e)' = ReferenceGreedy(p, b, e)
  BY ReferenceUnchanged
<1> QED  BY <1>1 DEF GreedyIsTheReference

\* A layer that adds what the reference adds, and chooses the experts it chooses.
LayerAdds ==
    /\ layer \in 1..Layers /\ layer' = layer + 1 /\ work' = MixedCaches
    /\ UNCHANGED <<model, text, cache, fed, lanes, input, greedy, result>>
    /\ IsList(hidden', Len(lanes)) /\ IsList(routes', Len(lanes))
    /\ \A i \in 1..Len(lanes) :
         /\ Behind(hidden'[i], States(i, layer), Offset(i), Width(i))
         /\ \E chosen : /\ routes'[i] = Append(routes[i], chosen)
                        /\ layer \in model.sparse => Chose(chosen, input[i])

\* A layer that adds to every position what the reference adds, and advances the
\* copies, preserves the invariant.
LEMMA LayerKeeps ==
    ASSUME IInv, StepOK, LayerAdds
    PROVE  IInv'
<1>1. /\ model' = model /\ text' = text /\ cache' = cache /\ fed' = fed /\ lanes' = lanes
      /\ input' = input /\ greedy' = greedy /\ result' = result /\ layer' = layer + 1
      /\ layer \in Nat \ {0} /\ layer \in 1..Layers /\ Layers \in Nat
  <2>1. Layers \in Nat
    BY ModelFacts DEF StepOK
  <2> QED  BY <2>1 DEF LayerAdds
<1>2. Running /\ Running'
  BY <1>1 DEF Running
<1>3. FedOK' /\ CachesOK' /\ GreedyOK' /\ GreedyIsTheReference'
  BY <1>1, <1>2, FedUnchanged, CachesUnchanged, GreedyUnchanged, ResultUnchanged DEF IInv
<1>4. /\ Stepping' = Stepping /\ \A s : BatchOf(s)' = BatchOf(s)
      /\ \A s, b : Lane(s, b)' = Lane(s, b)
      /\ \A i : Offset(i)' = Offset(i) /\ Width(i)' = Width(i)
      /\ \A i, l : States(i, l)' = States(i, l)
  BY <1>1, SequencesUnchanged
<1>5. /\ Layers' = Layers /\ Token' = Token /\ \A row : TopExperts(row)' = TopExperts(row)
      /\ \A l, below : ReferenceState(l, below)' = ReferenceState(l, below)
  BY <1>1, ReferenceUnchanged
<1>6. LanesOK'
  <2>1. LanesOK
    BY DEF StepOK
  <2>2. IsList(hidden', Len(lanes)) /\ IsList(routes', Len(lanes))
    BY DEF LayerAdds
  <2>3. layer' \in 1..(Layers + 1)
    BY <1>1
  <2>4. IsList(hidden, Len(lanes))' /\ IsList(routes, Len(lanes))'
    BY <1>1, <2>2 DEF IsList
  <2>5. \A c, m, n : ValidStep(c, m, n)' = ValidStep(c, m, n)
    BY DEF ValidStep
  <2>6. IsList(lanes, Len(lanes))' /\ IsList(input, Len(lanes))'
    BY <1>1, <2>1 DEF IsList, LanesOK
  <2>7. ASSUME NEW i \in 1..Len(lanes)
        PROVE  /\ lanes'[i] = <<lanes'[i][1], lanes'[i][2]>> /\ lanes'[i][1] \in Caches'
               /\ BatchOf(lanes[i][1])' \in Nat \ {0} /\ lanes'[i][2] \in 1..BatchOf(lanes[i][1])'
               /\ input'[i] \in Seq(Token') /\ input'[i] # <<>>
               /\ ValidStep(cache[lanes[i][1]], BatchOf(lanes[i][1]), Len(input[i]))'
               /\ \A b \in 1..BatchOf(lanes[i][1])' :
                    \E j \in 1..Len(lanes') : lanes'[j] = <<lanes'[i][1], b>>
    <3>1. BatchOf(lanes[i][1])' = BatchOf(lanes[i][1])
      BY <1>1, <1>4
    <3>2. ValidStep(cache[lanes[i][1]], BatchOf(lanes[i][1]), Len(input[i]))'
            <=> ValidStep(cache[lanes[i][1]], BatchOf(lanes[i][1]), Len(input[i]))
      BY <1>1, <2>5, <3>1
    <3> QED  BY <1>1, <1>5, <2>1, <3>1, <3>2, ZenonT(30) DEF LanesOK, Caches
  <2>8. /\ \A i, j \in 1..Len(lanes') : lanes'[i] = lanes'[j] => i = j
        /\ \A i, j \in 1..Len(lanes') : lanes'[i][1] = lanes'[j][1] => Len(input'[i]) = Len(input'[j])
        /\ Len(lanes') \in Nat \ {0}
    BY <1>1, <2>1 DEF LanesOK
  <2>9. layer' \in 1..(Layers' + 1)
    BY <1>5, <2>3
  <2>10. Len(lanes') = Len(lanes)
    BY <1>1
  <2> QED  BY <2>4, <2>6, <2>7, <2>8, <2>9, <2>10 DEF LanesOK
<1>7. WorkOK'
  <2>1. work' = [s \in Stepping |-> [cache[s] EXCEPT !.layers = LayersDone(s, layer + 1)]]
    BY CachesMixed DEF LayerAdds
  <2>2. ASSUME NEW s PROVE WorkLayers(s)' = LayersDone(s, layer + 1)
    BY <1>1, <1>4, <1>5 DEF WorkLayers, LayersDone
  <2> QED  BY <1>1, <1>4, <2>1, <2>2 DEF WorkOK
<1>8. HiddenOK'
  <2>1. ASSUME NEW i \in 1..Len(lanes)
        PROVE  Behind(hidden'[i], States(i, layer), Offset(i), Width(i))
    BY DEF LayerAdds
  <2>2. layer' - 1 = layer
    BY <1>1
  <2>3. ASSUME NEW i \in 1..Len(lanes)
        PROVE  Behind(hidden[i], States(i, layer - 1), Offset(i), Width(i))'
    <3>1. Offset(i)' = Offset(i) /\ Width(i)' = Width(i) /\ States(i, layer - 1)' = States(i, layer)
      BY <1>4, <2>2
    <3> QED  BY <2>1, <3>1 DEF Behind, IsList
  <2> QED  BY <1>1, <2>3 DEF HiddenOK
<1>9. RoutesOK'
  <2>1. ASSUME NEW i \in 1..Len(lanes)
        PROVE  /\ IsList(routes'[i], layer)
               /\ \A l \in model.sparse : l < layer + 1 => Chose(routes'[i][l], input[i])
    <3>1. IsList(routes[i], layer - 1) /\ \A l \in model.sparse : l < layer => Chose(routes[i][l], input[i])
      BY DEF RoutesOK, StepOK
    <3>2. PICK chosen : /\ routes'[i] = Append(routes[i], chosen)
                        /\ layer \in model.sparse => Chose(chosen, input[i])
      BY DEF LayerAdds
    <3>3. layer - 1 \in Nat /\ (layer - 1) + 1 = layer
      BY <1>1
    <3> DEFINE old == routes[i]  n == layer - 1
    <3>4. Appends(old, n, chosen)
      <4>1. IsList(old, n) /\ n \in Nat
        BY <3>1, <3>3
      <4> HIDE DEF old, n
      <4> QED  BY <4>1, ListAppend
    <3>5. /\ IsList(routes'[i], layer) /\ \A k \in 1..(layer - 1) : routes'[i][k] = routes[i][k]
          /\ routes'[i][layer] = chosen
      BY <3>2, <3>3, <3>4 DEF Appends
    <3>6. ASSUME NEW l \in model.sparse, l < layer + 1 PROVE Chose(routes'[i][l], input[i])
      <4>1. l \in Nat \ {0}
        BY ModelFacts DEF StepOK
      <4>2. CASE l < layer
        <5>1. l \in 1..(layer - 1)
          BY <1>1, <4>1, <4>2
        <5> QED  BY <3>1, <3>5, <4>2, <5>1
      <4>3. CASE l = layer
        BY <3>2, <3>5, <4>3
      <4> QED  BY <1>1, <3>6, <4>1, <4>2, <4>3
    <3> QED  BY <3>5, <3>6
  <2>2. ASSUME NEW chosen, NEW tokens, Chose(chosen, tokens) PROVE Chose(chosen, tokens)'
    BY <1>1, <1>5, <2>2 DEF Chose
  <2>3. layer' - 1 = layer /\ layer' = layer + 1
    BY <1>1
  <2> QED  BY <1>1, <2>1, <2>2, <2>3 DEF RoutesOK, IsList
<1> QED  BY <1>1, <1>3, <1>6, <1>7, <1>8, <1>9 DEF IInv

\* A running step has its part of the invariant.
LEMMA StepIsOK ==
    ASSUME IInv, Running
    PROVE  StepOK
BY ModelTyped DEF IInv, StepOK

\* The dense layer of qwen3_moe is such a layer.
LEMMA DenseLayerKeeps ==
    ASSUME IInv, DenseLayer
    PROVE  IInv'
<1> DEFINE mlp(i) == [k \in DOMAIN hidden[i] |-> "dense"]
<1>1. /\ StepOK /\ layer \in 1..Layers /\ layer \notin model.sparse
      /\ hidden' = [i \in DOMAIN lanes |-> Added(i, mlp(i))]
      /\ routes' = [i \in DOMAIN lanes |-> Append(routes[i], <<>>)]
      /\ work' = MixedCaches /\ layer' = layer + 1
      /\ UNCHANGED <<model, text, cache, fed, lanes, input, greedy, result>>
  BY StepIsOK DEF DenseLayer
<1>2. DOMAIN lanes = 1..Len(lanes)
  BY <1>1, ListSeq DEF LanesOK, StepOK
<1>3. ASSUME NEW i \in 1..Len(lanes)
      PROVE  Behind(hidden'[i], States(i, layer), Offset(i), Width(i))
  <2>1. \A k \in 1..Width(i) : mlp(i)[k] = ReferenceMlp(layer, input[i][k])
    BY <1>1, TokensOfStates DEF ReferenceMlp
  <2> HIDE DEF mlp
  <2>2. Behind(Added(i, mlp(i)), States(i, layer), Offset(i), Width(i))
    BY <1>1, <2>1, AddedIsTheReference
  <2> QED  BY <1>1, <1>2, <2>2
<1>4. IsList(hidden', Len(lanes)) /\ IsList(routes', Len(lanes))
  <2> HIDE DEF mlp
  <2> QED  BY <1>1, <1>2 DEF IsList
<1>5. LayerAdds
  BY <1>1, <1>2, <1>3, <1>4 DEF LayerAdds
<1> QED  BY <1>1, <1>5, LayerKeeps

\* So is a routed layer: the cut of the union gives each lane its own sums and routes.
LEMMA RoutedLayerKeeps ==
    ASSUME IInv, RoutedLayer
    PROVE  IInv'
<1> DEFINE selections == [j \in DOMAIN UnionRows |-> SelectRoutes(UnionRows[j])]
           sums == RoutedSums(selections)
           mlp(i) == [k \in DOMAIN hidden[i] |-> [routed |-> Cut(sums, i)[k], shared |-> model.shared]]
<1>1. /\ layer \in model.sparse /\ CanRoute /\ Running
      /\ hidden' = [i \in DOMAIN lanes |-> Added(i, mlp(i))]
      /\ routes' = [i \in DOMAIN lanes |-> Append(routes[i], Cut(selections, i))]
      /\ work' = MixedCaches /\ layer' = layer + 1
      /\ UNCHANGED <<model, text, cache, fed, lanes, input, greedy, result>>
  BY DEF RoutedLayer
<1>2. StepOK
  BY <1>1, StepIsOK
<1>3. layer \in 1..Layers /\ DOMAIN lanes = 1..Len(lanes)
  <2>1. DOMAIN lanes = 1..Len(lanes)
    BY <1>2, ListSeq DEF LanesOK, StepOK
  <2> QED  BY <1>1, <1>2, <2>1, ModelFacts DEF StepOK
<1>4. ASSUME NEW i \in 1..Len(lanes)
      PROVE  /\ Behind(hidden'[i], States(i, layer), Offset(i), Width(i))
             /\ Chose(Cut(selections, i), input[i])
  <2>1. \A k \in 1..Width(i) :
             /\ [routed |-> Cut(sums, i)[k], shared |-> model.shared]
                  = ReferenceMlp(layer, input[i][k])
             /\ {r.expert : r \in ToSet(Cut(selections, i)[k])} = TopExperts(model.gate[input[i][k]])
    <3> DEFINE given == selections
    <3>1. given = [j \in DOMAIN UnionRows |-> SelectRoutes(UnionRows[j])]
      OBVIOUS
    <3> HIDE DEF given
    <3> QED  BY <1>1, <1>2, <1>3, <3>1, RoutedIsTheReference
  <2> HIDE DEF selections, sums
  <2>2. \A k \in 1..Width(i) : mlp(i)[k] = ReferenceMlp(layer, input[i][k])
    BY <1>2, <1>3, <2>1, TokensOfStates
  <2>3. Chose(Cut(selections, i), input[i])
    BY <2>1 DEF Chose, Width
  <2> HIDE DEF mlp
  <2>4. Behind(Added(i, mlp(i)), States(i, layer), Offset(i), Width(i))
    BY <1>2, <1>3, <2>2, AddedIsTheReference
  <2> QED  BY <1>1, <1>3, <2>3, <2>4
<1>5. IsList(hidden', Len(lanes)) /\ IsList(routes', Len(lanes))
  <2> HIDE DEF mlp, selections
  <2> QED  BY <1>1, <1>3 DEF IsList
<1>6. \A i \in 1..Len(lanes) : routes'[i] = Append(routes[i], Cut(selections, i))
  <2> HIDE DEF selections
  <2> QED  BY <1>1, <1>3
<1> HIDE DEF selections, sums, mlp
<1>7. LayerAdds
  BY <1>1, <1>3, <1>4, <1>5, <1>6 DEF LayerAdds
<1> QED  BY <1>2, <1>7, LayerKeeps

(***************************************************************************)
(* The start of a step.                                                    *)
(***************************************************************************)

Started ==
    /\ layer = 1 /\ work = [s \in Stepping |-> cache[s]]
    /\ hidden = [i \in DOMAIN lanes |-> Embed(input[i])]
    /\ routes = [i \in DOMAIN lanes |-> <<>>]

\* Before the first layer: the copies are the caches, the states the tokens.
LEMMA StartedIsOK ==
    ModelType(model) /\ FedOK /\ CachesOK /\ LanesOK /\ Started => WorkOK /\ HiddenOK /\ RoutesOK
<1> SUFFICES ASSUME ModelType(model), FedOK, CachesOK, LanesOK, Started
             PROVE  WorkOK /\ HiddenOK /\ RoutesOK
  OBVIOUS
<1>1. DOMAIN lanes = 1..Len(lanes) /\ Layers \in Nat \ {0}
  BY ListSeq, ModelFacts DEF LanesOK
<1>2. WorkOK
  <2> SUFFICES ASSUME NEW s \in Stepping
               PROVE  cache[s] = [cache[s] EXCEPT !.layers = WorkLayers(s)]
    BY DEF WorkOK, Started
  <2>1. s \in Caches
    <3>1. PICK i \in 1..Len(lanes) : lanes[i][1] = s
      BY <1>1 DEF Stepping
    <3> QED  BY <3>1 DEF LanesOK
  <2>2. CacheReads(s)
    BY <2>1, CachesRead
  <2>3. WorkLayers(s) = cache[s].layers
    <3>1. \A l \in 1..Layers : ~(l < layer)
      BY <1>1 DEF Started
    <3>2. WorkLayers(s) = [l \in 1..Layers |-> cache[s].layers[l]]
      BY <3>1 DEF WorkLayers
    <3> QED  BY <2>2, <3>2 DEF CacheReads, IsList
  <2> DEFINE c == cache[s]
  <2>4. c = [position |-> c.position, batch |-> c.batch, layers |-> c.layers]
    BY <2>2 DEF CacheReads
  <2> HIDE DEF c
  <2>5. c = [c EXCEPT !.layers = c.layers]
    BY <2>4
  <2> QED  BY <2>3, <2>5 DEF c
<1>3. HiddenOK
  <2> SUFFICES ASSUME NEW i \in 1..Len(lanes)
               PROVE  Behind(hidden[i], States(i, layer - 1), Offset(i), Width(i))
    BY DEF HiddenOK
  <2> DEFINE p == Offset(i)  w == Width(i)  tokens == Sequence(i)
  <2>1. LaneReads(i)
    BY LanesRead
  <2>2. SequenceReads(i)
    BY <2>1, SequencesRead
  <2>3. p \in Nat /\ w \in Nat /\ p + w \in Nat /\ IsList(input[i], w) /\ IsList(tokens, p + w)
        /\ \A k \in 1..w : tokens[p + k] = input[i][k]
    BY <2>1, <2>2 DEF LaneReads, SequenceReads
  <2>4. layer - 1 = 0
    BY DEF Started
  <2>5. States(i, 0) = Embed(tokens)
    BY <1>1, ReferenceLayered DEF Layered, States
  <2>6. hidden[i] = Embed(input[i])
    BY <1>1 DEF Started
  <2> HIDE DEF p, w, tokens
  <2>7. DOMAIN input[i] = 1..w /\ DOMAIN tokens = 1..(p + w)
    <3>1. DOMAIN input[i] = 1..w
      BY <2>3, ListSeq
    <3>2. DOMAIN tokens = 1..(p + w)
      BY <2>3, ListSeq
    <3> QED  BY <3>1, <3>2
  <2>8. IsList(Embed(input[i]), w)
    BY <2>7 DEF Embed, IsList
  <2>9. ASSUME NEW k \in 1..w PROVE Embed(input[i])[k] = Embed(tokens)[p + k]
    <3>1. p + k \in 1..(p + w)
      BY <2>3
    <3>2. Embed(tokens)[p + k] = <<tokens[p + k]>>
      BY <2>7, <3>1 DEF Embed
    <3>3. Embed(input[i])[k] = <<input[i][k]>>
      BY <2>7 DEF Embed
    <3> QED  BY <2>3, <3>2, <3>3
  <2>10. Behind(hidden[i], Embed(tokens), p, w)
    BY <2>6, <2>8, <2>9 DEF Behind
  <2> QED  BY <2>4, <2>5, <2>10 DEF p, w
<1>4. RoutesOK
  <2>1. \A l \in model.sparse : ~(l < layer)
    BY <1>1, ModelFacts DEF Started
  <2>2. layer - 1 = 0
    BY DEF Started
  <2>3. \A i \in 1..Len(lanes) : routes[i] = <<>>
    BY <1>1 DEF Started
  <2>4. IsList(<<>>, 0)
    BY DEF IsList
  <2> QED  BY <2>1, <2>2, <2>3, <2>4 DEF RoutesOK
<1> QED  BY <1>2, <1>3, <1>4

\* The lanes ls, with their tokens, may start.
Sized(ls, n, s) == Cardinality({i \in 1..n : ls[i][1] = s})
Startable(ls, tokens, n) ==
    /\ n \in Nat \ {0} /\ IsList(ls, n) /\ IsList(tokens, n)
    /\ \A i \in 1..n :
         /\ ls[i] = <<ls[i][1], ls[i][2]>> /\ ls[i][1] \in Caches
         /\ Sized(ls, n, ls[i][1]) \in Nat \ {0} /\ ls[i][2] \in 1..Sized(ls, n, ls[i][1])
         /\ tokens[i] \in Seq(Token) /\ tokens[i] # <<>>
         /\ ValidStep(cache[ls[i][1]], Sized(ls, n, ls[i][1]), Len(tokens[i]))
         /\ \A b \in 1..Sized(ls, n, ls[i][1]) : \E j \in 1..n : ls[j] = <<ls[i][1], b>>
    /\ \A i, j \in 1..n : ls[i] = ls[j] => i = j
    /\ \A i, j \in 1..n : ls[i][1] = ls[j][1] => Len(tokens[i]) = Len(tokens[j])

\* A step whose lanes cover the batches of its sessions starts in the invariant.
LEMMA StartKeeps ==
    ASSUME IInv, ~Running, NEW n, NEW ls, NEW tokens, Startable(ls, tokens, n),
           StartLanes(ls, tokens), UNCHANGED <<model, text, cache, fed, greedy>>,
           GreedyOK'
    PROVE  IInv'
<1>1. /\ model' = model /\ text' = text /\ cache' = cache /\ fed' = fed /\ greedy' = greedy
      /\ lanes' = ls /\ input' = tokens /\ layer' = 1 /\ result' = <<>>
      /\ work' = [s \in {ls[i][1] : i \in DOMAIN ls} |-> cache[s]]
      /\ hidden' = [i \in DOMAIN ls |-> Embed(tokens[i])]
      /\ routes' = [i \in DOMAIN ls |-> <<>>]
  BY DEF StartLanes
<1>2. FedOK' /\ CachesOK'
  BY <1>1, FedUnchanged, CachesUnchanged DEF IInv
<1>3. GreedyIsTheReference'
  BY <1>1 DEF GreedyIsTheReference
<1>4. n \in Nat \ {0} /\ DOMAIN ls = 1..n /\ Len(ls) = n /\ IsList(ls, n) /\ IsList(tokens, n)
  BY ListSeq DEF Startable
<1>5. Layers \in Nat \ {0} /\ Layers' = Layers /\ Token' = Token
  BY <1>1, ModelTyped, ModelFacts, ReferenceUnchanged
<1>6. ModelType(model)'
  <2>1. model' \in Models
    BY <1>1 DEF IInv
  <2> QED  BY <2>1, DecoderAssumption
<1>7. Started'
  <2>1. Stepping' = {ls[i][1] : i \in DOMAIN ls}
    BY <1>1 DEF Stepping
  <2>2. \A s : Embed(s)' = Embed(s)
    BY DEF Embed
  <2> QED  BY <1>1, <2>1 DEF Started, Embed
<1>8. LanesOK'
  <2>1. \A s : BatchOf(s)' = Sized(ls, n, s)
    BY <1>1, <1>4 DEF BatchOf, Sized
  <2>2. \A c, m, k : ValidStep(c, m, k)' = ValidStep(c, m, k)
    BY DEF ValidStep
  <2>3. ASSUME NEW i \in 1..n
        PROVE  /\ lanes'[i] = <<lanes'[i][1], lanes'[i][2]>> /\ lanes'[i][1] \in Caches'
               /\ BatchOf(lanes[i][1])' \in Nat \ {0} /\ lanes'[i][2] \in 1..BatchOf(lanes[i][1])'
               /\ input'[i] \in Seq(Token') /\ input'[i] # <<>>
               /\ ValidStep(cache[lanes[i][1]], BatchOf(lanes[i][1]), Len(input[i]))'
               /\ \A b \in 1..BatchOf(lanes[i][1])' :
                    \E j \in 1..n : lanes'[j] = <<lanes'[i][1], b>>
    <3>1. BatchOf(lanes[i][1])' = Sized(ls, n, ls[i][1])
      BY <1>1, <2>1
    <3>2. ValidStep(cache[lanes[i][1]], BatchOf(lanes[i][1]), Len(input[i]))'
            <=> ValidStep(cache[ls[i][1]], Sized(ls, n, ls[i][1]), Len(tokens[i]))
      BY <1>1, <2>2, <3>1
    <3> QED  BY <1>1, <1>5, <3>1, <3>2, ZenonT(30) DEF Startable, Caches
  <2>4. /\ \A i, j \in 1..n : lanes'[i] = lanes'[j] => i = j
        /\ \A i, j \in 1..n : lanes'[i][1] = lanes'[j][1] => Len(input'[i]) = Len(input'[j])
        /\ Len(lanes') = n
    BY <1>1, <1>4 DEF Startable
  <2>5. layer' \in 1..(Layers' + 1)
    BY <1>1, <1>5
  <2>6. /\ IsList(lanes, Len(lanes))' /\ IsList(input, Len(lanes))'
        /\ IsList(hidden, Len(lanes))' /\ IsList(routes, Len(lanes))'
    BY <1>1, <1>4 DEF IsList
  <2> QED  BY <1>4, <2>3, <2>4, <2>5, <2>6, ZenonT(30) DEF LanesOK
<1>9. (ModelType(model) /\ FedOK /\ CachesOK /\ LanesOK /\ Started => WorkOK /\ HiddenOK /\ RoutesOK)'
  BY StartedIsOK, PTL
<1> QED  BY <1>1, <1>2, <1>3, <1>6, <1>7, <1>8, <1>9 DEF IInv

\* What a caller feeds next is there, and made of tokens.
LEMMA UpcomingIsThere ==
    ASSUME IInv, NEW s \in Session, NEW batch \in Batches, NEW b \in 1..batch, NEW w \in Nat \ {0},
           ValidStep(cache[s], batch, w)
    PROVE  Upcoming(s, b, w) \in Seq(Token) /\ Len(Upcoming(s, b, w)) = w /\ Upcoming(s, b, w) # <<>>
<1> DEFINE p == Len(Fed(s, b))  all == text[<<s, b>>]
<1>1. s \in Caches /\ batch \in Nat \ {0} /\ MaxPositions \in Nat
  BY DecoderAssumption DEF Caches
<1>2. all \in Seq(Token) /\ Len(all) >= MaxPositions
  BY DecoderAssumption DEF IInv, Token
<1>3. p \in Nat /\ cache[s].position = p
  <2>1. CacheReads(s) /\ fed[s] \in Seq(Seq(Token))
        /\ \A c \in 1..Len(fed[s]) : Len(fed[s][c]) = Len(fed[s][1])
    BY <1>1, CachesRead DEF IInv, FedOK
  <2>2. CASE fed[s] = <<>>
    BY <2>1, <2>2 DEF Fed, CacheReads
  <2>3. CASE fed[s] # <<>>
    <3>1. Len(fed[s]) \in Nat \ {0}
      BY <2>1, <2>3, EmptySeq
    <3>2. Len(fed[s]) = batch
      BY <2>1, <3>1 DEF CacheReads, ValidStep
    <3>3. Fed(s, b) = fed[s][b] /\ fed[s][b] \in Seq(Token)
      BY <2>1, <2>3, <3>2, ElementOfSeq DEF Fed
    <3>4. Len(fed[s][b]) = Len(fed[s][1]) /\ Len(fed[s][b]) \in Nat
      BY <2>1, <3>2, <3>3
    <3> QED  BY <2>1, <2>3, <3>3, <3>4 DEF CacheReads
  <2> QED  BY <2>2, <2>3
<1>4. p + w <= MaxPositions
  BY <1>3 DEF ValidStep
<1>5. Upcoming(s, b, w) = SubSeq(all, p + 1, (p + 1) + w - 1)
  <2>1. (p + 1) + w - 1 = p + w
    BY <1>3
  <2> QED  BY <2>1 DEF Upcoming
<1> HIDE DEF p, all
<1>6. Len(SubSeq(all, p + 1, (p + 1) + w - 1)) = w
  <2>1. p + 1 \in Int /\ w \in Nat
    BY <1>3
  <2>2. IsCut(SubSeq(all, p + 1, (p + 1) + w - 1), all, p + 1, w)
    BY <2>1, ListCut
  <2> QED  BY <2>2 DEF IsCut
<1>7. SubSeq(all, p + 1, (p + 1) + w - 1) \in Seq(Token)
  <2>1. \A k \in (p + 1)..((p + 1) + w - 1) : all[k] \in Token
    <3>1. Len(all) \in Nat
      BY <1>2
    <3>2. \A k \in (p + 1)..((p + 1) + w - 1) : k \in 1..Len(all)
      BY <1>1, <1>2, <1>3, <1>4, <3>1
    <3> QED  BY <1>2, <3>2, ElementOfSeq
  <2>2. p + 1 \in Int /\ (p + 1) + w - 1 \in Int
    BY <1>3
  <2> QED  BY <2>1, <2>2, SubSeqProperties
<1>8. Upcoming(s, b, w) # <<>>
  <2>1. Len(<<>>) = 0
    OBVIOUS
  <2> QED  BY <1>5, <1>6, <2>1
<1> QED  BY <1>5, <1>6, <1>7, <1>8

\* `forward' of one session, with one sequence or a batch of them.
LEMMA ForwardKeeps ==
    ASSUME IInv, NEW s \in Session, NEW batch \in Batches, NEW w \in Widths, Forward(s, batch, w)
    PROVE  IInv'
<1> DEFINE ls == [b \in 1..batch |-> <<s, b>>]
           tokens == [b \in 1..batch |-> Upcoming(s, b, w)]
<1>1. /\ ~Running /\ greedy = NoLoop /\ ValidStep(cache[s], batch, w) /\ StartLanes(ls, tokens)
      /\ UNCHANGED <<model, text, cache, fed, greedy>>
  BY DEF Forward
<1>2. batch \in Nat \ {0} /\ w \in Nat \ {0} /\ s \in Caches /\ s # Local
  BY DecoderAssumption DEF Caches
<1>3. \A b \in 1..batch : /\ Upcoming(s, b, w) \in Seq(Token) /\ Upcoming(s, b, w) # <<>>
                          /\ Len(Upcoming(s, b, w)) = w
  BY <1>1, <1>2, UpcomingIsThere
<1>4. Sized(ls, batch, s) = batch
  <2>1. {b \in 1..batch : ls[b][1] = s} = 1..batch
    OBVIOUS
  <2>2. Cardinality(1..batch) = batch
    BY <1>2, FS_Interval
  <2> QED  BY <2>1, <2>2 DEF Sized
<1>5. Startable(ls, tokens, batch)
  <2>1. /\ \A b \in 1..batch : ls[b] = <<s, b>> /\ tokens[b] = Upcoming(s, b, w)
        /\ IsList(ls, batch) /\ IsList(tokens, batch)
    BY DEF IsList
  <2> HIDE DEF ls, tokens
  <2> QED  BY <1>1, <1>2, <1>3, <1>4, <2>1, SMTT(30) DEF Startable
<1>6. GreedyOK'
  <2>1. fed'[Local] = <<>> /\ greedy' = NoLoop
    BY <1>1 DEF IInv, GreedyOK
  <2>2. Stepping' = {ls[i][1] : i \in DOMAIN ls}
    BY <1>1 DEF StartLanes, Stepping
  <2>3. Local \notin Stepping'
    BY <1>2, <2>2
  <2> QED  BY <2>1, <2>3 DEF GreedyOK, NoLoop
<1> HIDE DEF ls, tokens
<1> QED  BY <1>1, <1>5, <1>6, StartKeeps

\* `forward_batch' of several sessions, each with its own width.
LEMMA ForwardBatchKeeps ==
    ASSUME IInv, NEW ss \in Rosters, NEW ws \in [DOMAIN ss -> Widths], ForwardBatch(ss, ws)
    PROVE  IInv'
<1> DEFINE ls == [i \in DOMAIN ss |-> <<ss[i], 1>>]
           tokens == [i \in DOMAIN ss |-> Upcoming(ss[i], 1, ws[i])]
<1>1. /\ ~Running /\ greedy = NoLoop /\ \A i \in DOMAIN ss : ValidStep(cache[ss[i]], 1, ws[i])
      /\ StartLanes(ls, tokens) /\ UNCHANGED <<model, text, cache, fed, greedy>>
  BY DEF ForwardBatch
<1>2. PICK n \in 1..Cardinality(Session) : ss \in [1..n -> Session]
  BY DEF Rosters
<1>3. n \in Nat \ {0} /\ DOMAIN ss = 1..n
  <2>1. Cardinality(Session) \in Nat
    BY DecoderAssumption, FS_CardinalityType
  <2> QED  BY <1>2, <2>1
<1>4. \A i, j \in 1..n : ss[i] = ss[j] => i = j
  BY <1>3 DEF Rosters, IsInjective
<1>5. ASSUME NEW i \in 1..n
      PROVE  /\ ss[i] \in Session /\ ss[i] \in Caches /\ ss[i] # Local /\ ws[i] \in Nat \ {0}
             /\ ValidStep(cache[ss[i]], 1, ws[i])
             /\ Upcoming(ss[i], 1, ws[i]) \in Seq(Token) /\ Upcoming(ss[i], 1, ws[i]) # <<>>
             /\ Len(Upcoming(ss[i], 1, ws[i])) = ws[i]
  <2>1. ss[i] \in Session /\ ws[i] \in Nat \ {0} /\ 1 \in Batches /\ 1 \in 1..1
    <3>1. Widths \subseteq 1..MaxPositions /\ MaxPositions \in Nat /\ 1 \in Batches
      BY DecoderAssumption
    <3>2. ss[i] \in Session /\ ws[i] \in Widths
      BY <1>2, <1>3
    <3>3. \A w \in Widths : w \in Nat \ {0}
      BY <3>1
    <3>4. ws[i] \in Nat \ {0}
      BY <3>2, <3>3, Zenon
    <3>5. 1 \in 1..1
      OBVIOUS
    <3> QED  BY <3>1, <3>2, <3>4, <3>5
  <2>2. ValidStep(cache[ss[i]], 1, ws[i])
    BY <1>1, <1>3
  <2>3. ss[i] \in Caches /\ ss[i] # Local
    BY <2>1, DecoderAssumption DEF Caches
  <2> QED  BY <2>1, <2>2, <2>3, UpcomingIsThere
<1>6. /\ \A i \in 1..n : ls[i] = <<ss[i], 1>> /\ tokens[i] = Upcoming(ss[i], 1, ws[i])
      /\ IsList(ls, n) /\ IsList(tokens, n)
  BY <1>3 DEF IsList
<1>7. ASSUME NEW i \in 1..n PROVE Sized(ls, n, ss[i]) = 1
  <2>1. {j \in 1..n : ls[j][1] = ss[i]} = {i}
    <3> HIDE DEF ls, tokens
    <3> QED  BY <1>4, <1>6
  <2>2. Cardinality({i}) = 1
    BY FS_Singleton
  <2> QED  BY <2>1, <2>2 DEF Sized
<1>8. Startable(ls, tokens, n)
  <2> HIDE DEF ls, tokens
  <2>1. \A i \in 1..n : ls[i] = <<ls[i][1], ls[i][2]>> /\ ls[i][1] = ss[i] /\ ls[i][2] = 1
    BY <1>6
  <2>2. \A i \in 1..n : Sized(ls, n, ls[i][1]) = 1
    BY <1>7, <2>1
  <2>3. \A i, j \in 1..n : ls[i][1] = ls[j][1] => i = j
    BY <1>4, <2>1
  <2>4. ASSUME NEW i \in 1..n
        PROVE  /\ ls[i][1] \in Caches /\ ls[i][2] \in 1..Sized(ls, n, ls[i][1])
               /\ tokens[i] \in Seq(Token) /\ tokens[i] # <<>>
               /\ ValidStep(cache[ls[i][1]], Sized(ls, n, ls[i][1]), Len(tokens[i]))
               /\ \A b \in 1..Sized(ls, n, ls[i][1]) : ls[i] = <<ls[i][1], b>>
    <3>1. ls[i] = <<ls[i][1], ls[i][2]>> /\ ls[i][1] = ss[i] /\ ls[i][2] = 1
          /\ Sized(ls, n, ls[i][1]) = 1
      BY <2>1, <2>2
    <3>2. \A b \in 1..1 : b = 1
      OBVIOUS
    <3> QED  BY <1>5, <1>6, <3>1, <3>2
  <2>5. \A i \in 1..n : Sized(ls, n, ls[i][1]) \in Nat \ {0}
    BY <2>2
  <2>6. \A i, j \in 1..n : ls[i] = ls[j] => i = j
    BY <2>3
  <2> QED  BY <1>3, <1>6, <2>1, <2>3, <2>4, <2>5, <2>6 DEF Startable
<1>9. GreedyOK'
  <2>1. fed'[Local] = <<>> /\ greedy' = NoLoop
    BY <1>1 DEF IInv, GreedyOK
  <2>2. Stepping' = {ls[i][1] : i \in DOMAIN ls}
    BY <1>1 DEF StartLanes, Stepping
  <2>3. Local \notin Stepping'
    <3>1. DOMAIN ls = 1..n /\ \A i \in 1..n : ls[i][1] = ss[i] /\ ss[i] # Local
      BY <1>3, <1>5, <1>6
    <3> QED  BY <2>2, <3>1
  <2> QED  BY <2>1, <2>3 DEF GreedyOK, NoLoop
<1> HIDE DEF ls, tokens
<1> QED  BY <1>1, <1>8, <1>9, StartKeeps

\* The forward pass of the generation loop: the prompt, then the last token alone.
LEMMA GenerateForwardKeeps ==
    ASSUME IInv, GenerateForward
    PROVE  IInv'
<1> DEFINE ls == <<<<Local, 1>>>>  tokens == <<NextInput>>
<1>1. /\ ~Running /\ greedy # NoLoop /\ ValidStep(cache[Local], 1, Len(NextInput))
      /\ StartLanes(ls, tokens) /\ UNCHANGED <<model, text, cache, fed, greedy>>
  BY DEF GenerateForward
<1>2. LoopOK
  BY <1>1 DEF IInv, GreedyOK
<1>3. NextInput \in Seq(Token) /\ NextInput # <<>>
  <2>1. /\ greedy.prompt \in Seq(Token) /\ greedy.prompt # <<>> /\ greedy.generated \in Seq(Token)
    BY <1>2 DEF LoopOK
  <2>2. CASE greedy.generated = <<>>
    BY <2>1, <2>2 DEF NextInput
  <2>3. CASE greedy.generated # <<>>
    <3>1. Last(greedy.generated) \in Token
      <4>1. Len(greedy.generated) \in Nat \ {0}
        BY <2>1, <2>3, EmptySeq
      <4>2. Len(greedy.generated) \in 1..Len(greedy.generated)
        BY <4>1
      <4> QED  BY <2>1, <4>2, ElementOfSeq DEF Last
    <3>2. NextInput = <<Last(greedy.generated)>>
      BY <2>3 DEF NextInput
    <3> QED  BY <3>1, <3>2
  <2> QED  BY <2>2, <2>3
<1>4. Sized(ls, 1, Local) = 1
  <2>1. {j \in 1..1 : ls[j][1] = Local} = {1}
    OBVIOUS
  <2>2. Cardinality({1}) = 1
    BY FS_Singleton
  <2> QED  BY <2>1, <2>2 DEF Sized
<1>5. Startable(ls, tokens, 1)
  <2>1. ls[1] = <<Local, 1>> /\ tokens[1] = NextInput /\ IsList(ls, 1) /\ IsList(tokens, 1)
    BY DEF IsList
  <2>2. Local \in Caches /\ \A i \in 1..1 : i = 1
    BY DEF Caches
  <2> HIDE DEF ls, tokens
  <2> QED  BY <1>1, <1>3, <1>4, <2>1, <2>2 DEF Startable
<1>6. GreedyOK'
  <2>1. /\ greedy' = greedy /\ fed' = fed /\ model' = model /\ lanes' = ls /\ input' = tokens
    BY <1>1 DEF StartLanes
  <2>2. /\ Token' = Token /\ \A p, b, e : Grown(p, b, e)' = Grown(p, b, e)
    BY <2>1, ReferenceUnchanged
  <2>3. NextInput' = NextInput
    BY <2>1 DEF NextInput
  <2>4. LoopOK'
    BY <1>2, <2>1, <2>2, <2>3 DEF LoopOK
  <2> QED  BY <1>1, <2>1, <2>4 DEF GreedyOK, NoLoop
<1> HIDE DEF ls, tokens
<1> QED  BY <1>1, <1>5, <1>6, StartKeeps

(***************************************************************************)
(* The end of a step.                                                      *)
(***************************************************************************)

\* The caches are those of what was fed.
FedIs(f) ==
    /\ DOMAIN f = Caches
    /\ \A s \in Caches :
         /\ f[s] \in Seq(Seq(Token))
         /\ \A b \in 1..Len(f[s]) : Len(f[s][b]) = Len(f[s][1])
         /\ f[s] # <<>> => Len(f[s][1]) \in 1..MaxPositions

CachesAre(c, f) == c = [s \in Caches |-> ReferenceCache(f[s])]

\* Caches that are those of what was fed make up the invariant between steps.
LEMMA SettledKeeps ==
    ASSUME NEW c, NEW f, FedIs(f), CachesAre(c, f), model' = model, cache' = c, fed' = f
    PROVE  FedOK' /\ CachesOK'
<1>1. Token' = Token /\ \A sequences : ReferenceCache(sequences)' = ReferenceCache(sequences)
  BY ReferenceUnchanged
<1>2. FedOK'
  BY <1>1 DEF FedIs, FedOK, Caches
<1>3. CachesOK'
  BY <1>1 DEF CachesAre, CachesOK, Caches
<1> QED  BY <1>2, <1>3

\* A new cache has read nothing.
LEMMA NewIsSettled ==
    ASSUME NEW c, NEW f, FedIs(f), CachesAre(c, f), NEW s \in Caches
    PROVE  /\ FedIs([f EXCEPT ![s] = <<>>])
           /\ CachesAre([c EXCEPT ![s] = NewCache], [f EXCEPT ![s] = <<>>])
<1> DEFINE g == [f EXCEPT ![s] = <<>>]
<1>1. DOMAIN f = Caches /\ DOMAIN g = Caches /\ g[s] = <<>>
      /\ \A r \in Caches : r # s => g[r] = f[r]
  BY DEF FedIs
<1> HIDE DEF g
<1>2. FedIs(g)
  <2>1. <<>> \in Seq(Seq(Token)) /\ Len(<<>>) = 0
    OBVIOUS
  <2>2. ASSUME NEW r \in Caches
        PROVE  /\ g[r] \in Seq(Seq(Token))
               /\ \A b \in 1..Len(g[r]) : Len(g[r][b]) = Len(g[r][1])
               /\ g[r] # <<>> => Len(g[r][1]) \in 1..MaxPositions
    <3>1. CASE r = s
      BY <1>1, <2>1, <3>1
    <3>2. CASE r # s
      BY <1>1, <3>2 DEF FedIs
    <3> QED  BY <3>1, <3>2
  <2> QED  BY <1>1, <2>2 DEF FedIs
<1>3. ReferenceCache(<<>>) = NewCache
  BY DEF ReferenceCache
<1>4. CachesAre([c EXCEPT ![s] = NewCache], g)
  BY <1>1, <1>3 DEF CachesAre
<1> QED  BY <1>2, <1>4 DEF g

\* The committed copies are the caches of what was fed with the step.
LEMMA CommittedIsSettled ==
    ASSUME StepOK, Returning
    PROVE  /\ FedIs(TookIn) /\ CachesAre(Committed, TookIn)
           /\ \A s \in Stepping : TookIn[s] = [b \in 1..BatchOf(s) |-> Sequence(Lane(s, b))]
<1>1. ASSUME NEW s \in Stepping
      PROVE  /\ s \in Caches /\ BatchOf(s) \in Nat \ {0}
             /\ TookIn[s] = [b \in 1..BatchOf(s) |-> Sequence(Lane(s, b))]
             /\ \A b \in 1..BatchOf(s) : /\ Sequence(Lane(s, b)) \in Seq(Token)
                                         /\ Len(Sequence(Lane(s, b))) = cache[s].position + WidthOf(s)
             /\ cache[s].position + WidthOf(s) \in 1..MaxPositions
             /\ cache[s].position \in Nat /\ WidthOf(s) \in Nat
  <2>1. DOMAIN lanes = 1..Len(lanes)
    BY ListSeq DEF LanesOK, StepOK
  <2> DEFINE j == CHOOSE i \in DOMAIN lanes : lanes[i][1] = s
  <2>2. j \in 1..Len(lanes) /\ lanes[j][1] = s
    BY <2>1 DEF Stepping
  <2>3. WidthOf(s) = Width(j)
    BY DEF WidthOf, Width
  <2> HIDE DEF j
  <2>4. s \in Caches /\ BatchOf(s) \in Nat \ {0}
    BY <2>2 DEF LanesOK, StepOK
  <2>5. ASSUME NEW b \in 1..BatchOf(s)
        PROVE  /\ Fed(s, b) \o input[Lane(s, b)] = Sequence(Lane(s, b))
               /\ Sequence(Lane(s, b)) \in Seq(Token)
               /\ Len(Sequence(Lane(s, b))) = cache[s].position + WidthOf(s)
    <3> DEFINE i == Lane(s, b)
    <3>1. i \in 1..Len(lanes) /\ lanes[i][1] = s /\ lanes[i][2] = b
      BY LaneOfMember DEF StepOK
    <3> HIDE DEF i
    <3>2. LaneReads(i)
      BY <3>1, LanesRead DEF StepOK
    <3>3. SequenceReads(i)
      BY <3>2, SequencesRead
    <3>4. Width(i) = Width(j)
      BY <2>2, <3>1 DEF LanesOK, StepOK, Width
    <3>5. Offset(i) = cache[s].position
      BY <3>1, <3>2 DEF LaneReads
    <3>6. Fed(s, b) \o input[i] = Sequence(i)
      BY <3>1 DEF Sequence, Before
    <3>7. Sequence(i) \in Seq(Token) /\ Len(Sequence(i)) = Offset(i) + Width(i)
      BY <3>3 DEF SequenceReads
    <3> QED  BY <2>3, <3>4, <3>5, <3>6, <3>7 DEF i
  <2>6. TookIn[s] = [b \in 1..BatchOf(s) |-> Sequence(Lane(s, b))]
    <3>1. TookIn[s] = [b \in 1..BatchOf(s) |-> Fed(s, b) \o input[Lane(s, b)]]
      BY <2>4 DEF TookIn, Lane
    <3> QED  BY <2>5, <3>1
  <2>7. /\ cache[s].position \in Nat /\ WidthOf(s) \in Nat
        /\ cache[s].position + WidthOf(s) \in 1..MaxPositions
    <3>1. LaneReads(j)
      BY <2>2, LanesRead DEF StepOK
    <3>2. /\ Offset(j) \in Nat /\ Width(j) \in Nat \ {0} /\ cache[s].position = Offset(j)
          /\ Offset(j) + Width(j) <= MaxPositions
      BY <2>2, <3>1 DEF LaneReads
    <3> QED  BY <2>3, <3>2, DecoderAssumption
  <2> QED  BY <2>4, <2>5, <2>6, <2>7
<1>2. ASSUME NEW s \in Caches, s \notin Stepping
      PROVE  TookIn[s] = fed[s] /\ Committed[s] = cache[s]
  BY <1>2 DEF TookIn, Committed
<1>3. DOMAIN TookIn = Caches /\ Committed = [s \in Caches |-> Committed[s]]
  BY DEF TookIn, Committed
<1>4. FedIs(TookIn)
  <2>1. ASSUME NEW s \in Caches
        PROVE  /\ TookIn[s] \in Seq(Seq(Token))
               /\ \A b \in 1..Len(TookIn[s]) : Len(TookIn[s][b]) = Len(TookIn[s][1])
               /\ TookIn[s] # <<>> => Len(TookIn[s][1]) \in 1..MaxPositions
    <3>1. CASE s \in Stepping
      <4> DEFINE n == BatchOf(s)  f == TookIn[s]  len == cache[s].position + WidthOf(s)
                 seq(b) == Sequence(Lane(s, b))
      <4>1. /\ n \in Nat \ {0} /\ f = [b \in 1..n |-> seq(b)] /\ len \in 1..MaxPositions
            /\ \A b \in 1..n : seq(b) \in Seq(Token) /\ Len(seq(b)) = len
        BY <1>1, <3>1
      <4> HIDE DEF n, f, len, seq
      <4>2. f \in [1..n -> Seq(Token)] /\ \A b \in 1..n : f[b] = seq(b)
        BY <4>1
      <4>3. f \in Seq(Seq(Token)) /\ Len(f) = n
        <5>1. f \in Seq(Seq(Token)) /\ DOMAIN f = 1..n
          BY <4>1, <4>2, SeqDef
        <5>2. Len(f) \in Nat /\ DOMAIN f = 1..Len(f)
          BY <5>1, LenProperties
        <5> QED  BY <4>1, <5>1, <5>2
      <4>4. \A b \in 1..n : Len(f[b]) = len
        BY <4>1, <4>2
      <4>5. 1 \in 1..n
        BY <4>1
      <4> QED  BY <4>1, <4>3, <4>4, <4>5 DEF f
    <3>2. CASE s \notin Stepping
      BY <1>2, <3>2 DEF FedOK, StepOK
    <3> QED  BY <3>1, <3>2
  <2> QED  BY <1>3, <2>1 DEF FedIs
<1>5. ASSUME NEW s \in Caches PROVE Committed[s] = ReferenceCache(TookIn[s])
  <2>1. CASE s \in Stepping
    <3> DEFINE n == BatchOf(s)  f == TookIn[s]  seq(b) == Sequence(Lane(s, b))
               c == cache[s]  lay == WorkLayers(s)  w == WidthOf(s)
    <3>1. /\ n \in Nat \ {0} /\ f = [b \in 1..n |-> seq(b)]
          /\ \A b \in 1..n : Len(seq(b)) = c.position + w
          /\ c.position + w \in Nat
      BY <1>1, <2>1
    <3>2. Committed[s] = CommitStep(work[s], n, w)
      BY <2>1 DEF Committed
    <3>3. work[s] = [position |-> c.position, batch |-> c.batch, layers |-> lay]
      BY <2>1, WorkReads
    <3>4. lay = [l \in 1..Layers |-> [b \in 1..n |-> ReferenceState(l, Reference(seq(b))[l - 1])]]
      <4>1. Layers \in Nat /\ layer = Layers + 1
        BY ModelFacts DEF StepOK, Returning
      <4>2. \A l \in 1..Layers : l < layer
        BY <4>1
      <4> QED  BY <4>2 DEF WorkLayers, States
    <3> HIDE DEF n, f, seq, c, lay, w
    <3>5. Committed[s] = [position |-> c.position + w, batch |-> n, layers |-> lay]
      <4>1. ASSUME NEW p \in Int, NEW q, NEW x, NEW y, NEW z \in Int
            PROVE  CommitStep([position |-> p, batch |-> q, layers |-> x], y, z)
                     = [position |-> p + z, batch |-> y, layers |-> x]
        <5> DEFINE r == [position |-> p, batch |-> q, layers |-> x]
        <5>1. CommitStep(r, y, z) = [[r EXCEPT !.batch = y] EXCEPT !.position = @ + z]
          BY DEF CommitStep
        <5> DEFINE bound == [r EXCEPT !.batch = y]
        <5>2. bound = [position |-> p, batch |-> y, layers |-> x]
          OBVIOUS
        <5> HIDE DEF bound
        <5>3. [bound EXCEPT !.position = @ + z] = [position |-> p + z, batch |-> y, layers |-> x]
          BY <5>2
        <5> QED  BY <5>1, <5>3 DEF bound
      <4>2. c.position \in Int /\ w \in Int
        <5>1. cache[s].position \in Nat /\ WidthOf(s) \in Nat
          BY <1>1, <2>1
        <5> QED  BY <5>1 DEF c, w
      <4> QED  BY <3>2, <3>3, <4>1, <4>2
    <3>6. f # <<>> /\ DOMAIN f = 1..n /\ Len(f) = n /\ 1 \in 1..n
      <4>1. DOMAIN f = 1..n /\ 1 \in 1..n /\ IsList(f, n)
        BY <3>1 DEF IsList
      <4>2. Len(f) = n /\ Len(<<>>) = 0
        BY <3>1, <4>1, ListSeq
      <4> QED  BY <3>1, <4>1, <4>2
    <3>7. ReferenceCache(f) = [position |-> Len(f[1]), batch |-> Len(f),
              layers |-> [l \in 1..Layers |-> [b \in DOMAIN f |->
                            ReferenceState(l, Reference(f[b])[l - 1])]]]
      BY <3>6 DEF ReferenceCache
    <3>8. Len(f[1]) = c.position + w
      BY <3>1, <3>6
    <3>9. [l \in 1..Layers |-> [b \in DOMAIN f |-> ReferenceState(l, Reference(f[b])[l - 1])]] = lay
      BY <3>1, <3>4, <3>6
    <3> QED  BY <3>5, <3>6, <3>7, <3>8, <3>9 DEF f
  <2>2. CASE s \notin Stepping
    <3>1. cache[s] = ReferenceCache(fed[s])
      BY DEF CachesOK, StepOK
    <3> QED  BY <1>2, <2>2, <3>1
  <2> QED  BY <2>1, <2>2
<1>6. CachesAre(Committed, TookIn)
  BY <1>3, <1>5 DEF CachesAre
<1> QED  BY <1>1, <1>4, <1>6

(***************************************************************************)
(* The greedy generation.                                                  *)
(***************************************************************************)

\* The last member of a sequence, taken off and put back.
LEMMA LastOut ==
    ASSUME NEW S, NEW g \in Seq(S), g # <<>>
    PROVE  /\ Last(g) \in S /\ SubSeq(g, 1, Len(g) - 1) \in Seq(S)
           /\ SubSeq(g, 1, Len(g) - 1) \o <<Last(g)>> = g
<1>1. Len(g) \in Nat \ {0} /\ Len(g) \in 1..Len(g) /\ 1 \in 1..Len(g)
  BY EmptySeq
<1>2. g[Len(g)] \in S
  BY <1>1, ElementOfSeq
<1>3. SubSeq(g, 1, Len(g)) = SubSeq(g, 1, Len(g) - 1) \o <<g[Len(g)]>>
  BY <1>1, SubSeqRecursiveSecond
<1>4. SubSeq(g, 1, Len(g)) = g
  BY SubSeqFull
<1>5. SubSeq(g, 1, Len(g) - 1) \in Seq(S)
  <2>1. \A k \in 1..(Len(g) - 1) : g[k] \in S
    BY <1>1, ElementOfSeq
  <2>2. 1 \in Int /\ Len(g) - 1 \in Int
    BY <1>1
  <2> QED  BY <2>1, <2>2, SubSeqProperties
<1> QED  BY <1>2, <1>3, <1>4, <1>5 DEF Last

\* A sequence with one member more.
LEMMA LastIn ==
    ASSUME NEW S, NEW g \in Seq(S), NEW e \in S
    PROVE  /\ Append(g, e) \in Seq(S) /\ Len(Append(g, e)) = Len(g) + 1 /\ Append(g, e) # <<>>
           /\ Last(Append(g, e)) = e /\ SubSeq(Append(g, e), 1, Len(g)) = g
<1> DEFINE h == Append(g, e)
<1>1. /\ h \in Seq(S) /\ h # <<>> /\ Len(h) = Len(g) + 1 /\ \A k \in 1..Len(g) : h[k] = g[k]
      /\ h[Len(g) + 1] = e /\ Len(g) \in Nat
  BY AppendProperties, LenProperties
<1>2. SubSeq(h, 1, Len(g)) = g
  <2> HIDE DEF h
  <2> DEFINE n == Len(g)  cut == SubSeq(h, 1, n)
  <2>1. \A k \in 1..n : h[k] \in S /\ g[k] \in S
    BY <1>1, ElementOfSeq
  <2>2. n \in Int /\ 1 \in Int /\ n \in Nat
    BY <1>1
  <2> HIDE DEF n
  <2>3. /\ SubSeq(h, 1, n) \in Seq(S) /\ Len(SubSeq(h, 1, n)) = IF 1 <= n THEN n - 1 + 1 ELSE 0
        /\ \A k \in 1..(n - 1 + 1) : SubSeq(h, 1, n)[k] = h[1 + k - 1]
    BY <2>1, <2>2, SubSeqProperties
  <2> HIDE DEF cut
  <2>4. Len(cut) = n /\ cut \in Seq(S)
    BY <2>2, <2>3 DEF cut
  <2>5. \A k \in 1..n : cut[k] = h[k]
    BY <2>2, <2>3 DEF cut
  <2>6. \A k \in 1..Len(cut) : cut[k] = g[k]
    BY <1>1, <2>4, <2>5 DEF n
  <2>7. Len(cut) = Len(g)
    BY <2>4 DEF n
  <2>8. cut = g
    BY <2>4, <2>6, <2>7, SeqEqual
  <2> QED  BY <2>8 DEF cut, n
<1> QED  BY <1>1, <1>2 DEF Last

\* What follows another sequence ends it, and grows with it.
Follows(g, p, S) ==
    /\ g # <<>> => Last(p \o g) = Last(g)
    /\ p \o g \in Seq(S) /\ Len(p \o g) = Len(p) + Len(g)
    /\ \A e \in S : Append(p \o g, e) = p \o Append(g, e)

\* A sequence behind another one ends the two of them and grows at their end.
LEMMA LastBehind ==
    ASSUME NEW S, NEW p \in Seq(S), NEW g \in Seq(S)
    PROVE  Follows(g, p, S)
<1>1. p \o g \in Seq(S) /\ Len(p \o g) = Len(p) + Len(g) /\ Len(p) \in Nat /\ Len(g) \in Nat
  BY ConcatProperties, LenProperties
<1>2. ASSUME g # <<>> PROVE Last(p \o g) = Last(g)
  <2>1. Len(g) \in Nat \ {0}
    BY <1>2, EmptySeq
  <2>2. Len(p) + Len(g) \in 1..(Len(p) + Len(g)) /\ ~(Len(p) + Len(g) <= Len(p))
        /\ (Len(p) + Len(g)) - Len(p) = Len(g)
    BY <1>1, <2>1
  <2>3. (p \o g)[Len(p) + Len(g)] = g[Len(g)]
    BY <2>2, ConcatProperties
  <2> QED  BY <1>1, <2>3 DEF Last
<1>3. ASSUME NEW e \in S PROVE Append(p \o g, e) = p \o Append(g, e)
  <2>1. Append(p \o g, e) = (p \o g) \o <<e>> /\ Append(g, e) = g \o <<e>>
    BY <1>1, AppendIsConcat
  <2>2. (p \o g) \o <<e>> = p \o (g \o <<e>>)
    <3>1. <<e>> \in Seq(S)
      OBVIOUS
    <3> QED  BY <3>1, ConcatAssociative
  <2> QED  BY <2>1, <2>2
<1> QED  BY <1>1, <1>2, <1>3 DEF Follows

\* The reference appends one token after the other.
GrowOne(before, n, eos) ==
    IF n > 1 /\ Last(before) \in eos THEN before
    ELSE Append(before, ArgMax(Last(Reference(before)[Layers])))

GrownIs(grown, prompt, budget, eos) ==
    /\ grown[0] = prompt
    /\ \A n \in 1..budget : grown[n] = GrowOne(grown[n - 1], n, eos)

\* The recursion of ReferenceGreedy over the budget has a solution.
LEMMA GrownExists ==
    ASSUME NEW budget \in Nat, NEW prompt, NEW eos
    PROVE  \E grown : GrownIs(grown, prompt, budget, eos)
<1> DEFINE T == {k \in 0..budget : \E grown : GrownIs(grown, prompt, k, eos)}
<1>1. 0 \in T
  <2>1. GrownIs([n \in 0..budget |-> prompt], prompt, 0, eos)
    BY DEF GrownIs
  <2> QED  BY <2>1
<1>2. ASSUME NEW k \in 1..budget, k - 1 \in T PROVE k \in T
  <2>1. PICK grown : GrownIs(grown, prompt, k - 1, eos)
    BY <1>2
  <2> DEFINE more == [n \in 0..budget |-> IF n < k THEN grown[n] ELSE GrowOne(grown[k - 1], k, eos)]
  <2>2. more[0] = prompt
    BY <2>1 DEF GrownIs
  <2>3. ASSUME NEW n \in 1..k PROVE more[n] = GrowOne(more[n - 1], n, eos)
    <3>1. n \in Nat /\ n - 1 \in 0..budget /\ n \in 0..budget /\ k \in Nat /\ n - 1 < k /\ n <= k
      OBVIOUS
    <3>2. CASE n < k
      <4>1. n \in 1..(k - 1)
        BY <3>1, <3>2
      <4>2. grown[n] = GrowOne(grown[n - 1], n, eos)
        BY <2>1, <4>1 DEF GrownIs
      <4> QED  BY <3>1, <3>2, <4>2
    <3>3. CASE ~(n < k)
      <4>1. n = k /\ more[n - 1] = grown[k - 1]
        BY <3>1, <3>3
      <4>2. more[n] = GrowOne(grown[k - 1], k, eos)
        BY <3>1, <3>3
      <4> QED  BY <4>1, <4>2
    <3> QED  BY <3>2, <3>3
  <2>4. GrownIs(more, prompt, k, eos)
    BY <2>2, <2>3 DEF GrownIs
  <2> QED  BY <2>4
<1> HIDE DEF T
<1>3. \A k \in 0..budget : k \in T
  BY <1>1, <1>2, UpTo
<1>4. budget \in T
  BY <1>3
<1> QED  BY <1>4 DEF T

\* ReferenceGreedy is that solution, at its budget.
LEMMA GrownUnfolds ==
    ASSUME NEW budget \in Nat, NEW prompt, NEW eos
    PROVE  /\ GrownIs(Grown(prompt, budget, eos), prompt, budget, eos)
           /\ ReferenceGreedy(prompt, budget, eos) = Grown(prompt, budget, eos)[budget]
<1> DEFINE Unfolds(g) == g = [n \in 0..budget |-> IF n = 0 THEN prompt ELSE GrowOne(g[n - 1], n, eos)]
<1>1. Grown(prompt, budget, eos) = CHOOSE g : Unfolds(g)
  BY DEF Grown, GrowOne
<1>2. PICK grown : GrownIs(grown, prompt, budget, eos)
  BY GrownExists
<1>3. Unfolds([n \in 0..budget |-> grown[n]])
  <2> DEFINE g == [n \in 0..budget |-> grown[n]]
  <2>1. ASSUME NEW n \in 0..budget
        PROVE  g[n] = IF n = 0 THEN prompt ELSE GrowOne(g[n - 1], n, eos)
    <3>1. CASE n = 0
      BY <1>2, <3>1 DEF GrownIs
    <3>2. CASE n # 0
      <4>1. n \in 1..budget /\ n - 1 \in 0..budget /\ g[n - 1] = grown[n - 1] /\ g[n] = grown[n]
        BY <3>2
      <4>2. grown[n] = GrowOne(grown[n - 1], n, eos)
        BY <1>2, <4>1 DEF GrownIs
      <4> HIDE DEF g
      <4> QED  BY <3>2, <4>1, <4>2
    <3> QED  BY <3>1, <3>2
  <2> QED  BY <2>1
<1> DEFINE g == Grown(prompt, budget, eos)
<1>4. Unfolds(g)
  BY <1>1, <1>3, Zenon
<1>5. GrownIs(g, prompt, budget, eos)
  <2> HIDE DEF g
  <2>1. g[0] = prompt
    BY <1>4
  <2>2. ASSUME NEW n \in 1..budget PROVE g[n] = GrowOne(g[n - 1], n, eos)
    <3>1. n \in 0..budget /\ n # 0
      OBVIOUS
    <3> QED  BY <1>4, <3>1
  <2> QED  BY <2>1, <2>2 DEF GrownIs
<1>6. ReferenceGreedy(prompt, budget, eos) = g[budget]
  BY DEF ReferenceGreedy, Grown
<1> QED  BY <1>5, <1>6

\* An end-of-sequence token ends the reference's generation.
LEMMA GrownStays ==
    ASSUME NEW budget \in Nat, NEW prompt, NEW eos, NEW n \in 1..budget,
           Last(Grown(prompt, budget, eos)[n]) \in eos
    PROVE  Grown(prompt, budget, eos)[budget] = Grown(prompt, budget, eos)[n]
<1> DEFINE g == Grown(prompt, budget, eos)  rest == budget - n
           T == {k \in 0..rest : g[n + k] = g[n]}
<1>1. GrownIs(g, prompt, budget, eos)
  BY GrownUnfolds
<1>2. rest \in Nat /\ n + rest = budget /\ n + 0 = n
  OBVIOUS
<1> HIDE DEF g
<1>3. 0 \in T
  BY <1>2
<1>4. ASSUME NEW k \in 1..rest, k - 1 \in T PROVE k \in T
  <2>1. n + k \in 1..budget /\ (n + k) - 1 = n + (k - 1) /\ n + k > 1
    OBVIOUS
  <2>2. g[n + k] = GrowOne(g[n + (k - 1)], n + k, eos)
    BY <1>1, <2>1 DEF GrownIs
  <2>3. g[n + (k - 1)] = g[n] /\ Last(g[n]) \in eos
    BY <1>4 DEF g
  <2>4. g[n + k] = g[n]
    BY <2>1, <2>2, <2>3 DEF GrowOne
  <2>5. k \in 0..rest
    OBVIOUS
  <2> QED  BY <2>4, <2>5
<1> HIDE DEF T, rest
<1>5. \A k \in 0..rest : k \in T
  BY <1>2, <1>3, <1>4, UpTo
<1>6. rest \in T
  BY <1>2, <1>5
<1> QED  BY <1>2, <1>6 DEF T, g

\* What the head prefers is a token.
LEMMA PreferredIsToken ==
    ASSUME ModelType(model), NEW tokens \in Seq(Token), tokens # <<>>
    PROVE  ArgMax(Last(Reference(tokens)[Layers])) \in Token
<1> DEFINE n == Len(tokens)  below == Reference(tokens)[Layers - 1]
           mixed == ReferenceMixer(Layers, below, n)
           state == below[n] \o <<mixed, ReferenceMlp(Layers, tokens[n])>>
<1>1. n \in Nat \ {0} /\ IsList(tokens, n) /\ DOMAIN tokens = 1..n /\ tokens[n] \in Token
  <2>1. n \in Nat \ {0} /\ n \in 1..n
    BY EmptySeq
  <2> QED  BY <2>1, SeqList, LenProperties
<1>2. Layers \in Nat \ {0} /\ model.vocab \in Nat \ {0}
  BY ModelFacts
<1> HIDE DEF n
<1>3. Layers \in 1..Layers /\ Layers - 1 \in 0..Layers /\ Layers \in Nat /\ n \in 1..n /\ n \in Nat
  BY <1>1, <1>2
<1>4. Reference(tokens)[Layers] = Grow(Layers, below, tokens)
  BY <1>3, ReferenceLayered DEF Layered
<1>5. Last(Reference(tokens)[Layers]) = state
  <2> DEFINE top == Reference(tokens)[Layers]
  <2>1. IsList(top, n)
    BY <1>1, <1>3, ReferenceStates DEF StatesOf
  <2>2. top[n] = state
    BY <1>1, <1>3, <1>4 DEF Grow
  <2> HIDE DEF top, state
  <2>3. Len(top) = n
    BY <1>3, <2>1, ListSeq
  <2> QED  BY <2>2, <2>3 DEF Last, top
<1>6. StateOf(below[n], tokens[n])
  BY <1>1, <1>3, ReferenceStates DEF StatesOf
<1>7. StateOf(state, tokens[n]) /\ state[Len(state) - 1] = mixed
  <2> HIDE DEF below, mixed
  <2> QED  BY <1>6, StateGrows
<1>8. TokenOf(state) = tokens[n]
  <2> HIDE DEF state
  <2> QED  BY <1>7 DEF StateOf, TokenOf
<1>9. Seen(state) \in Nat
  <2>1. mixed = IF model.kinds[Layers] = "full" THEN [at |-> n - 1, over |-> SeenKeys(below, n)]
                ELSE [query |-> Taps(below, n), state |-> [k \in 1..n |-> Taps(below, k)]]
    BY MixerParts
  <2>2. Seen(state) = IF "over" \in DOMAIN mixed THEN Len(mixed.over) ELSE Len(mixed.state)
    <3> HIDE DEF state, mixed
    <3> QED  BY <1>7 DEF Seen
  <2> HIDE DEF mixed, state, below
  <2>3. CASE model.kinds[Layers] = "full"
    <3>1. mixed = [at |-> n - 1, over |-> SeenKeys(below, n)]
      BY <2>1, <2>3
    <3>2. "over" \in DOMAIN mixed /\ mixed.over = SeenKeys(below, n)
      BY <3>1
    <3>3. Len(SeenKeys(below, n)) \in Nat
      <4> DEFINE len == n - FirstSeen(n) + 1
      <4>1. len \in Nat
        BY <1>1, FirstSeenType
      <4>2. IsList(SeenKeys(below, n), len)
        BY DEF SeenKeys, IsList
      <4> HIDE DEF len
      <4> QED  BY <4>1, <4>2, ListSeq
    <3> QED  BY <2>2, <3>2, <3>3
  <2>4. CASE model.kinds[Layers] # "full"
    <3>1. mixed = [query |-> Taps(below, n), state |-> TapsUpTo(below, n)]
      BY <2>1, <2>4 DEF TapsUpTo
    <3>2. "over" \notin DOMAIN mixed /\ mixed.state = TapsUpTo(below, n)
      BY <3>1
    <3>3. Len(TapsUpTo(below, n)) \in Nat
      <4>1. IsList(TapsUpTo(below, n), n)
        BY DEF TapsUpTo, IsList
      <4> QED  BY <1>3, <4>1, ListSeq
    <3> QED  BY <2>2, <3>2, <3>3
  <2> QED  BY <2>3, <2>4
<1> HIDE DEF state
<1>10. tokens[n] \in Nat
  BY <1>1, <1>2 DEF Token
<1>11. ArgMax(state) = (tokens[n] + Seen(state)) % model.vocab
  BY <1>8 DEF ArgMax
<1>12. ArgMax(state) \in Token
  <2> DEFINE sum == tokens[n] + Seen(state)  v == model.vocab
  <2>1. sum \in Nat /\ v \in Nat \ {0}
    BY <1>2, <1>9, <1>10
  <2>2. Token = 0..(v - 1) /\ ArgMax(state) = sum % v
    BY <1>11 DEF Token
  <2> HIDE DEF sum, v
  <2> QED  BY <2>1, <2>2
<1> QED  BY <1>5, <1>12

\* The step of the loop has read the prompt and all that was generated, and the
\* head sees the reference's last state.
LEMMA LoopReads ==
    ASSUME IInv, Returning, greedy # NoLoop
    PROVE  LET whole == greedy.prompt \o greedy.generated IN
           /\ TookIn[Local] = <<whole>>
           /\ Last(hidden[1]) = Last(Reference(whole)[Layers])
<1> DEFINE p == greedy.prompt  g == greedy.generated  whole == p \o g
<1>1. Running /\ layer = Layers + 1
  BY DEF Returning
<1>2. StepOK /\ LoopOK
  BY <1>1, StepIsOK DEF IInv, GreedyOK
<1>3. lanes = <<<<Local, 1>>>> /\ input = <<NextInput>> /\ p \in Seq(Token) /\ p # <<>> /\ g \in Seq(Token)
      /\ fed[Local] = IF g = <<>> THEN <<>> ELSE <<p \o SubSeq(g, 1, Len(g) - 1)>>
  BY <1>1, <1>2 DEF LoopOK
<1>4. Len(lanes) = 1 /\ 1 \in 1..Len(lanes) /\ lanes[1][1] = Local /\ lanes[1][2] = 1
      /\ DOMAIN lanes = 1..1 /\ input[1] = NextInput
  BY <1>3
<1>5. Lane(Local, 1) = 1 /\ Local \in Stepping
  <2>1. Lane(lanes[1][1], lanes[1][2]) = 1 /\ lanes[1][1] \in Stepping
    BY <1>2, <1>4, LaneIs DEF StepOK
  <2> QED  BY <1>4, <2>1
<1>6. BatchOf(Local) = 1
  <2>1. {i \in DOMAIN lanes : lanes[i][1] = Local} = {1}
    BY <1>4
  <2> QED  BY <2>1, FS_Singleton DEF BatchOf
<1>7. Sequence(1) = whole
  <2>1. Sequence(1) = Fed(Local, 1) \o NextInput
    BY <1>4 DEF Sequence, Before
  <2>2. CASE g = <<>>
    <3>1. Fed(Local, 1) = <<>> /\ NextInput = p
      BY <1>3, <2>2 DEF Fed, NextInput
    <3>2. <<>> \o p = p /\ p \o <<>> = p
      BY <1>3, ConcatEmptySeq
    <3> QED  BY <2>1, <2>2, <3>1, <3>2
  <2>3. CASE g # <<>>
    <3>1. Fed(Local, 1) = p \o SubSeq(g, 1, Len(g) - 1) /\ NextInput = <<Last(g)>>
      <4>1. \A x : <<x>> # <<>> /\ <<x>>[1] = x
        OBVIOUS
      <4>2. fed[Local] = <<p \o SubSeq(g, 1, Len(g) - 1)>>
        BY <1>3, <2>3
      <4>3. Fed(Local, 1) = p \o SubSeq(g, 1, Len(g) - 1)
        BY <4>1, <4>2 DEF Fed
      <4> QED  BY <2>3, <4>3 DEF NextInput
    <3> DEFINE front == SubSeq(g, 1, Len(g) - 1)
    <3>2. front \in Seq(Token) /\ Last(g) \in Token /\ front \o <<Last(g)>> = g
      BY <1>3, <2>3, LastOut
    <3> HIDE DEF front, p, g
    <3>3. (p \o front) \o <<Last(g)>> = p \o (front \o <<Last(g)>>)
      <4>1. <<Last(g)>> \in Seq(Token)
        BY <3>2
      <4>2. p \in Seq(Token)
        BY <1>3
      <4> QED  BY <3>2, <4>1, <4>2, ConcatAssociative
    <3> QED  BY <2>1, <3>1, <3>2, <3>3 DEF front, p, g
  <2> QED  BY <2>2, <2>3
<1>8. TookIn[Local] = <<whole>>
  <2>1. TookIn[Local] = [b \in 1..1 |-> Sequence(Lane(Local, b))]
    BY <1>1, <1>2, <1>5, <1>6, CommittedIsSettled DEF Returning
  <2>2. \A b \in 1..1 : Sequence(Lane(Local, b)) = whole
    <3> HIDE DEF whole
    <3>1. \A b \in 1..1 : b = 1
      OBVIOUS
    <3> QED  BY <1>5, <1>7, <3>1
  <2> HIDE DEF whole
  <2> QED  BY <2>1, <2>2
<1>9. Last(hidden[1]) = Last(Reference(whole)[Layers])
  <2> DEFINE q == Offset(1)  w == Width(1)  top == Reference(whole)[Layers]
  <2>1. LaneReads(1)
    BY <1>2, <1>4, LanesRead DEF StepOK
  <2>2. SequenceReads(1)
    BY <2>1, SequencesRead
  <2>3. q \in Nat /\ w \in Nat \ {0} /\ w \in Nat /\ q + w \in Nat /\ w \in 1..w
        /\ IsList(whole, q + w)
    <3> HIDE DEF whole
    <3>1. Offset(1) \in Nat /\ Width(1) \in Nat \ {0} /\ IsList(Sequence(1), Offset(1) + Width(1))
      BY <2>1, <2>2 DEF LaneReads, SequenceReads
    <3> QED  BY <1>7, <3>1
  <2>4. layer - 1 = Layers /\ Layers \in Nat /\ Layers \in 0..Layers
    BY <1>1, <1>2, ModelFacts DEF StepOK
  <2>5. Behind(hidden[1], top, q, w)
    <3>1. Behind(hidden[1], States(1, layer - 1), Offset(1), Width(1))
      BY <1>2, <1>4 DEF StepOK, HiddenOK
    <3> QED  BY <1>7, <2>4, <3>1 DEF States
  <2>6. IsList(top, q + w)
    <3> HIDE DEF q, w, whole
    <3> QED  BY <2>3, <2>4, ReferenceStates DEF StatesOf
  <2> HIDE DEF q, w, top
  <2>7. Len(hidden[1]) = w /\ hidden[1][w] = top[q + w]
    <3>1. IsList(hidden[1], w)
      BY <2>5 DEF Behind
    <3>2. Len(hidden[1]) = w
      BY <2>3, <3>1, ListSeq
    <3> QED  BY <2>3, <2>5, <3>2 DEF Behind
  <2>8. Len(top) = q + w
    BY <2>3, <2>6, ListSeq
  <2> QED  BY <2>7, <2>8 DEF Last, top
<1> QED  BY <1>8, <1>9

\* The logits are returned and the copies committed.
LEMMA StepReturnsKeeps ==
    ASSUME IInv, StepReturns
    PROVE  IInv'
<1>1. /\ Returning /\ Running /\ greedy = NoLoop /\ cache' = Committed /\ fed' = TookIn
      /\ layer' = 0 /\ model' = model /\ text' = text /\ greedy' = greedy /\ result' = result
  BY DEF StepReturns, StepEnds, Returning
<1>2. StepOK
  BY <1>1, StepIsOK
<1>3. FedOK' /\ CachesOK'
  BY <1>1, <1>2, CommittedIsSettled, SettledKeeps
<1>4. GreedyOK'
  <2>1. fed[Local] = <<>> /\ Local \notin Stepping /\ Local \in Caches
    BY <1>1 DEF IInv, GreedyOK, Caches
  <2>2. fed'[Local] = <<>>
    BY <1>1, <2>1 DEF TookIn
  <2> QED  BY <1>1, <2>2 DEF GreedyOK, NoLoop, Running
<1>5. GreedyIsTheReference'
  BY <1>1, ResultUnchanged DEF IInv
<1> QED  BY <1>1, <1>3, <1>4, <1>5 DEF IInv, Running

\* A failed step and the loop it may have been part of.
LEMMA StepFailsKeeps ==
    ASSUME IInv, StepFails
    PROVE  IInv'
<1>1. /\ cache' = [cache EXCEPT ![Local] = NewCache] /\ fed' = [fed EXCEPT ![Local] = <<>>]
      /\ greedy' = NoLoop /\ layer' = 0 /\ model' = model /\ text' = text /\ result' = result
  BY DEF StepFails, StepEnds, LoopEnds
<1>2. FedIs(fed) /\ CachesAre(cache, fed)
  BY DEF IInv, FedOK, FedIs, CachesOK, CachesAre
<1>3. Local \in Caches
  BY DEF Caches
<1>4. FedOK' /\ CachesOK'
  BY <1>1, <1>2, <1>3, NewIsSettled, SettledKeeps
<1>5. GreedyOK'
  <2>1. fed'[Local] = <<>>
    BY <1>1, <1>2, <1>3 DEF FedIs
  <2> QED  BY <1>1, <2>1 DEF GreedyOK, NoLoop, Running
<1>6. GreedyIsTheReference'
  BY <1>1, ResultUnchanged DEF IInv
<1> QED  BY <1>1, <1>4, <1>5, <1>6 DEF IInv, Running

\* reset leaves a new cache and nothing fed.
LEMMA ResetKeeps ==
    ASSUME IInv, NEW s \in Session, Reset(s)
    PROVE  IInv'
<1>1. /\ cache' = [cache EXCEPT ![s] = NewCache] /\ fed' = [fed EXCEPT ![s] = <<>>]
      /\ ~Running /\ greedy = NoLoop /\ greedy' = greedy /\ layer' = layer /\ model' = model
      /\ text' = text /\ result' = <<>>
  BY DEF Reset, step
<1>2. FedIs(fed) /\ CachesAre(cache, fed)
  BY DEF IInv, FedOK, FedIs, CachesOK, CachesAre
<1>3. s \in Caches /\ s # Local /\ Local \in Caches
  BY DecoderAssumption DEF Caches
<1>4. FedOK' /\ CachesOK'
  BY <1>1, <1>2, <1>3, NewIsSettled, SettledKeeps
<1>5. GreedyOK'
  <2>1. fed'[Local] = <<>>
    BY <1>1, <1>2, <1>3 DEF FedIs, IInv, GreedyOK
  <2> QED  BY <1>1, <2>1 DEF GreedyOK, NoLoop, Running
<1>6. GreedyIsTheReference'
  BY <1>1 DEF GreedyIsTheReference
<1> QED  BY <1>1, <1>4, <1>5, <1>6 DEF IInv, Running

\* generate_greedy begins with a cache of its own and nothing generated.
LEMMA GenerateKeeps ==
    ASSUME IInv, NEW prompt \in Seq(Token), NEW budget \in Budgets, NEW eos,
           Generate(prompt, budget, eos)
    PROVE  IInv'
<1> DEFINE loop == [prompt |-> prompt, left |-> budget, eos |-> eos,
                    generated |-> <<>>, budget |-> budget]
<1>1. /\ ~Running /\ greedy = NoLoop /\ ValidGeneration(prompt, budget) /\ budget > 0
      /\ greedy' = loop /\ result' = <<>> /\ model' = model /\ text' = text /\ cache' = cache
      /\ fed' = fed /\ layer' = layer
  BY DEF Generate, step
<1>2. /\ loop.prompt = prompt /\ loop.left = budget /\ loop.eos = eos /\ loop.generated = <<>>
      /\ loop.budget = budget
      /\ loop = [prompt |-> loop.prompt, left |-> loop.left, eos |-> loop.eos,
                 generated |-> loop.generated, budget |-> loop.budget]
  OBVIOUS
<1>3. budget \in Nat \ {0} /\ prompt # <<>> /\ Len(prompt) + budget <= MaxPositions
  BY <1>1, DecoderAssumption DEF ValidGeneration
<1>4. FedOK' /\ CachesOK'
  BY <1>1, FedUnchanged, CachesUnchanged DEF IInv
<1>5. Token' = Token /\ \A p, b, e : Grown(p, b, e)' = Grown(p, b, e)
  BY <1>1, ReferenceUnchanged
<1>6. Grown(prompt, budget, eos)[0] = prompt \o <<>> /\ <<>> \in Seq(Token) /\ Len(<<>>) = 0
  <2>1. GrownIs(Grown(prompt, budget, eos), prompt, budget, eos)
    BY <1>3, GrownUnfolds
  <2>2. prompt \o <<>> = prompt
    BY ConcatEmptySeq
  <2> QED  BY <2>1, <2>2 DEF GrownIs
<1> HIDE DEF loop
<1>7. ~Running'
  BY <1>1 DEF Running
<1>8. LoopOK'
  <2>1. fed'[Local] = <<>>
    BY <1>1 DEF IInv, GreedyOK
  <2>2. greedy'.left = greedy'.budget - Len(greedy'.generated) /\ greedy'.left >= 1
    BY <1>1, <1>2, <1>3, <1>6
  <2>3. greedy'.prompt \o greedy'.generated
          = Grown(greedy.prompt, greedy.budget, greedy.eos)'[Len(greedy'.generated)]
    BY <1>1, <1>2, <1>5, <1>6
  <2> QED  BY <1>1, <1>2, <1>3, <1>5, <1>6, <1>7, <2>1, <2>2, <2>3 DEF LoopOK
<1>9. GreedyOK' /\ GreedyIsTheReference'
  <2>1. greedy' # NoLoop
    <3>1. NoLoop.budget = 0
      BY DEF NoLoop
    <3> QED  BY <1>1, <1>2, <1>3, <3>1
  <2> QED  BY <1>1, <1>8, <2>1 DEF GreedyOK, GreedyIsTheReference, NoLoop
<1> QED  BY <1>1, <1>4, <1>7, <1>9 DEF IInv

\* The loop ends where the reference ends, or goes on where it goes on.
LEMMA GenerateNextKeeps ==
    ASSUME IInv, GenerateNext
    PROVE  IInv'
<1> DEFINE p == greedy.prompt  g == greedy.generated  eos == greedy.eos  budget == greedy.budget
           whole == p \o g
           token == ArgMax(Last(hidden[1]))
           more == Append(g, token)
           ref == Grown(p, budget, eos)
           m == Len(g)
<1>1. /\ Returning /\ greedy # NoLoop
      /\ IF token \in eos \/ greedy.left = 1
         THEN /\ result' = <<p, budget, eos, p \o more>> /\ LoopEnds(Committed, TookIn)
         ELSE /\ greedy' = [greedy EXCEPT !.generated = more, !.left = @ - 1]
              /\ cache' = Committed /\ fed' = TookIn /\ result' = result
      /\ layer' = 0 /\ model' = model /\ text' = text
  BY DEF GenerateNext, StepEnds
<1>2. Running
  BY <1>1 DEF Returning
<1>3. StepOK /\ LoopOK
  BY <1>1, <1>2, StepIsOK DEF IInv, GreedyOK
<1>4. /\ greedy = [prompt |-> p, left |-> greedy.left, eos |-> eos, generated |-> g, budget |-> budget]
      /\ p \in Seq(Token) /\ p # <<>> /\ g \in Seq(Token) /\ budget \in Nat \ {0}
      /\ Len(p) + budget <= MaxPositions /\ greedy.left = budget - m /\ greedy.left >= 1
      /\ g # <<>> => Last(g) \notin eos
      /\ whole = ref[m]
  BY <1>3 DEF LoopOK
<1>5. TookIn[Local] = <<whole>> /\ Last(hidden[1]) = Last(Reference(whole)[Layers])
  BY <1>1, LoopReads
<1>6. FedIs(TookIn) /\ CachesAre(Committed, TookIn) /\ Local \in Caches
  BY <1>1, <1>3, CommittedIsSettled DEF Caches
<1>7. /\ Token' = Token
      /\ \A x, b, e : Grown(x, b, e)' = Grown(x, b, e)
      /\ \A x, b, e : ReferenceGreedy(x, b, e)' = ReferenceGreedy(x, b, e)
  BY <1>1, ReferenceUnchanged
<1>8. ModelType(model)
  BY <1>3 DEF StepOK
<1> HIDE DEF p, g, eos, budget
<1>9. whole \in Seq(Token) /\ whole # <<>> /\ (g # <<>> => Last(whole) = Last(g)) /\ m \in Nat
      /\ \A e \in Token : Append(whole, e) = p \o Append(g, e)
  <2>1. /\ whole \in Seq(Token) /\ Len(whole) = Len(p) + Len(g) /\ (g # <<>> => Last(whole) = Last(g))
        /\ \A e \in Token : Append(whole, e) = p \o Append(g, e)
    <3>1. p \in Seq(Token) /\ g \in Seq(Token)
      BY <1>4
    <3>2. Follows(g, p, Token)
      BY <3>1, LastBehind
    <3> QED  BY <3>2 DEF Follows
  <2>2. Len(p) \in Nat \ {0} /\ Len(g) \in Nat /\ Len(<<>>) = 0
    BY <1>4, EmptySeq, LenProperties
  <2>3. Len(whole) # 0
    <3> HIDE DEF whole
    <3> QED  BY <2>1, <2>2
  <2> HIDE DEF whole
  <2> QED  BY <2>1, <2>2, <2>3
<1> HIDE DEF whole
<1>10. token = ArgMax(Last(Reference(whole)[Layers])) /\ token \in Token
  <2>1. ArgMax(Last(Reference(whole)[Layers])) \in Token
    BY <1>8, <1>9, PreferredIsToken
  <2> QED  BY <1>5, <2>1
<1> HIDE DEF token
<1>11. /\ more \in Seq(Token) /\ Len(more) = m + 1 /\ more # <<>> /\ Last(more) = token
       /\ SubSeq(more, 1, m) = g
  BY <1>4, <1>10, LastIn
<1>12. Append(whole, token) = p \o more
  BY <1>9, <1>10
<1> HIDE DEF more
<1>13. m + 1 \in 1..budget /\ budget \in Nat /\ (m + 1) - 1 = m /\ (m > 0 => g # <<>>)
  <2>1. Len(<<>>) = 0
    OBVIOUS
  <2> QED  BY <1>4, <1>9, <2>1
<1>14. ref[m + 1] = p \o more
  <2>1. GrownIs(ref, p, budget, eos)
    BY <1>13, GrownUnfolds
  <2>2. ref[m + 1] = GrowOne(ref[m], m + 1, eos)
    <3> HIDE DEF ref, m
    <3> QED  BY <1>13, <2>1 DEF GrownIs
  <2>3. ~(m + 1 > 1 /\ Last(whole) \in eos)
    BY <1>4, <1>9, <1>13
  <2>4. GrowOne(whole, m + 1, eos) = Append(whole, token)
    BY <1>10, <2>3 DEF GrowOne
  <2> HIDE DEF ref, m
  <2> QED  BY <1>4, <1>12, <2>2, <2>4
<1>15. CASE token \in eos \/ greedy.left = 1
  <2>1. /\ result' = <<p, budget, eos, p \o more>> /\ greedy' = NoLoop
        /\ cache' = [Committed EXCEPT ![Local] = NewCache] /\ fed' = [TookIn EXCEPT ![Local] = <<>>]
    BY <1>1, <1>15 DEF LoopEnds
  <2>2. FedOK' /\ CachesOK'
    BY <1>1, <1>6, <2>1, NewIsSettled, SettledKeeps
  <2>3. GreedyOK'
    <3>1. fed'[Local] = <<>>
      BY <1>6, <2>1 DEF FedIs
    <3> QED  BY <1>1, <2>1, <3>1 DEF GreedyOK, NoLoop, Running
  <2>4. ReferenceGreedy(p, budget, eos) = ref[budget]
    BY <1>13, GrownUnfolds
  <2>5. ref[budget] = p \o more
    <3>1. CASE token \in eos
      <4>1. Last(ref[m + 1]) \in eos
        <5>1. Last(p \o more) = Last(more)
          <6>1. Follows(more, p, Token)
            BY <1>4, <1>11, LastBehind
          <6> QED  BY <1>11, <6>1 DEF Follows
        <5> QED  BY <1>11, <1>14, <3>1, <5>1
      <4>2. ref[budget] = ref[m + 1]
        <5> DEFINE k == m + 1
        <5>1. k \in 1..budget /\ budget \in Nat /\ Last(Grown(p, budget, eos)[k]) \in eos
          BY <1>13, <4>1
        <5> HIDE DEF k
        <5>2. Grown(p, budget, eos)[budget] = Grown(p, budget, eos)[k]
          BY <5>1, GrownStays
        <5> QED  BY <5>2 DEF k
      <4> QED  BY <1>14, <4>2
    <3>2. CASE greedy.left = 1
      <4>1. m + 1 = budget
        BY <1>4, <1>9, <3>2
      <4> QED  BY <1>14, <4>1
    <3> QED  BY <1>15, <3>1, <3>2
  <2>6. GreedyIsTheReference'
    <3>1. result'[1] = p /\ result'[2] = budget /\ result'[3] = eos /\ result'[4] = p \o more
      BY <2>1
    <3>2. ReferenceGreedy(result[1], result[2], result[3])' = ReferenceGreedy(p, budget, eos)
      BY <1>7, <3>1
    <3> QED  BY <2>4, <2>5, <3>1, <3>2 DEF GreedyIsTheReference
  <2> QED  BY <1>1, <2>2, <2>3, <2>6 DEF IInv, Running
<1>16. CASE ~(token \in eos \/ greedy.left = 1)
  <2> DEFINE left == greedy.left - 1
             loop == [prompt |-> p, left |-> left, eos |-> eos, generated |-> more, budget |-> budget]
  <2>1. greedy' = loop
    <3>1. greedy' = [greedy EXCEPT !.generated = more, !.left = @ - 1]
      BY <1>1, <1>16
    <3>2. [greedy EXCEPT !.generated = more, !.left = @ - 1]
            = [[greedy EXCEPT !.generated = more] EXCEPT !.left = @ - 1]
      OBVIOUS
    <3> DEFINE appended == [greedy EXCEPT !.generated = more]
    <3>3. appended = [prompt |-> p, left |-> greedy.left, eos |-> eos, generated |-> more, budget |-> budget]
      BY <1>4
    <3> HIDE DEF appended
    <3>4. [appended EXCEPT !.left = @ - 1] = loop
      BY <3>3
    <3> QED  BY <3>1, <3>2, <3>4 DEF appended
  <2>2. cache' = Committed /\ fed' = TookIn /\ result' = result
    BY <1>1, <1>16
  <2>3. FedOK' /\ CachesOK'
    BY <1>1, <1>6, <2>2, SettledKeeps
  <2>4. /\ greedy'.prompt = p /\ greedy'.left = left /\ greedy'.eos = eos
        /\ greedy'.generated = more /\ greedy'.budget = budget
        /\ greedy' = [prompt |-> p, left |-> left, eos |-> eos, generated |-> more, budget |-> budget]
    BY <2>1
  <2>5. left = budget - Len(more) /\ left >= 1
    BY <1>4, <1>9, <1>11, <1>16
  <2>6. fed'[Local] = <<p \o SubSeq(more, 1, Len(more) - 1)>>
    <3>1. Len(more) - 1 = m
      BY <1>9, <1>11
    <3> QED  BY <1>5, <1>11, <2>2, <3>1 DEF whole
  <2>7. p \o more = Grown(greedy.prompt, greedy.budget, greedy.eos)'[Len(more)]
    BY <1>7, <1>11, <1>14, <2>4
  <2>8. ~Running'
    BY <1>1 DEF Running
  <2> HIDE DEF left, loop, m, ref
  <2>9. LoopOK'
    BY <1>4, <1>7, <1>11, <1>16, <2>4, <2>5, <2>6, <2>7, <2>8 DEF LoopOK
  <2>10. greedy' # NoLoop
    <3>1. NoLoop.budget = 0
      BY DEF NoLoop
    <3> QED  BY <1>4, <2>4, <3>1
  <2>11. GreedyOK'
    BY <2>9, <2>10 DEF GreedyOK, NoLoop
  <2>12. GreedyIsTheReference'
    BY <1>1, <2>2, ResultUnchanged DEF IInv
  <2> QED  BY <1>1, <2>3, <2>8, <2>11, <2>12 DEF IInv, Running
<1> QED  BY <1>15, <1>16

(***************************************************************************)
(* The theorems.                                                           *)
(***************************************************************************)

\* New caches, nothing fed, no step and no generation.
LEMMA InitIsOK ==
    ASSUME Init
    PROVE  IInv
<1>1. /\ model \in Models /\ text \in Texts /\ cache = [s \in Caches |-> NewCache]
      /\ fed = [s \in Caches |-> <<>>] /\ greedy = NoLoop /\ result = <<>> /\ layer = 0
  BY DEF Init, NoStep
<1>2. FedOK
  <2>1. <<>> \in Seq(Seq(Token)) /\ Len(<<>>) = 0
    OBVIOUS
  <2> QED  BY <1>1, <2>1 DEF FedOK
<1>3. CachesOK
  <2>1. ReferenceCache(<<>>) = NewCache
    BY DEF ReferenceCache
  <2> QED  BY <1>1, <2>1 DEF CachesOK
<1>4. GreedyOK
  BY <1>1 DEF GreedyOK, Caches, Running
<1> QED  BY <1>1, <1>2, <1>3, <1>4 DEF IInv, GreedyIsTheReference, Running

\* A prompt taken from a session's text is made of tokens.
LEMMA PromptIsTokens ==
    ASSUME IInv, NEW s \in Session, NEW n \in Widths
    PROVE  SubSeq(text[<<s, 1>>], 1, n) \in Seq(Token)
<1> DEFINE all == text[<<s, 1>>]
<1>1. all \in Seq(Token) /\ Len(all) >= MaxPositions
  <2>1. 1 \in Batches /\ 1 \in 1..1
    BY DecoderAssumption
  <2> QED  BY <2>1, DecoderAssumption DEF IInv, Token
<1>2. n \in 1..MaxPositions /\ MaxPositions \in Nat /\ n \in Int /\ 1 \in Int
  BY DecoderAssumption
<1> HIDE DEF all
<1>3. \A k \in 1..n : all[k] \in Token
  <2>1. Len(all) \in Nat
    BY <1>1
  <2>2. \A k \in 1..n : k \in 1..Len(all)
    BY <1>1, <1>2, <2>1
  <2> QED  BY <1>1, <2>2, ElementOfSeq
<1>4. SubSeq(all, 1, n) \in Seq(Token)
  BY <1>2, <1>3, SubSeqProperties
<1> QED  BY <1>4 DEF all

\* A stuttering step changes nothing.
LEMMA StutterKeeps ==
    ASSUME IInv, UNCHANGED vars
    PROVE  IInv'
<1>1. /\ model' = model /\ text' = text /\ cache' = cache /\ fed' = fed /\ greedy' = greedy
      /\ result' = result /\ lanes' = lanes /\ input' = input /\ work' = work /\ hidden' = hidden
      /\ routes' = routes /\ layer' = layer
  BY DEF vars, step
<1>2. FedOK' /\ CachesOK' /\ GreedyIsTheReference'
  BY <1>1, FedUnchanged, CachesUnchanged, ResultUnchanged DEF IInv
<1>3. CASE ~Running
  <2>1. ~Running'
    BY <1>1, <1>3 DEF Running
  <2>2. Token' = Token /\ \A p, b, e : Grown(p, b, e)' = Grown(p, b, e)
    BY <1>1, ReferenceUnchanged
  <2>3. LoopOK' <=> LoopOK
    BY <1>1, <1>3, <2>1, <2>2 DEF LoopOK
  <2>4. GreedyOK'
    BY <1>1, <2>1, <2>3 DEF IInv, GreedyOK, NoLoop
  <2> QED  BY <1>1, <1>2, <2>1, <2>4 DEF IInv
<1>4. CASE Running
  <2>1. Running'
    BY <1>1, <1>4 DEF Running
  <2>2. GreedyOK'
    BY <1>1, <1>4, <2>1, GreedyUnchanged DEF IInv
  <2>3. /\ Layers' = Layers /\ Token' = Token /\ \A row : TopExperts(row)' = TopExperts(row)
        /\ \A l, below : ReferenceState(l, below)' = ReferenceState(l, below)
    BY <1>1, ReferenceUnchanged
  <2>4. /\ Stepping' = Stepping /\ \A s : BatchOf(s)' = BatchOf(s)
        /\ \A s, b : Lane(s, b)' = Lane(s, b)
        /\ \A i : Offset(i)' = Offset(i) /\ Width(i)' = Width(i)
        /\ \A i, l : States(i, l)' = States(i, l)
    BY <1>1, SequencesUnchanged
  <2>5. LanesOK /\ WorkOK /\ HiddenOK /\ RoutesOK
    BY <1>4 DEF IInv
  <2>6. LanesOK'
    <3>1. \A c, m, n : ValidStep(c, m, n)' = ValidStep(c, m, n)
      BY DEF ValidStep
    <3>2. ASSUME NEW i \in 1..Len(lanes)
          PROVE  /\ lanes'[i] = <<lanes'[i][1], lanes'[i][2]>> /\ lanes'[i][1] \in Caches'
                 /\ BatchOf(lanes[i][1])' \in Nat \ {0} /\ lanes'[i][2] \in 1..BatchOf(lanes[i][1])'
                 /\ input'[i] \in Seq(Token') /\ input'[i] # <<>>
                 /\ ValidStep(cache[lanes[i][1]], BatchOf(lanes[i][1]), Len(input[i]))'
                 /\ \A b \in 1..BatchOf(lanes[i][1])' :
                      \E j \in 1..Len(lanes') : lanes'[j] = <<lanes'[i][1], b>>
      <4>1. BatchOf(lanes[i][1])' = BatchOf(lanes[i][1])
        BY <1>1, <2>4
      <4>2. ValidStep(cache[lanes[i][1]], BatchOf(lanes[i][1]), Len(input[i]))'
              <=> ValidStep(cache[lanes[i][1]], BatchOf(lanes[i][1]), Len(input[i]))
        BY <1>1, <3>1, <4>1
      <4> QED  BY <1>1, <2>3, <2>5, <4>1, <4>2, ZenonT(30) DEF LanesOK, Caches
    <3>3. /\ \A i, j \in 1..Len(lanes') : lanes'[i] = lanes'[j] => i = j
          /\ \A i, j \in 1..Len(lanes') : lanes'[i][1] = lanes'[j][1] => Len(input'[i]) = Len(input'[j])
          /\ Len(lanes') \in Nat \ {0} /\ Len(lanes') = Len(lanes)
      BY <1>1, <2>5 DEF LanesOK
    <3>4. layer' \in 1..(Layers' + 1)
      BY <1>1, <2>3, <2>5 DEF LanesOK
    <3>5. /\ IsList(lanes, Len(lanes))' /\ IsList(input, Len(lanes))'
          /\ IsList(hidden, Len(lanes))' /\ IsList(routes, Len(lanes))'
      BY <1>1, <2>5 DEF IsList, LanesOK
    <3> QED  BY <3>2, <3>3, <3>4, <3>5 DEF LanesOK
  <2>7. WorkOK'
    <3>1. ASSUME NEW s PROVE WorkLayers(s)' = WorkLayers(s)
      BY <1>1, <2>3, <2>4 DEF WorkLayers
    <3> QED  BY <1>1, <2>4, <2>5, <3>1 DEF WorkOK
  <2>8. HiddenOK'
    <3>1. ASSUME NEW i \in 1..Len(lanes)
          PROVE  Behind(hidden[i], States(i, layer - 1), Offset(i), Width(i))'
      <4>1. /\ Offset(i)' = Offset(i) /\ Width(i)' = Width(i)
            /\ States(i, layer - 1)' = States(i, layer - 1)
        BY <1>1, <2>4
      <4>2. Behind(hidden[i], States(i, layer - 1), Offset(i), Width(i))
        BY <2>5 DEF HiddenOK
      <4> QED  BY <1>1, <4>1, <4>2 DEF Behind, IsList
    <3> QED  BY <1>1, <3>1 DEF HiddenOK
  <2>9. RoutesOK'
    <3>1. ASSUME NEW chosen, NEW tokens, Chose(chosen, tokens) PROVE Chose(chosen, tokens)'
      BY <1>1, <2>3, <3>1 DEF Chose
    <3> QED  BY <1>1, <2>5, <3>1 DEF RoutesOK, IsList
  <2> QED  BY <1>1, <1>2, <2>2, <2>6, <2>7, <2>8, <2>9 DEF IInv
<1> QED  BY <1>3, <1>4

\* The invariant is inductive.
LEMMA StepKeeps ==
    ASSUME IInv, [Next]_vars
    PROVE  IInv'
<1>1. ASSUME NEW s \in Session, NEW batch \in Batches, NEW w \in Widths, Forward(s, batch, w)
      PROVE  IInv'
  BY <1>1, ForwardKeeps
<1>2. ASSUME NEW ss \in Rosters, NEW ws \in [DOMAIN ss -> Widths], ForwardBatch(ss, ws)
      PROVE  IInv'
  BY <1>2, ForwardBatchKeeps
<1>3. CASE RoutedLayer
  BY <1>3, RoutedLayerKeeps
<1>4. CASE DenseLayer
  BY <1>4, DenseLayerKeeps
<1>5. CASE StepReturns
  BY <1>5, StepReturnsKeeps
<1>6. CASE StepFails
  BY <1>6, StepFailsKeeps
<1>7. ASSUME NEW s \in Session, Reset(s)
      PROVE  IInv'
  BY <1>7, ResetKeeps
<1>8. ASSUME NEW s \in Session, NEW n \in Widths, NEW budget \in Budgets, NEW eos,
             Generate(SubSeq(text[<<s, 1>>], 1, n), budget, eos)
      PROVE  IInv'
  <2>1. SubSeq(text[<<s, 1>>], 1, n) \in Seq(Token)
    BY PromptIsTokens
  <2> QED  BY <1>8, <2>1, GenerateKeeps
<1>9. CASE GenerateForward
  BY <1>9, GenerateForwardKeeps
<1>10. CASE GenerateNext
  BY <1>10, GenerateNextKeeps
<1>11. CASE UNCHANGED vars
  BY <1>11, StutterKeeps
<1> QED  BY <1>1, <1>2, <1>3, <1>4, <1>5, <1>6, <1>7, <1>8, <1>9, <1>10, <1>11 DEF Next

\* The invariant: the caches are those of the committed tokens, and a running
\* step is, layer by layer, where the reference is on the whole sequences.
THEOREM DecoderInvariant == Spec => []IInv
<1>1. Init => IInv
  BY InitIsOK
<1>2. IInv /\ [Next]_vars => IInv'
  BY StepKeeps
<1> QED  BY <1>1, <1>2, PTL DEF Spec

\* What forward and forward_batch return for the tokens fed is what the model
\* computes on the whole sequence at once, routes included: however the
\* sequence was cut into steps, whatever rows shared the union, and whatever
\* failed or was reset in between.
THEOREM StepsAreTheReference == Spec => []StepsDoNotMatter
<1>1. IInv => StepsDoNotMatter
  <2> SUFFICES ASSUME IInv, Returning, NEW i \in DOMAIN lanes
               PROVE  LET before == Fed(lanes[i][1], lanes[i][2])
                          whole  == before \o input[i]
                      IN  /\ hidden[i] = SubSeq(Reference(whole)[Layers], Len(before) + 1, Len(whole))
                          /\ \A l \in model.sparse, k \in DOMAIN input[i] :
                               {r.expert : r \in ToSet(routes[i][l][k])}
                                   = TopExperts(model.gate[input[i][k]])
    BY DEF StepsDoNotMatter
  <2> DEFINE p == Offset(i)  w == Width(i)  top == Reference(Sequence(i))[Layers]
  <2>1. StepOK /\ layer = Layers + 1
    BY StepIsOK DEF Returning
  <2>2. i \in 1..Len(lanes)
    BY <2>1, ListSeq DEF StepOK, LanesOK
  <2>3. LaneReads(i)
    BY <2>1, <2>2, LanesRead DEF StepOK
  <2>4. SequenceReads(i)
    BY <2>3, SequencesRead
  <2>5. p \in Nat /\ w \in Nat /\ Len(Sequence(i)) = p + w /\ DOMAIN input[i] = 1..Len(input[i])
    BY <2>3, <2>4, LenProperties DEF LaneReads, SequenceReads
  <2>6. Layers \in Nat /\ layer - 1 = Layers /\ \A l \in model.sparse : l < layer
    BY <2>1, ModelFacts DEF StepOK
  <2>7. hidden[i] = SubSeq(top, p + 1, p + w)
    <3>1. Behind(hidden[i], top, p, w)
      BY <2>1, <2>2, <2>6 DEF StepOK, HiddenOK, States
    <3> DEFINE a == p + 1
    <3> HIDE DEF p, w, top
    <3>2. a \in Int /\ a + w - 1 = p + w /\ \A k \in 1..w : a + k - 1 = p + k
      BY <2>5
    <3> HIDE DEF a
    <3>3. IsList(SubSeq(top, a, a + w - 1), w)
          /\ \A k \in 1..w : SubSeq(top, a, a + w - 1)[k] = top[a + k - 1]
      <4>1. IsCut(SubSeq(top, a, a + w - 1), top, a, w)
        BY <2>5, <3>2, ListCut
      <4> QED  BY <4>1 DEF IsCut
    <3> DEFINE cut == SubSeq(top, a, a + w - 1)
    <3> HIDE DEF cut
    <3>4. IsList(cut, w) /\ \A k \in 1..w : cut[k] = hidden[i][k]
      BY <3>1, <3>2, <3>3 DEF cut, Behind
    <3>5. cut = hidden[i]
      BY <2>5, <3>1, <3>4, ListEqual DEF Behind
    <3> QED  BY <3>2, <3>5 DEF cut, a
  <2>8. \A l \in model.sparse, k \in DOMAIN input[i] :
           {r.expert : r \in ToSet(routes[i][l][k])} = TopExperts(model.gate[input[i][k]])
    BY <2>1, <2>2, <2>5, <2>6 DEF StepOK, RoutesOK, Chose
  <2> QED  BY <2>5, <2>7, <2>8 DEF Sequence, Before, Offset
<1> QED  BY <1>1, DecoderInvariant, PTL

\* Between steps every cache is the one that reading its committed tokens at
\* once would leave: append_cache, the convolution history and the recurrent
\* state never keep anything of a failed step, of another row or of another
\* session, and reset leaves nothing.
THEOREM CachesAreTheReference == Spec => []CacheHoldsTheFed
<1>1. IInv => CacheHoldsTheFed
  BY DEF IInv, CachesOK, CacheHoldsTheFed
<1> QED  BY <1>1, DecoderInvariant, PTL

\* generate_greedy, with its cache and one token fed at a time, returns the
\* tokens of recomputing the whole sequence for every token.
THEOREM GenerationIsTheReference == Spec => []GreedyIsTheReference
<1>1. IInv => GreedyIsTheReference
  BY DEF IInv
<1> QED  BY <1>1, DecoderInvariant, PTL

================================================================================
