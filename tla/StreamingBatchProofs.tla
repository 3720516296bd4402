-------------------------- MODULE StreamingBatchProofs --------------------------
(***************************************************************************)
(* Proofs about StreamingBatch, for any sessions, layers, experts, routing *)
(* and order of arrival: what the caches hold between and during calls,    *)
(* and that rows that share a step get what each would get alone.          *)
(*                                                                         *)
(* The second part follows the layers: a row's hidden states and routes so *)
(* far are those it would have alone.  A routed layer keeps this because   *)
(*   - the union holds each row's positions from the row's start on, and   *)
(*     is cut there again;                                                 *)
(*   - going through the experts of the union in canonical order meets     *)
(*     those of a position in their canonical order.                       *)
(***************************************************************************)
EXTENDS StreamingBatch, TLAPS, FiniteSetTheorems, FunctionTheorems, SequenceTheorems, WellFoundedInduction

\* A cache whose layers below `reached' hold the first n + w tokens of session
\* r and the others the first n.
Advanced(r, n, w, reached) ==
    [position |-> n,
     layers   |-> [l \in 1..Layers |-> Tokens(r, IF l < reached THEN n + w ELSE n)]]

Caches == \A r \in Row : /\ cache[r].position \in Nat
                         /\ cache[r] = Advanced(r, cache[r].position, 0, 1)

Before(i) == cache[roster[i]].position

\* A hidden state of the n-th token of session r.
StateOf(h, r, n) == h = [token |-> <<r, n>>, sums |-> h.sums]

\* The running call: distinct rows, copies that have advanced through the
\* same layers, and hidden states of the tokens that follow each row's cache.
Working ==
    /\ layer \in 1..(Layers + 1)
    /\ roster \in Seq(Row)
    /\ \A i, j \in Indices : roster[i] = roster[j] => i = j
    /\ \A i \in Indices : width[i] \in Nat \ {0}
    /\ union # <<>> => layer \in SparseLayers
    /\ \E reached \in {layer, layer + 1} :
          /\ union # <<>> => reached = layer + 1
          /\ \A i \in Indices : work[i] = Advanced(roster[i], Before(i), width[i], reached)
    /\ \A i \in Indices : \A k \in 1..width[i] :
          StateOf(hidden[i][k], roster[i], Before(i) + k)

Inv == /\ Caches
       /\ IF Running THEN Working ELSE union = <<>>

\* The first n tokens of a session, in order.
LEMMA TokensType ==
    ASSUME NEW r, NEW n \in Nat
    PROVE  /\ Tokens(r, n) \in Seq({r} \X Nat) /\ Len(Tokens(r, n)) = n
           /\ \A k \in 1..n : Tokens(r, n)[k] = <<r, k>>
BY DEF Tokens

\* Two halves make a sequence.
LEMMA Joined ==
    ASSUME NEW S, NEW s \in Seq(S), NEW t \in Seq(S), NEW u \in Seq(S),
           Len(u) = Len(s) + Len(t),
           \A i \in 1..Len(s) : u[i] = s[i],
           \A i \in 1..Len(t) : u[Len(s) + i] = t[i]
    PROVE  s \o t = u
<1>1. s \o t \in Seq(S) /\ Len(s \o t) = Len(u)
      /\ \A i \in 1..Len(s) + Len(t) : (s \o t)[i] = IF i <= Len(s) THEN s[i] ELSE t[i - Len(s)]
  BY ConcatProperties
<1>2. ASSUME NEW i \in 1..Len(u) PROVE (s \o t)[i] = u[i]
  <2>0. Len(s) \in Nat /\ Len(t) \in Nat /\ i \in Nat
    OBVIOUS
  <2>1. CASE i <= Len(s)
    BY <1>1, <2>0, <2>1
  <2>2. CASE i > Len(s)
    <3>1. i - Len(s) \in 1..Len(t) /\ Len(s) + (i - Len(s)) = i
      BY <2>0, <2>2
    <3>2. u[i] = t[i - Len(s)]
      BY <3>1
    <3>3. QED  BY <1>1, <2>0, <2>2, <3>2
  <2>3. QED  BY <2>0, <2>1, <2>2
<1>3. QED  BY <1>1, <1>2, SeqEqual

\* The w tokens of session r that follow its first n.
Following(r, n, w, t) ==
    /\ t \in Seq({r} \X Nat) /\ Len(t) = w
    /\ \A k \in 1..w : t[k] = <<r, n + k>>

\* The next w tokens of a session behind its first n are its first n + w.
LEMMA TokensAppend ==
    ASSUME NEW r, NEW n \in Nat, NEW w \in Nat, NEW t, Following(r, n, w, t)
    PROVE  Tokens(r, n) \o t = Tokens(r, n + w)
<1> DEFINE S == {r} \X Nat
           s == Tokens(r, n)
           u == Tokens(r, n + w)
<1>1. t \in Seq(S) /\ Len(t) = w
  BY DEF Following
<1>2. s \in Seq(S) /\ Len(s) = n /\ \A k \in 1..n : s[k] = <<r, k>>
  BY TokensType
<1>3. u \in Seq(S) /\ Len(u) = n + w /\ \A k \in 1..(n + w) : u[k] = <<r, k>>
  <2>1. n + w \in Nat
    OBVIOUS
  <2>2. QED  BY <2>1, TokensType
<1>4. ASSUME NEW i \in 1..n PROVE u[i] = s[i]
  <2>1. i \in 1..(n + w)
    OBVIOUS
  <2>2. QED  BY <1>2, <1>3, <2>1
<1>5. ASSUME NEW i \in 1..w PROVE u[n + i] = t[i]
  <2>1. n + i \in 1..(n + w)
    OBVIOUS
  <2>2. u[n + i] = <<r, n + i>>
    BY <1>3, <2>1
  <2>3. QED  BY <2>2 DEF Following
<1> HIDE DEF S, s, u
<1>6. s \o t = u
  BY <1>1, <1>2, <1>3, <1>4, <1>5, Joined
<1>7. QED  BY <1>6 DEF s, u

\* A cache whose layer l takes in t.
Taking(old, l, t) == [old EXCEPT !.layers[l] = @ \o t]

\* One layer further.
LEMMA AdvancedNext ==
    ASSUME NEW r, NEW n \in Nat, NEW w \in Nat, NEW l \in 1..Layers, NEW t, Following(r, n, w, t)
    PROVE  Taking(Advanced(r, n, w, l), l, t) = Advanced(r, n, w, l + 1)
<1> DEFINE f == [m \in 1..Layers |-> Tokens(r, IF m < l THEN n + w ELSE n)]
           g == [m \in 1..Layers |-> Tokens(r, IF m < l + 1 THEN n + w ELSE n)]
<1>1. l \in Nat /\ Layers \in Nat
  BY GeometryAssumption
<1>2. /\ Advanced(r, n, w, l) = [position |-> n, layers |-> f]
      /\ Advanced(r, n, w, l + 1) = [position |-> n, layers |-> g]
  BY DEF Advanced
<1>3. f[l] = Tokens(r, n)
  BY <1>1
<1>4. f[l] \o t = Tokens(r, n + w)
  BY <1>3, TokensAppend
<1>5. [f EXCEPT ![l] = Tokens(r, n + w)] = g
  <2>1. \A m \in 1..Layers : m # l => (m < l <=> m < l + 1)
    BY <1>1
  <2>2. l < l + 1
    BY <1>1
  <2>3. QED  BY <2>1, <2>2
<1> HIDE DEF f, g
<1>6. Taking(Advanced(r, n, w, l), l, t) = [position |-> n, layers |-> [f EXCEPT ![l] = f[l] \o t]]
  <2> DEFINE old == [position |-> n, layers |-> f]
  <2>1. Taking(Advanced(r, n, w, l), l, t) = Taking(old, l, t)
    BY <1>2
  <2>2. old.layers = f /\ DOMAIN old = {"position", "layers"} /\ old.position = n
    OBVIOUS
  <2>3. \A x : [old EXCEPT !.layers = x] = [position |-> n, layers |-> x]
    OBVIOUS
  <2> HIDE DEF old
  <2>4. Taking(old, l, t) = [old EXCEPT !.layers = [old.layers EXCEPT ![l] = old.layers[l] \o t]]
    BY DEF Taking
  <2>5. QED  BY <2>1, <2>2, <2>3, <2>4
<1>7. Taking(Advanced(r, n, w, l), l, t) = [position |-> n, layers |-> g]
  BY <1>4, <1>5, <1>6
<1>8. QED  BY <1>2, <1>7

\* Attention takes every row's tokens into the layer, once.
LEMMA Attends ==
    ASSUME Caches, Working, Running, CanAttend, layer \in 1..Layers
    PROVE  \A i \in Indices : Attended(i) = Advanced(roster[i], Before(i), width[i], layer + 1)
<1>1. PICK reached \in {layer, layer + 1} :
        \A i \in Indices : work[i] = Advanced(roster[i], Before(i), width[i], reached)
  BY DEF Working
<1>2. \A i \in Indices : roster[i] \in Row /\ Before(i) \in Nat /\ width[i] \in Nat \ {0}
  BY DEF Working, Caches, Indices, Before
<1>3. reached = layer
  <2> SUFFICES ASSUME reached = layer + 1 PROVE FALSE
    BY <1>1
  <2>1. 1 \in Indices
    BY DEF Running, Indices, Working
  <2>2. layer \in Nat /\ layer < layer + 1 /\ Before(1) + width[1] \in Nat
    BY <1>2, <2>1, GeometryAssumption
  <2>3. work[1] = Advanced(roster[1], Before(1), width[1], layer + 1)
    BY <1>1, <2>1
  <2>4. work[1].layers[layer] = Tokens(roster[1], Before(1) + width[1]) /\ work[1].position = Before(1)
    BY <2>2, <2>3 DEF Advanced
  <2>5. Len(work[1].layers[layer]) = Before(1) + width[1]
    BY <2>2, <2>4, TokensType
  <2>6. QED  BY <1>2, <2>1, <2>4, <2>5 DEF CanAttend
<1>4. ASSUME NEW i \in Indices
      PROVE  Attended(i) = Advanced(roster[i], Before(i), width[i], layer + 1)
  <2> DEFINE t == [k \in 1..width[i] |-> hidden[i][k].token]
  <2>1. work[i] = Advanced(roster[i], Before(i), width[i], layer)
    BY <1>1, <1>3
  <2>2. ASSUME NEW k \in 1..width[i] PROVE hidden[i][k].token = <<roster[i], Before(i) + k>>
    <3>1. hidden[i][k] = [token |-> <<roster[i], Before(i) + k>>, sums |-> hidden[i][k].sums]
      BY DEF Working, StateOf
    <3>2. QED  BY <3>1
  <2>3. Following(roster[i], Before(i), width[i], t)
    <3>1. ASSUME NEW k \in 1..width[i] PROVE hidden[i][k].token \in {roster[i]} \X Nat
      <4>1. Before(i) + k \in Nat
        BY <1>2
      <4>2. <<roster[i], Before(i) + k>> \in {roster[i]} \X Nat
        BY <4>1
      <4>3. QED  BY <2>2, <4>2
    <3>2. t \in Seq({roster[i]} \X Nat) /\ Len(t) = width[i]
      BY <1>2, <3>1
    <3>3. QED  BY <2>2, <3>2 DEF Following
  <2>4. Attended(i) = Taking(work[i], layer, t)
    BY DEF Attended, Taking
  <2>5. Before(i) \in Nat /\ width[i] \in Nat
    BY <1>2
  <2> HIDE DEF t
  <2>6. Taking(work[i], layer, t) = Advanced(roster[i], Before(i), width[i], layer + 1)
    <3>1. Taking(Advanced(roster[i], Before(i), width[i], layer), layer, t)
            = Advanced(roster[i], Before(i), width[i], layer + 1)
      BY <2>3, <2>5, AdvancedNext
    <3>2. QED  BY <2>1, <3>1
  <2>7. QED  BY <2>4, <2>6
<1>5. QED  BY <1>4

\* Empty caches and no call are in the invariant.
LEMMA InvInit == Init => Inv
<1> SUFFICES ASSUME Init PROVE Inv
  OBVIOUS
<1>1. \A r \in Row : cache[r] = Advanced(r, 0, 0, 1)
  <2> SUFFICES ASSUME NEW r \in Row PROVE NewCache = Advanced(r, 0, 0, 1)
    BY DEF Init
  <2>1. Tokens(r, 0) = <<>>
    <3>1. Tokens(r, 0) \in Seq({r} \X Nat) /\ Len(Tokens(r, 0)) = 0
      BY TokensType
    <3>2. QED  BY <3>1
  <2>2. \A l \in 1..Layers : (IF l < 1 THEN 0 + 0 ELSE 0) = 0
    OBVIOUS
  <2>3. QED  BY <2>1, <2>2 DEF NewCache, Advanced
<1>2. \A r \in Row : cache[r].position = 0
  BY <1>1 DEF Advanced
<1>3. QED  BY <1>1, <1>2 DEF Init, NoCall, Inv, Caches, Running

\* A call starts with copies of its rows' caches and the tokens that follow them.
LEMMA StartInv ==
    ASSUME Inv, NEW rs \in Rosters, NEW ws \in [DOMAIN rs -> Widths], Start(rs, ws)
    PROVE  Inv'
<1>1. /\ roster' = rs /\ width' = ws /\ layer' = 1 /\ UNCHANGED <<cache, union>> /\ union = <<>>
      /\ work' = [i \in DOMAIN rs |-> cache[rs[i]]]
      /\ hidden' = [i \in DOMAIN rs |->
                      [k \in 1..ws[i] |-> Embedded(rs[i], cache[rs[i]].position + k)]]
  BY DEF Start, Inv
<1>2. PICK n \in 1..Cardinality(Row) : rs \in [1..n -> Row]
  BY DEF Rosters
<1>3. n \in Nat \ {0}
  OBVIOUS
<1>4. rs \in Seq(Row) /\ DOMAIN rs = 1..n /\ Len(rs) = n /\ rs # <<>>
  BY <1>2, <1>3
<1>5. \A i, j \in 1..n : rs[i] = rs[j] => i = j
  BY <1>4 DEF Rosters, IsInjective
<1>6. \A i \in 1..n : ws[i] \in Nat \ {0}
  BY <1>4, GeometryAssumption
<1>7. \A i \in 1..n : work'[i] = Advanced(rs[i], cache[rs[i]].position, ws[i], 1)
  <2> SUFFICES ASSUME NEW i \in 1..n
               PROVE  cache[rs[i]] = Advanced(rs[i], cache[rs[i]].position, ws[i], 1)
    BY <1>1, <1>4
  <2>1. cache[rs[i]] = Advanced(rs[i], cache[rs[i]].position, 0, 1)
    BY <1>2 DEF Inv, Caches
  <2>2. \A l \in 1..Layers : ~(l < 1)
    BY GeometryAssumption
  <2>3. Advanced(rs[i], cache[rs[i]].position, ws[i], 1)
          = Advanced(rs[i], cache[rs[i]].position, 0, 1)
    BY <2>2 DEF Advanced
  <2>4. QED  BY <2>1, <2>3
<1>8. \A i \in 1..n : \A k \in 1..ws[i] :
        StateOf(hidden'[i][k], rs[i], cache[rs[i]].position + k)
  BY <1>1, <1>4 DEF Embedded, StateOf
<1>9. Working'
  <2>1. Indices' = 1..n
    BY <1>1, <1>4 DEF Indices
  <2>2. layer' \in 1..(Layers + 1)
    BY <1>1, GeometryAssumption
  <2>3. \A i \in Indices' : work'[i] = Advanced(roster'[i], Before(i)', width'[i], layer')
    BY <1>1, <1>7, <2>1 DEF Before
  <2>4. \A i \in Indices' : \A k \in 1..width'[i] :
          StateOf(hidden'[i][k], roster'[i], Before(i)' + k)
    BY <1>1, <1>8, <2>1 DEF Before
  <2>5. QED  BY <1>1, <1>4, <1>5, <1>6, <2>1, <2>2, <2>3, <2>4 DEF Working
<1>10. QED  BY <1>1, <1>4, <1>9 DEF Inv, Running, Caches

\* Steps of a call that leave its rows and the callers' caches alone.
LEMMA RowsStay ==
    ASSUME UNCHANGED <<cache, roster, width>>
    PROVE  /\ Running' <=> Running
           /\ Indices' = Indices
           /\ Caches' <=> Caches
           /\ \A i : Before(i)' = Before(i)
BY DEF Running, Indices, Caches, Before

\* The end of a layer of either kind.
LEMMA LayerInv ==
    ASSUME Inv, Running, UNCHANGED <<cache, roster, width>>, layer \in 1..Layers,
           layer' = layer + 1, union' = <<>>,
           \A i \in Indices : work'[i] = Advanced(roster[i], Before(i), width[i], layer + 1),
           \A i \in Indices : \A k \in 1..width[i] :
              hidden'[i][k] = [hidden[i][k] EXCEPT !.sums = hidden'[i][k].sums]
    PROVE  Inv'
<1>1. Working /\ Caches /\ layer \in Nat /\ Layers \in Nat
  BY GeometryAssumption DEF Inv
<1>2. ASSUME NEW i \in Indices, NEW k \in 1..width[i]
      PROVE  StateOf(hidden'[i][k], roster[i], Before(i) + k)
  <2>1. hidden[i][k] = [token |-> <<roster[i], Before(i) + k>>, sums |-> hidden[i][k].sums]
    BY <1>1 DEF Working, StateOf
  <2>2. hidden'[i][k] = [hidden[i][k] EXCEPT !.sums = hidden'[i][k].sums]
    OBVIOUS
  <2>3. QED  BY <2>1, <2>2 DEF StateOf
<1>3. \A i \in Indices' : work'[i] = Advanced(roster'[i], Before(i)', width'[i], layer')
  BY RowsStay
<1>4. layer' \in 1..(Layers + 1)
  BY <1>1
<1>5. \A i \in Indices' : \A k \in 1..width'[i] :
        StateOf(hidden'[i][k], roster'[i], Before(i)' + k)
  BY <1>2, RowsStay
<1>6. Working'
  BY <1>1, <1>3, <1>4, <1>5, RowsStay DEF Working
<1>7. QED  BY <1>1, <1>6, RowsStay DEF Inv

\* A dense layer appends the step's tokens to its copies.
LEMMA DenseInv == ASSUME Inv, DenseLayer PROVE Inv'
<1>1. /\ UNCHANGED <<cache, roster, width, union>> /\ Running /\ CanAttend /\ layer \in 1..Layers
      /\ layer' = layer + 1 /\ layer \notin SparseLayers
      /\ work' = [i \in Indices |-> Attended(i)]
      /\ hidden' = [i \in Indices |-> [k \in 1..width[i] |->
                      [hidden[i][k] EXCEPT !.sums =
                          Append(@, [of |-> hidden[i][k].token, experts |-> <<>>])]]]
  BY DEF DenseLayer
<1>2. Working /\ Caches /\ union' = <<>>
  BY <1>1 DEF Inv, Working
<1>3. \A i \in Indices : work'[i] = Advanced(roster[i], Before(i), width[i], layer + 1)
  BY <1>1, <1>2, Attends
<1>4. ASSUME NEW i \in Indices, NEW k \in 1..width[i]
      PROVE  hidden'[i][k] = [hidden[i][k] EXCEPT !.sums = hidden'[i][k].sums]
  <2>1. hidden[i][k] = [token |-> <<roster[i], Before(i) + k>>, sums |-> hidden[i][k].sums]
    BY <1>2 DEF Working, StateOf
  <2>2. QED  BY <1>1, <2>1
<1>5. QED  BY <1>1, <1>2, <1>3, <1>4, LayerInv

\* So does a routed layer when its experts have been summed.
LEMMA ReduceInv == ASSUME Inv, ReduceLayer PROVE Inv'
<1>1. /\ UNCHANGED <<cache, roster, width, work>> /\ union # <<>> /\ union' = <<>>
      /\ layer' = layer + 1
      /\ hidden' = [i \in Indices |-> [k \in 1..width[i] |->
                      [hidden[i][k] EXCEPT !.sums = Append(@, Reduced(RowStart(i) + k))]]]
  BY DEF ReduceLayer
<1>2. Running /\ Working /\ Caches
  BY <1>1 DEF Inv
<1>3. /\ layer \in 1..Layers
      /\ \A i \in Indices : work'[i] = Advanced(roster[i], Before(i), width[i], layer + 1)
  BY <1>1, <1>2, GeometryAssumption DEF Working
<1>4. ASSUME NEW i \in Indices, NEW k \in 1..width[i]
      PROVE  hidden'[i][k] = [hidden[i][k] EXCEPT !.sums = hidden'[i][k].sums]
  <2>1. hidden[i][k] = [token |-> <<roster[i], Before(i) + k>>, sums |-> hidden[i][k].sums]
    BY <1>2 DEF Working, StateOf
  <2>2. QED  BY <1>1, <2>1
<1>5. QED  BY <1>1, <1>2, <1>3, <1>4, LayerInv

\* Routing writes no cache.
LEMMA RouteInv == ASSUME Inv, RouteLayer PROVE Inv'
<1>1. /\ UNCHANGED <<cache, roster, width, hidden, layer>> /\ Running /\ CanAttend
      /\ layer \in SparseLayers /\ work' = [i \in Indices |-> Attended(i)]
  BY DEF RouteLayer
<1>2. Working /\ Caches /\ layer \in 1..Layers
  BY <1>1, GeometryAssumption DEF Inv
<1>3. \A i \in Indices : work'[i] = Advanced(roster[i], Before(i), width[i], layer + 1)
  BY <1>1, <1>2, Attends
<1>4. \A i \in Indices' : work'[i] = Advanced(roster'[i], Before(i)', width'[i], layer' + 1)
  BY <1>1, <1>3, RowsStay
<1>5. \A i \in Indices' : \A k \in 1..width'[i] :
        StateOf(hidden'[i][k], roster'[i], Before(i)' + k)
  BY <1>1, <1>2, RowsStay DEF Working
<1>6. Working'
  BY <1>1, <1>2, <1>4, <1>5, RowsStay DEF Working
<1>7. QED  BY <1>1, <1>2, <1>6, RowsStay DEF Inv

\* A call commits all its rows, or none.
LEMMA FinishInv == ASSUME Inv, Finish PROVE Inv'
<1>1. /\ Working /\ Caches /\ layer = Layers + 1
      /\ roster' = <<>> /\ union' = <<>>
      /\ cache' = [r \in Row |-> IF \E i \in Indices : roster[i] = r
                                 THEN Committed(CHOOSE i \in Indices : roster[i] = r)
                                 ELSE cache[r]]
  BY DEF Finish, Returning, CallEnds, Inv
<1>2. PICK reached \in {layer, layer + 1} :
        \A i \in Indices : work[i] = Advanced(roster[i], Before(i), width[i], reached)
  BY <1>1 DEF Working
<1>3. \A l \in 1..Layers : l < reached
  BY <1>1, GeometryAssumption
<1>4. ASSUME NEW i \in Indices
      PROVE  /\ Committed(i).position \in Nat
             /\ Committed(i) = Advanced(roster[i], Committed(i).position, 0, 1)
  <2> DEFINE n == Before(i)
             w == width[i]
  <2>1. n \in Nat /\ w \in Nat
    BY <1>1 DEF Working, Caches, Indices, Before
  <2>2. work[i] = [position |-> n, layers |-> [l \in 1..Layers |-> Tokens(roster[i], n + w)]]
    BY <1>2, <1>3 DEF Advanced
  <2>3. Committed(i) = [position |-> n + w, layers |-> [l \in 1..Layers |-> Tokens(roster[i], n + w)]]
    <3> DEFINE full == [l \in 1..Layers |-> Tokens(roster[i], n + w)]
    <3>1. work[i] = [position |-> n, layers |-> full]
      BY <2>2
    <3>2. Committed(i) = [work[i] EXCEPT !.position = work[i].position + w]
      BY DEF Committed
    <3> HIDE DEF n, w, full
    <3>3. Committed(i) = [position |-> n + w, layers |-> full]
      BY <3>1, <3>2
    <3>4. QED  BY <3>3 DEF full
  <2>4. \A l \in 1..Layers : ~(l < 1) /\ (n + w) + 0 = n + w
    BY <2>1, GeometryAssumption
  <2>5. Advanced(roster[i], n + w, 0, 1)
          = [position |-> n + w, layers |-> [l \in 1..Layers |-> Tokens(roster[i], n + w)]]
    BY <2>4 DEF Advanced
  <2>6. Committed(i).position = n + w
    BY <2>3
  <2>7. QED  BY <2>1, <2>3, <2>5, <2>6
<1>5. ASSUME NEW r \in Row
      PROVE  cache'[r].position \in Nat /\ cache'[r] = Advanced(r, cache'[r].position, 0, 1)
  <2>1. CASE \E i \in Indices : roster[i] = r
    <3>1. PICK i \in Indices : roster[i] = r /\ cache'[r] = Committed(i)
      BY <1>1, <2>1
    <3>2. QED  BY <1>4, <3>1
  <2>2. CASE ~\E i \in Indices : roster[i] = r
    BY <1>1, <2>2 DEF Caches
  <2>3. QED  BY <2>1, <2>2
<1>6. QED  BY <1>1, <1>5 DEF Inv, Caches, Running

\* The invariant of a batch is inductive.
LEMMA InvNext == Inv /\ [Next]_vars => Inv'
<1> SUFFICES ASSUME Inv, [Next]_vars PROVE Inv'
  OBVIOUS
<1>1. ASSUME NEW rs \in Rosters, NEW ws \in [DOMAIN rs -> Widths], Start(rs, ws) PROVE Inv'
  BY <1>1, StartInv
<1>2. CASE FireToken \/ (\E e \in Expert : GroupReady(e)) \/ UNCHANGED vars
  <2>1. UNCHANGED <<cache, roster, width, work, hidden, layer, union>>
    BY <1>2 DEF FireToken, GroupReady, vars, call
  <2>2. QED  BY <2>1, RowsStay DEF Inv, Working
<1>3. CASE DenseLayer
  BY <1>3, DenseInv
<1>4. CASE RouteLayer
  BY <1>4, RouteInv
<1>5. CASE ReduceLayer
  BY <1>5, ReduceInv
<1>6. CASE Finish
  BY <1>6, FinishInv
<1>7. CASE CallFails
  BY <1>7 DEF CallFails, CallEnds, Inv, Running, Caches
<1>8. QED  BY <1>1, <1>2, <1>3, <1>4, <1>5, <1>6, <1>7 DEF Next

\* The inductive invariant of a batch: all rows' copies have advanced through the
\* same layers, over the tokens that follow each row's cache.
THEOREM InvariantCorrect == Spec => []Inv
BY InvInit, InvNext, PTL DEF Spec

\* Whatever calls succeed, fail, are cancelled or dropped, for any roster,
\* routing and order of arrival: every layer of every session's cache holds
\* exactly the tokens its position counts.
THEOREM CachesAgree == Spec => []CachesCoherent
<1>1. Inv => CachesCoherent
  <2> SUFFICES ASSUME Inv, NEW r \in Row, NEW l \in 1..Layers
               PROVE  cache[r].layers[l] = Tokens(r, cache[r].position)
    BY DEF CachesCoherent
  <2>1. PICK n \in Nat : n = cache[r].position /\ cache[r] = Advanced(r, n, 0, 1)
    BY DEF Inv, Caches
  <2>2. ~(l < 1)
    BY GeometryAssumption
  <2>3. cache[r].layers[l] = Tokens(r, n)
    BY <2>1, <2>2 DEF Advanced
  <2>4. QED  BY <2>1, <2>3
<1>2. QED  BY <1>1, InvariantCorrect, PTL

\* A finished call moves each of its rows by the row's own width.
LEMMA RowsMove ==
    ASSUME Inv, Finish
    PROVE  /\ \A i \in Indices :
                cache'[roster[i]].position = cache[roster[i]].position + width[i]
           /\ \A r \in Row : (\A i \in Indices : roster[i] # r) => cache'[r] = cache[r]
<1>1. /\ Working
      /\ cache' = [r \in Row |-> IF \E i \in Indices : roster[i] = r
                                 THEN Committed(CHOOSE i \in Indices : roster[i] = r)
                                 ELSE cache[r]]
  BY DEF Finish, Returning, Inv
<1>2. PICK reached :
        \A i \in Indices : work[i] = Advanced(roster[i], Before(i), width[i], reached)
  BY <1>1 DEF Working
<1>3. ASSUME NEW i \in Indices
      PROVE  cache'[roster[i]].position = cache[roster[i]].position + width[i]
  <2>1. roster[i] \in Row
    BY <1>1 DEF Working, Indices
  <2>2. (CHOOSE j \in Indices : roster[j] = roster[i]) = i
    BY <1>1 DEF Working
  <2>3. cache'[roster[i]] = Committed(i)
    BY <1>1, <2>1, <2>2
  <2>4. work[i].position = Before(i) /\ "position" \in DOMAIN work[i]
    <3>1. PICK x : work[i] = [position |-> Before(i), layers |-> x]
      BY <1>2 DEF Advanced
    <3>2. QED  BY <3>1
  <2>5. Committed(i).position = work[i].position + width[i]
    BY <2>4 DEF Committed
  <2>6. QED  BY <2>3, <2>4, <2>5 DEF Before
<1>4. QED  BY <1>1, <1>3

\* A call replaces the caches of all of its rows, each moved by its own tokens,
\* or of none: no error, cancellation or dropped future leaves a part of it.
THEOREM StepsAreWhole == Spec => AllRowsOrNone
<1>1. Inv /\ [Next]_vars =>
        [cache' # cache =>
           /\ Returning /\ ~cancelled
           /\ \A i \in Indices :
                cache'[roster[i]].position = cache[roster[i]].position + width[i]
           /\ \A r \in Row : (\A i \in Indices : roster[i] # r) => cache'[r] = cache[r]]_vars
  <2> SUFFICES ASSUME Inv, [Next]_vars, cache' # cache
               PROVE  /\ Returning /\ ~cancelled
                      /\ \A i \in Indices :
                           cache'[roster[i]].position = cache[roster[i]].position + width[i]
                      /\ \A r \in Row :
                           (\A i \in Indices : roster[i] # r) => cache'[r] = cache[r]
    OBVIOUS
  <2>1. CASE Finish
    <3>1. Returning /\ ~cancelled
      BY <2>1 DEF Finish
    <3>2. QED  BY <2>1, <3>1, RowsMove
  <2>2. CASE ~Finish
    <3>1. UNCHANGED cache
      BY <2>2 DEF Next, Start, FireToken, DenseLayer, RouteLayer, GroupReady, ReduceLayer,
         CallFails, vars, call
    <3>2. QED  BY <3>1
  <2>3. QED  BY <2>1, <2>2
<1>2. QED  BY <1>1, InvariantCorrect, PTL DEF Spec, AllRowsOrNone

(***************************************************************************)
(* Induction.                                                              *)
(***************************************************************************)

\* A set of natural numbers that is not empty has a least one.
LEMMA Least ==
    ASSUME NEW T, T \subseteq Nat, T # {}
    PROVE  \E m \in T : \A k \in T : m <= k
<1>1. IsWellFoundedOn(OpToRel(<, Nat), Nat)
  BY NatLessThanWellFounded
<1>2. \A k, m \in Nat : k < m => <<k, m>> \in OpToRel(<, Nat)
  BY DEF OpToRel
<1>3. \E m \in T : \A k \in T : ~ (<<k, m>> \in OpToRel(<, Nat))
  BY <1>1, WFMin, Zenon
<1>4. PICK m \in T : \A k \in T : ~ (<<k, m>> \in OpToRel(<, Nat))
  BY <1>3, Zenon
<1>5. m \in Nat /\ \A k \in T : k \in Nat
  OBVIOUS
<1>6. \A k \in T : ~ (k < m)
  BY <1>2, <1>4, <1>5, Zenon
<1> QED  BY <1>5, <1>6

\* Induction up to N, for a set: the numbers with the property to be shown.
LEMMA UpTo ==
    ASSUME NEW N \in Nat, NEW T, 0 \in T, \A n \in 1..N : n - 1 \in T => n \in T
    PROVE  \A n \in 0..N : n \in T
<1> DEFINE Rest == (0..N) \ T
<1>1. SUFFICES ASSUME Rest # {} PROVE FALSE
  OBVIOUS
<1>2. PICK m \in Rest : \A k \in Rest : m <= k
  <2>1. Rest \subseteq Nat
    OBVIOUS
  <2> HIDE DEF Rest
  <2> QED  BY <1>1, <2>1, Least
<1>3. m \in 0..N /\ m \notin T /\ m # 0
  BY <1>2
<1>4. m \in 1..N /\ m - 1 \in 0..N /\ m - 1 \notin Rest
  BY <1>2, <1>3
<1> QED  BY <1>3, <1>4


(***************************************************************************)
(* Lists: functions on 1..n, whatever their values.                        *)
(***************************************************************************)

IsList(f, n) == f = [k \in 1..n |-> f[k]]

\* A list is a sequence of its values.
LEMMA ListSeq ==
    ASSUME NEW n \in Nat, NEW f, IsList(f, n)
    PROVE  /\ f \in Seq({f[k] : k \in 1..n})
           /\ Len(f) = n /\ DOMAIN f = 1..n
<1> DEFINE S == {f[k] : k \in 1..n}
<1>1. f \in [1..n -> S] /\ DOMAIN f = 1..n
  BY DEF IsList
<1>2. f \in Seq(S)
  BY <1>1, SeqDef
<1>3. Len(f) \in Nat /\ DOMAIN f = 1..Len(f)
  BY <1>2, LenProperties
<1>4. Len(f) = n
  BY <1>1, <1>3
<1> QED  BY <1>1, <1>2, <1>4

\* A sequence is a list.
LEMMA SeqList ==
    ASSUME NEW S, NEW f \in Seq(S)
    PROVE  Len(f) \in Nat /\ IsList(f, Len(f)) /\ \A k \in 1..Len(f) : f[k] \in S
BY LenProperties, ElementOfSeq DEF IsList

\* Lists are equal when their members are.
LEMMA ListEqual ==
    ASSUME NEW n \in Nat, NEW f, NEW g, IsList(f, n), IsList(g, n),
           \A k \in 1..n : f[k] = g[k]
    PROVE  f = g
BY DEF IsList

\* List f of length m, then list g of length n.
Concatenates(f, m, g, n) ==
    /\ IsList(f \o g, m + n) /\ Len(f \o g) = m + n
    /\ \A k \in 1..m : (f \o g)[k] = f[k]
    /\ \A k \in 1..n : (f \o g)[m + k] = g[k]

\* A list of m and one of n members make one of m + n, the second behind the first.
LEMMA ListConcat ==
    ASSUME NEW m \in Nat, NEW n \in Nat, NEW f, NEW g, IsList(f, m), IsList(g, n)
    PROVE  Concatenates(f, m, g, n)
<1> DEFINE S == {f[k] : k \in 1..m} \cup {g[k] : k \in 1..n}
<1>1. Len(f) = m /\ Len(g) = n /\ f \in Seq(S) /\ g \in Seq(S)
  <2>1. /\ f \in Seq({f[k] : k \in 1..m}) /\ Len(f) = m
        /\ g \in Seq({g[k] : k \in 1..n}) /\ Len(g) = n
    BY ListSeq, Zenon
  <2>2. {f[k] : k \in 1..m} \subseteq S /\ {g[k] : k \in 1..n} \subseteq S
    OBVIOUS
  <2> HIDE DEF S
  <2>3. f \in Seq(S)
    BY <2>1, <2>2, SeqMonotonic
  <2>4. g \in Seq(S)
    BY <2>1, <2>2, SeqMonotonic
  <2> QED  BY <2>1, <2>3, <2>4
<1> HIDE DEF S
<1>2. /\ f \o g \in Seq(S) /\ Len(f \o g) = m + n
      /\ \A i \in 1..(m + n) : (f \o g)[i] = IF i <= m THEN f[i] ELSE g[i - m]
  BY <1>1, ConcatProperties
<1>3. IsList(f \o g, m + n)
  BY <1>2, SeqList
<1>4. ASSUME NEW k \in 1..m PROVE (f \o g)[k] = f[k]
  BY <1>2
<1>5. ASSUME NEW k \in 1..n PROVE (f \o g)[m + k] = g[k]
  <2>1. m + k \in 1..(m + n) /\ ~(m + k <= m) /\ (m + k) - m = k
    OBVIOUS
  <2> QED  BY <1>2, <2>1
<1> QED  BY <1>2, <1>3, <1>4, <1>5 DEF Concatenates

Appends(f, n, x) ==
    /\ IsList(Append(f, x), n + 1)
    /\ \A k \in 1..n : Append(f, x)[k] = f[k]
    /\ Append(f, x)[n + 1] = x

\* A list grows by one member at its end.
LEMMA ListAppend ==
    ASSUME NEW n \in Nat, NEW f, NEW x, IsList(f, n)
    PROVE  Appends(f, n, x)
<1> DEFINE S == {f[k] : k \in 1..n} \cup {x}
<1>1. Len(f) = n /\ f \in Seq(S) /\ x \in S
  <2>1. f \in Seq({f[k] : k \in 1..n}) /\ Len(f) = n
    BY ListSeq, Zenon
  <2>2. {f[k] : k \in 1..n} \subseteq S /\ x \in S
    OBVIOUS
  <2> QED  BY <2>1, <2>2, SeqMonotonic, Zenon
<1> HIDE DEF S
<1>2. Append(f, x) \in Seq(S) /\ Len(Append(f, x)) = n + 1
  BY <1>1
<1>3. IsList(Append(f, x), n + 1)
  BY <1>2, SeqList
<1>4. \A k \in 1..n : Append(f, x)[k] = f[k]
  BY <1>1
<1>5. Append(f, x)[n + 1] = x
  BY <1>1
<1> QED  BY <1>3, <1>4, <1>5 DEF Appends

\* The members from place a on, len of them.
IsCut(part, f, a, len) ==
    IsList(part, len) /\ Len(part) = len /\ \A k \in 1..len : part[k] = f[a + k - 1]

\* SubSeq cuts a list, whatever the values in it.
LEMMA ListCut ==
    ASSUME NEW f, NEW a \in Int, NEW len \in Nat
    PROVE  IsCut(SubSeq(f, a, a + len - 1), f, a, len)
<1> DEFINE S == {f[k] : k \in a..(a + len - 1)}
           part == SubSeq(f, a, a + len - 1)
<1>1. a + len - 1 \in Int /\ \A i \in a..(a + len - 1) : f[i] \in S
  OBVIOUS
<1> HIDE DEF S
<1>2. /\ part \in Seq(S)
      /\ Len(part) = IF a <= a + len - 1 THEN (a + len - 1) - a + 1 ELSE 0
      /\ \A i \in 1..((a + len - 1) - a + 1) : part[i] = f[a + i - 1]
  BY <1>1, SubSeqProperties
<1>3. (a + len - 1) - a + 1 = len /\ (~ (a <= a + len - 1) => len = 0)
  OBVIOUS
<1>4. Len(part) = len
  BY <1>2, <1>3
<1>5. IsList(part, len)
  BY <1>2, <1>4, SeqList
<1> QED  BY <1>2, <1>3, <1>4, <1>5 DEF IsCut

(***************************************************************************)
(* FlattenSeq.                                                             *)
(***************************************************************************)

Lists(seqs, n) ==
    /\ n \in Nat /\ IsList(seqs, n)
    /\ \A i \in 1..n : Len(seqs[i]) \in Nat /\ IsList(seqs[i], Len(seqs[i]))

\* f[i] is the concatenation of the first i lists.
Joins(f, seqs, n) == f[0] = <<>> /\ \A i \in 1..n : f[i] = f[i - 1] \o seqs[i]

\* The recursion by which FlattenSeq joins n lists has a solution.
LEMMA JoinExists ==
    ASSUME NEW n, NEW seqs, Lists(seqs, n)
    PROVE  \E f : Joins(f, seqs, n)
<1> DEFINE T == {k \in 0..n : \E f : Joins(f, seqs, k)}
<1>1. n \in Nat
  BY DEF Lists
<1>2. 0 \in T
  <2>1. Joins([i \in 0..n |-> <<>>], seqs, 0)
    BY <1>1 DEF Joins
  <2> QED  BY <1>1, <2>1
<1>3. ASSUME NEW k \in 1..n, k - 1 \in T PROVE k \in T
  <2>1. PICK f : Joins(f, seqs, k - 1)
    BY <1>3
  <2> DEFINE g == [i \in 0..n |-> IF i < k THEN f[i] ELSE f[k - 1] \o seqs[k]]
  <2>2. g[0] = <<>>
    BY <1>1, <2>1 DEF Joins
  <2>3. ASSUME NEW i \in 1..k PROVE g[i] = g[i - 1] \o seqs[i]
    <3>1. i \in Nat /\ i - 1 \in 0..n /\ i \in 0..n /\ k \in Nat /\ i - 1 < k /\ i <= k
      BY <1>1
    <3>2. CASE i < k
      <4>1. i \in 1..(k - 1)
        BY <3>1, <3>2
      <4>2. f[i] = f[i - 1] \o seqs[i]
        BY <2>1, <4>1 DEF Joins
      <4> QED  BY <3>1, <3>2, <4>2
    <3>3. CASE ~(i < k)
      <4>1. i = k /\ g[i - 1] = f[k - 1]
        BY <3>1, <3>3
      <4>2. g[i] = f[k - 1] \o seqs[k]
        BY <3>1, <3>3
      <4> QED  BY <4>1, <4>2
    <3> QED  BY <3>2, <3>3
  <2>4. Joins(g, seqs, k)
    BY <2>2, <2>3 DEF Joins
  <2> QED  BY <1>1, <2>4
<1> HIDE DEF T
<1>4. \A k \in 0..n : k \in T
  BY <1>1, <1>2, <1>3, UpTo
<1>5. n \in T
  BY <1>1, <1>4
<1> QED  BY <1>5 DEF T

\* Every stage of the join is a list.
LEMMA JoinIsList ==
    ASSUME NEW n, NEW seqs, Lists(seqs, n), NEW f, Joins(f, seqs, n)
    PROVE  \A i \in 0..n : Len(f[i]) \in Nat /\ IsList(f[i], Len(f[i]))
<1> DEFINE T == {i \in 0..n : Len(f[i]) \in Nat /\ IsList(f[i], Len(f[i]))}
<1>1. n \in Nat
  BY DEF Lists
<1>2. 0 \in T
  BY <1>1 DEF Joins, IsList
<1>3. ASSUME NEW i \in 1..n, i - 1 \in T PROVE i \in T
  <2> DEFINE a == f[i - 1]  b == seqs[i]
  <2>1. f[i] = a \o b
    BY DEF Joins
  <2>2. Len(b) \in Nat /\ IsList(b, Len(b))
    BY DEF Lists
  <2>3. Len(a) \in Nat /\ IsList(a, Len(a))
    BY <1>3
  <2> HIDE DEF a, b
  <2>4. IsList(a \o b, Len(a) + Len(b)) /\ Len(a \o b) = Len(a) + Len(b)
    <3>1. Concatenates(a, Len(a), b, Len(b))
      BY <2>2, <2>3, ListConcat
    <3> QED  BY <3>1 DEF Concatenates
  <2>5. Len(a \o b) \in Nat /\ IsList(a \o b, Len(a \o b))
    BY <2>2, <2>3, <2>4
  <2>6. Len(f[i]) \in Nat /\ IsList(f[i], Len(f[i])) /\ i \in 0..n
    BY <1>1, <2>1, <2>5
  <2> QED  BY <2>6
<1> HIDE DEF T
<1>4. \A i \in 0..n : i \in T
  BY <1>1, <1>2, <1>3, UpTo
<1> QED  BY <1>4 DEF T

IsJoin(c, a, b) ==
    /\ Len(a) \in Nat /\ Len(b) \in Nat /\ Len(c) = Len(a) + Len(b)
    /\ \A k \in 1..Len(a) : c[k] = a[k]
    /\ \A k \in 1..Len(b) : c[Len(a) + k] = b[k]

\* A stage of the join is the stage before with one more list behind it.
LEMMA JoinStep ==
    ASSUME NEW n, NEW seqs, Lists(seqs, n), NEW f, Joins(f, seqs, n), NEW i \in 1..n
    PROVE  IsJoin(f[i], f[i - 1], seqs[i])
<1> DEFINE a == f[i - 1]  b == seqs[i]
<1>1. n \in Nat /\ i - 1 \in 0..n
  BY DEF Lists
<1>2. Len(a) \in Nat /\ IsList(a, Len(a))
  BY <1>1, JoinIsList
<1>3. Len(b) \in Nat /\ IsList(b, Len(b))
  BY DEF Lists
<1>4. f[i] = a \o b
  BY DEF Joins
<1> HIDE DEF a, b
<1>5. /\ Len(a \o b) = Len(a) + Len(b)
      /\ \A k \in 1..Len(a) : (a \o b)[k] = a[k]
      /\ \A k \in 1..Len(b) : (a \o b)[Len(a) + k] = b[k]
  <2>1. Concatenates(a, Len(a), b, Len(b))
    BY <1>2, <1>3, ListConcat
  <2> QED  BY <2>1 DEF Concatenates
<1> QED  BY <1>2, <1>3, <1>4, <1>5 DEF a, b, IsJoin

\* FlattenSeq of the first m lists.
LEMMA FlattenJoins ==
    ASSUME NEW n, NEW seqs, Lists(seqs, n), NEW f, Joins(f, seqs, n), NEW m \in 0..n
    PROVE  FlattenSeq(SubSeq(seqs, 1, m)) = f[m]
<1> DEFINE part == SubSeq(seqs, 1, m)
<1>1. n \in Nat /\ m \in Nat
  BY DEF Lists
<1>2. IsList(part, m) /\ Len(part) = m /\ \A k \in 1..m : part[k] = seqs[k]
  <2>1. 1 + m - 1 = m /\ \A k \in 1..m : 1 + k - 1 = k
    BY <1>1
  <2>2. /\ IsList(SubSeq(seqs, 1, 1 + m - 1), m) /\ Len(SubSeq(seqs, 1, 1 + m - 1)) = m
        /\ \A k \in 1..m : SubSeq(seqs, 1, 1 + m - 1)[k] = seqs[1 + k - 1]
    <3>1. 1 \in Int
      OBVIOUS
    <3>2. IsCut(SubSeq(seqs, 1, 1 + m - 1), seqs, 1, m)
      BY <1>1, <3>1, ListCut
    <3> QED  BY <3>2 DEF IsCut
  <2> QED  BY <2>1, <2>2
<1>3. CASE m = 0
  <2>1. part = <<>>
    BY <1>3, SubSeqEmpty
  <2>2. FlattenSeq(part) = <<>>
    BY <2>1 DEF FlattenSeq
  <2> QED  BY <1>3, <2>2 DEF Joins
<1>4. CASE m # 0
  <2> DEFINE Unfolds(g) == g = [k \in 1..Len(part) |-> IF k = 1 THEN part[k] ELSE g[k - 1] \o part[k]]
  <2>1. FlattenSeq(part) = (CHOOSE g : Unfolds(g))[m]
    BY <1>2, <1>4 DEF FlattenSeq
  <2>2. Unfolds([k \in 1..m |-> f[k]])
    <3>1. ASSUME NEW k \in 1..m, k # 1 PROVE f[k] = [j \in 1..m |-> f[j]][k - 1] \o part[k]
      <4>1. k - 1 \in 1..m /\ k \in 1..n
        BY <1>1, <3>1
      <4>2. f[k] = f[k - 1] \o seqs[k]
        BY <4>1 DEF Joins
      <4> QED  BY <1>2, <4>1, <4>2
    <3>2. f[1] = part[1]
      <4>1. 1 \in 1..n /\ 1 \in 1..m /\ 1 - 1 = 0
        BY <1>1, <1>4
      <4>2. Len(seqs[1]) \in Nat /\ IsList(seqs[1], Len(seqs[1]))
        BY <4>1 DEF Lists
      <4>3. f[1] = <<>> \o seqs[1]
        BY <4>1 DEF Joins
      <4>4. f[1] = seqs[1]
        BY <4>2, <4>3, ListSeq
      <4> QED  BY <1>2, <4>1, <4>4
    <3> QED  BY <1>2, <3>1, <3>2
  <2> DEFINE g == CHOOSE h : Unfolds(h)
  <2>3. Unfolds(g)
    BY <2>2, Zenon
  <2> HIDE DEF g
  <2> DEFINE T == {k \in 0..m : k = 0 \/ g[k] = f[k]}
  <2>4. 0 \in T
    BY <1>1
  <2>5. ASSUME NEW k \in 1..m, k - 1 \in T PROVE k \in T
    <3>1. k \in 1..n /\ k \in 0..m
      BY <1>1
    <3>2. g[k] = IF k = 1 THEN part[k] ELSE g[k - 1] \o part[k]
      BY <1>2, <2>3
    <3>3. f[k] = f[k - 1] \o part[k]
      BY <1>2, <3>1 DEF Joins
    <3>4. CASE k = 1
      <4>1. [j \in 1..m |-> f[j]][1] = part[1]
        BY <1>2, <2>2, <3>4
      <4> QED  BY <3>1, <3>2, <3>4, <4>1
    <3>5. CASE k # 1
      <4>1. k - 1 # 0 /\ g[k - 1] = f[k - 1]
        BY <2>5, <3>5
      <4> QED  BY <3>1, <3>2, <3>3, <3>5, <4>1
    <3> QED  BY <3>4, <3>5
  <2> HIDE DEF T
  <2>6. \A k \in 0..m : k \in T
    BY <1>1, <2>4, <2>5, UpTo
  <2>7. m \in T
    BY <1>1, <2>6
  <2> QED  BY <1>4, <2>1, <2>7 DEF T, g
<1> QED  BY <1>3, <1>4

\* List b is the part of c behind its first start members.
Holds(c, start, b) ==
    /\ start \in Nat /\ Len(b) \in Nat /\ Len(c) \in Nat /\ start + Len(b) <= Len(c)
    /\ \A k \in 1..Len(b) : c[start + k] = b[k]

\* A join holds the list that was added, behind what was there.
LEMMA JoinNew ==
    ASSUME NEW a, NEW b, NEW c, IsJoin(c, a, b)
    PROVE  Holds(c, Len(a), b)
BY DEF IsJoin, Holds

\* What a list holds it still holds when another one is joined to it.
LEMMA JoinKeeps ==
    ASSUME NEW a, NEW b, NEW c, IsJoin(c, a, b), NEW start, NEW part, Holds(a, start, part)
    PROVE  Holds(c, start, part)
<1>1. Len(c) \in Nat /\ start + Len(part) <= Len(c)
  BY DEF IsJoin, Holds
<1>2. ASSUME NEW k \in 1..Len(part) PROVE c[start + k] = part[k]
  <2>1. start + k \in 1..Len(a)
    BY DEF IsJoin, Holds
  <2> QED  BY <2>1 DEF IsJoin, Holds
<1> QED  BY <1>1, <1>2 DEF Holds

\* Every list keeps its place in the longer concatenations.
LEMMA JoinHolds ==
    ASSUME NEW n, NEW seqs, Lists(seqs, n), NEW f, Joins(f, seqs, n), NEW i \in 1..n
    PROVE  Holds(f[n], Len(f[i - 1]), seqs[i])
<1> DEFINE start == Len(f[i - 1])
           T == {m \in 0..n : m < i \/ Holds(f[m], start, seqs[i])}
<1>1. n \in Nat /\ i \in Nat /\ i <= n
  BY DEF Lists
<1>2. 0 \in T
  BY <1>1
<1>3. ASSUME NEW m \in 1..n, m - 1 \in T PROVE m \in T
  <2>1. m \in 0..n
    BY <1>1
  <2>2. CASE m < i
    BY <2>1, <2>2
  <2>3. CASE m = i
    <3>1. IsJoin(f[m], f[i - 1], seqs[i])
      BY <2>3, JoinStep
    <3>2. Holds(f[m], start, seqs[i])
      BY <3>1, JoinNew
    <3> QED  BY <2>1, <3>2
  <2>4. CASE i < m
    <3>1. ~(m - 1 < i)
      BY <1>1, <2>4
    <3>2. Holds(f[m - 1], start, seqs[i])
      BY <1>3, <3>1
    <3>3. IsJoin(f[m], f[m - 1], seqs[m])
      BY JoinStep
    <3>4. Holds(f[m], start, seqs[i])
      BY <3>2, <3>3, JoinKeeps
    <3> QED  BY <2>1, <3>4
  <2> QED  BY <1>1, <2>2, <2>3, <2>4
<1> HIDE DEF T, start
<1>4. \A m \in 0..n : m \in T
  BY <1>1, <1>2, <1>3, UpTo
<1>5. n \in T /\ ~(n < i)
  BY <1>1, <1>4
<1> QED  BY <1>5 DEF T, start


\* Cutting the concatenation of lists at the places where they start gives the
\* lists back.
LEMMA FlattenCut ==
    ASSUME NEW n, NEW seqs, Lists(seqs, n)
    PROVE  /\ Len(FlattenSeq(seqs)) \in Nat
           /\ \A i \in 1..n : Holds(FlattenSeq(seqs), Len(FlattenSeq(SubSeq(seqs, 1, i - 1))), seqs[i])
<1>1. PICK f : Joins(f, seqs, n)
  BY JoinExists
<1>2. n \in Nat /\ IsList(seqs, n) /\ n \in 0..n
  BY DEF Lists
<1>3. FlattenSeq(seqs) = f[n]
  <2>1. SubSeq(seqs, 1, n) = seqs
    BY <1>2, ListSeq, SubSeqFull
  <2>2. FlattenSeq(SubSeq(seqs, 1, n)) = f[n]
    BY <1>1, <1>2, FlattenJoins
  <2> QED  BY <2>1, <2>2
<1>4. Len(f[n]) \in Nat
  BY <1>1, <1>2, JoinIsList
<1>5. ASSUME NEW i \in 1..n
      PROVE  Holds(f[n], Len(FlattenSeq(SubSeq(seqs, 1, i - 1))), seqs[i])
  <2>1. i - 1 \in 0..n
    BY <1>2
  <2>2. FlattenSeq(SubSeq(seqs, 1, i - 1)) = f[i - 1]
    BY <1>1, <2>1, FlattenJoins
  <2>3. Holds(f[n], Len(f[i - 1]), seqs[i])
    BY <1>1, JoinHolds
  <2> QED  BY <2>2, <2>3
<1> QED  BY <1>3, <1>4, <1>5

(***************************************************************************)
(* The canonical order of experts.                                         *)
(***************************************************************************)

Less(experts, e) == {f \in experts : f < e}

\* Ascending gives every expert the place after those less than it.
Placed(experts) ==
    /\ Cardinality(experts) \in Nat
    /\ Ascending(experts) \in [1..Cardinality(experts) -> experts]
    /\ \A n \in 1..Cardinality(experts) : Cardinality(Less(experts, Ascending(experts)[n])) = n - 1
    /\ \A e \in experts : /\ Cardinality(Less(experts, e)) \in 0..(Cardinality(experts) - 1)
                          /\ Ascending(experts)[Cardinality(Less(experts, e)) + 1] = e
    /\ \A e, f \in experts : f < e <=> Cardinality(Less(experts, f)) < Cardinality(Less(experts, e))

\* It lists a finite set of experts completely.
LEMMA AscendingPlaces ==
    ASSUME NEW experts, experts \subseteq Nat, IsFiniteSet(experts)
    PROVE  Placed(experts)
<1> DEFINE N == Cardinality(experts)
           place == [e \in experts |-> Cardinality(Less(experts, e))]
<1>1. N \in Nat
  BY FS_CardinalityType
<1>2. ASSUME NEW e \in experts
      PROVE  IsFiniteSet(Less(experts, e)) /\ Cardinality(Less(experts, e)) \in 0..(N - 1)
  <2>1. Less(experts, e) \in SUBSET experts /\ e \notin Less(experts, e)
    BY DEF Less
  <2>2. /\ IsFiniteSet(Less(experts, e)) /\ Cardinality(Less(experts, e)) <= N
        /\ Cardinality(Less(experts, e)) # N
    BY <2>1, FS_Subset
  <2> QED  BY <1>1, <2>2, FS_CardinalityType
<1>3. ASSUME NEW e \in experts, NEW f \in experts, f < e
      PROVE  place[f] < place[e]
  <2>1. Less(experts, f) \in SUBSET Less(experts, e) /\ Less(experts, f) # Less(experts, e)
    <3>1. f \in Less(experts, e) /\ f \notin Less(experts, f)
      BY <1>3 DEF Less
    <3>2. \A g \in Less(experts, f) : g \in Less(experts, e)
      BY <1>3 DEF Less
    <3> QED  BY <3>1, <3>2
  <2>2. /\ Cardinality(Less(experts, f)) <= Cardinality(Less(experts, e))
        /\ Cardinality(Less(experts, f)) # Cardinality(Less(experts, e))
    BY <1>2, <2>1, FS_Subset
  <2>3. Cardinality(Less(experts, f)) \in Nat /\ Cardinality(Less(experts, e)) \in Nat
    BY <1>2
  <2> QED  BY <2>2, <2>3
<1>4. place \in [experts -> 0..(N - 1)]
  BY <1>2
<1>5. \A e, f \in experts : f < e <=> place[f] < place[e]
  <2> SUFFICES ASSUME NEW e \in experts, NEW f \in experts PROVE f < e <=> place[f] < place[e]
    OBVIOUS
  <2>1. place[e] \in Nat /\ place[f] \in Nat /\ e \in Nat /\ f \in Nat
    BY <1>4
  <2>2. CASE f = e
    BY <2>1, <2>2
  <2>3. CASE f < e
    BY <1>3, <2>3
  <2>4. CASE e < f
    <3>1. place[e] < place[f]
      BY <1>3, <2>4
    <3> HIDE DEF place
    <3> QED  BY <2>1, <2>4, <3>1
  <2> QED  BY <2>1, <2>2, <2>3, <2>4
<1>6. \A e, f \in experts : place[e] = place[f] => e = f
  <2> SUFFICES ASSUME NEW e \in experts, NEW f \in experts, place[e] = place[f] PROVE e = f
    OBVIOUS
  <2>1. place[e] \in Nat /\ place[f] \in Nat /\ e \in Nat /\ f \in Nat
    BY <1>4
  <2>2. ~(f < e) /\ ~(e < f)
    <3> HIDE DEF place
    <3> QED  BY <1>5, <2>1
  <2> QED  BY <2>1, <2>2
<1>7. place \in Surjection(experts, 0..(N - 1))
  <2>1. place \in Injection(experts, 0..(N - 1))
    <3> HIDE DEF N, place
    <3> QED  BY <1>4, <1>6, Fun_IsInj
  <2>2. IsFiniteSet(0..(N - 1)) /\ Cardinality(0..(N - 1)) = N
    <3> HIDE DEF N
    <3> QED  BY <1>1, FS_Interval
  <2> HIDE DEF place
  <2> QED  BY <2>1, <2>2, FS_Injection
<1>8. \A k \in 0..(N - 1) : \E e \in experts : place[e] = k
  <2> HIDE DEF N, place
  <2> QED  BY <1>7 DEF Surjection
<1>9. ASSUME NEW n \in 1..N
      PROVE  /\ Ascending(experts)[n] \in experts
             /\ Cardinality(Less(experts, Ascending(experts)[n])) = n - 1
  <2>1. n - 1 \in 0..(N - 1)
    BY <1>1
  <2>2. \E e \in experts : Cardinality(Less(experts, e)) = n - 1
    BY <1>8, <2>1
  <2>3. Ascending(experts)[n] = CHOOSE e \in experts : Cardinality(Less(experts, e)) = n - 1
    BY DEF Ascending, Less
  <2> QED  BY <2>2, <2>3
<1>10. Ascending(experts) \in [1..N -> experts]
  <2> DEFINE pick(n) == CHOOSE e \in experts : Cardinality({f \in experts : f < e}) = n - 1
  <2>1. Ascending(experts) = [n \in 1..N |-> pick(n)]
    BY Zenon DEF Ascending
  <2> HIDE DEF pick, N
  <2> QED  BY <1>9, <2>1
<1>11. ASSUME NEW e \in experts PROVE Ascending(experts)[Cardinality(Less(experts, e)) + 1] = e
  <2> DEFINE n == Cardinality(Less(experts, e)) + 1
  <2>1. n \in 1..N /\ n - 1 = Cardinality(Less(experts, e))
    BY <1>1, <1>2
  <2>2. Ascending(experts)[n] \in experts /\ place[Ascending(experts)[n]] = place[e]
    BY <1>9, <2>1
  <2> QED  BY <1>6, <2>2
<1>12. \A e, f \in experts :
          f < e <=> Cardinality(Less(experts, f)) < Cardinality(Less(experts, e))
  BY <1>5
<1> QED  BY <1>1, <1>2, <1>9, <1>10, <1>11, <1>12 DEF Placed

\* Those of a selection that are among the first n experts of the union.
Among(selection, experts, n) == {e \in selection : Cardinality(Less(experts, e)) < n}

\* The next slot is of the next expert of the selection, or of none of it.
Meets(selection, experts, n) ==
    LET e == Ascending(experts)[n]
        met == Cardinality(Among(selection, experts, n - 1)) IN
    /\ met \in Nat
    /\ e \notin selection => Cardinality(Among(selection, experts, n)) = met
    /\ e \in selection => /\ Cardinality(Among(selection, experts, n)) = met + 1
                          /\ Ascending(selection)[met + 1] = e

\* Going through the union in ascending order meets the experts of a selection
\* in their ascending order.
LEMMA SlotsMeet ==
    ASSUME NEW experts, experts \subseteq Nat, IsFiniteSet(experts),
           NEW selection \in SUBSET experts, NEW n \in 1..Cardinality(experts)
    PROVE  Meets(selection, experts, n)
<1> DEFINE e == Ascending(experts)[n]
           place(f) == Cardinality(Less(experts, f))
           old == Among(selection, experts, n - 1)
<1>1. Placed(experts)
  BY AscendingPlaces
<1>2. e \in experts /\ place(e) = n - 1 /\ n \in Nat
  BY <1>1 DEF Placed
<1>3. \A f \in experts : place(f) \in Nat /\ Ascending(experts)[place(f) + 1] = f
  <2>1. ASSUME NEW f \in experts PROVE place(f) \in Nat
    <3>1. place(f) \in 0..(Cardinality(experts) - 1)
      BY <1>1 DEF Placed
    <3> QED  BY <3>1
  <2> QED  BY <1>1, <2>1 DEF Placed
<1>4. \A f \in experts : f < e <=> place(f) < place(e)
  BY <1>1, <1>2, Zenon DEF Placed
<1>5. IsFiniteSet(selection) /\ selection \subseteq Nat
  BY FS_Subset
<1>6. old \in SUBSET selection /\ IsFiniteSet(old) /\ Cardinality(old) \in Nat
  <2>1. old \in SUBSET selection
    BY DEF Among
  <2> HIDE DEF old
  <2> QED  BY <1>5, <2>1, FS_Subset, FS_CardinalityType
<1>7. \A f \in experts : place(f) < n <=> place(f) < n - 1 \/ f = e
  <2> SUFFICES ASSUME NEW f \in experts PROVE place(f) < n <=> place(f) < n - 1 \/ f = e
    OBVIOUS
  <2>1. place(f) = n - 1 => f = e
    <3> SUFFICES ASSUME place(f) = n - 1 PROVE f = e
      OBVIOUS
    <3>1. Ascending(experts)[place(f) + 1] = f /\ place(f) + 1 = n
      BY <1>2, <1>3
    <3> HIDE DEF place
    <3> QED  BY <3>1
  <2>2. place(f) \in Nat /\ place(e) = n - 1 /\ n \in Nat
    BY <1>2, <1>3
  <2> HIDE DEF place, e
  <2> QED  BY <2>1, <2>2
<1>8. CASE e \notin selection
  <2>1. Among(selection, experts, n) = old
    BY <1>7, <1>8 DEF Among
  <2> QED  BY <1>6, <1>8, <2>1 DEF Meets
<1>9. CASE e \in selection
  <2>1. e \notin old
    BY <1>2 DEF Among
  <2>2. Among(selection, experts, n) = old \cup {e}
    BY <1>7, <1>9 DEF Among
  <2>3. Cardinality(Among(selection, experts, n)) = Cardinality(old) + 1
    <3> HIDE DEF old, e
    <3> QED  BY <1>6, <2>1, <2>2, FS_AddElement
  <2>4. Less(selection, e) = old
    <3>1. \A f \in selection : f < e <=> place(f) < n - 1
      BY <1>2, <1>4
    <3> QED  BY <3>1 DEF Among, Less
  <2>5. Ascending(selection)[Cardinality(Less(selection, e)) + 1] = e
    <3>1. Placed(selection)
      BY <1>5, AscendingPlaces
    <3> HIDE DEF e
    <3> QED  BY <1>9, <3>1 DEF Placed
  <2>6. Ascending(selection)[Cardinality(old) + 1] = e
    <3> HIDE DEF old, e
    <3> QED  BY <2>4, <2>5
  <2> HIDE DEF old, e
  <2> QED  BY <1>6, <1>9, <2>3, <2>6 DEF old, e, Meets
<1> QED  BY <1>8, <1>9

\* What is added to a position is its selection in ascending order, whatever the
\* other positions of the union selected.
LEMMA AddedAscends ==
    ASSUME NEW experts, experts \subseteq Nat, IsFiniteSet(experts),
           NEW selection \in SUBSET experts
    PROVE  Added(Ascending(experts), selection) = Ascending(selection)
<1> DEFINE slots == Ascending(experts)
           N == Cardinality(experts)
           order == Ascending(selection)
           count(n) == Cardinality(Among(selection, experts, n))
           closed == [n \in 0..N |-> [k \in 1..count(n) |-> order[k]]]
           Unfolds(f) == f = [n \in 0..Len(slots) |->
                            IF n = 0 THEN <<>>
                            ELSE IF slots[n] \in selection THEN Append(f[n - 1], slots[n])
                            ELSE f[n - 1]]
<1>1. Placed(experts) /\ Placed(selection)
  BY AscendingPlaces, FS_Subset
<1>2. N \in Nat /\ Len(slots) = N
  <2>1. N \in Nat /\ slots \in [1..N -> experts]
    BY <1>1 DEF Placed
  <2>2. IsList(slots, N)
    BY <2>1 DEF IsList
  <2> QED  BY <2>1, <2>2, ListSeq
<1>3. count(0) = 0 /\ count(N) = Cardinality(selection)
  <2>1. ASSUME NEW e \in selection
        PROVE  Cardinality(Less(experts, e)) < N /\ ~(Cardinality(Less(experts, e)) < 0)
    <3>1. Cardinality(Less(experts, e)) \in 0..(N - 1)
      BY <1>1 DEF Placed
    <3> HIDE DEF N
    <3> QED  BY <1>2, <3>1
  <2>2. Among(selection, experts, 0) = {} /\ Among(selection, experts, N) = selection
    BY <2>1, Zenon DEF Among
  <2> QED  BY <2>2, FS_EmptySet
<1>4. closed[0] = <<>>
  BY <1>2, <1>3
<1>5. ASSUME NEW n \in 1..N
      PROVE  closed[n] = IF slots[n] \in selection THEN Append(closed[n - 1], slots[n])
                         ELSE closed[n - 1]
  <2> DEFINE e == slots[n]  c == count(n - 1)
             before == [k \in 1..c |-> order[k]]  after == [k \in 1..(c + 1) |-> order[k]]
  <2>1. /\ c \in Nat /\ (e \notin selection => count(n) = c)
        /\ e \in selection => count(n) = c + 1 /\ order[c + 1] = e
    BY SlotsMeet DEF Meets
  <2>2. closed[n - 1] = before /\ (count(n) = c + 1 => closed[n] = after)
        /\ (count(n) = c => closed[n] = before)
    <3>1. n \in 0..N /\ n - 1 \in 0..N
      BY <1>2
    <3> HIDE DEF count, order, N
    <3> QED  BY <3>1
  <2>3. CASE e \notin selection
    BY <2>1, <2>2, <2>3
  <2>4. CASE e \in selection
    <3>1. IsList(before, c) /\ IsList(after, c + 1) /\ \A k \in 1..c : before[k] = after[k]
      BY <2>1 DEF IsList
    <3>2. after[c + 1] = e
      BY <2>1, <2>4
    <3> DEFINE grown == Append(before, e)
    <3> HIDE DEF before, after, c, e
    <3>3. Appends(before, c, e)
      BY <2>1, <3>1, ListAppend
    <3>4. IsList(grown, c + 1) /\ c + 1 \in Nat
      BY <2>1, <3>3 DEF Appends
    <3>5. \A k \in 1..c : grown[k] = after[k]
      BY <3>1, <3>3 DEF Appends
    <3>6. grown[c + 1] = after[c + 1]
      BY <3>2, <3>3 DEF Appends
    <3> HIDE DEF grown
    <3>7. \A k \in 1..(c + 1) : grown[k] = after[k]
      BY <2>1, <3>5, <3>6
    <3>8. grown = after
      BY <3>1, <3>4, <3>7, ListEqual
    <3>9. closed[n] = after /\ closed[n - 1] = before /\ e \in selection
      BY <2>1, <2>2, <2>4
    <3> HIDE DEF closed
    <3> QED  BY <3>8, <3>9 DEF grown, e
  <2> QED  BY <2>3, <2>4
<1>6. Unfolds(closed)
  <2>1. closed = [n \in 0..N |-> closed[n]]
    OBVIOUS
  <2> HIDE DEF closed, slots
  <2>2. ASSUME NEW n \in 0..N, n # 0
        PROVE  closed[n] = IF slots[n] \in selection THEN Append(closed[n - 1], slots[n])
                           ELSE closed[n - 1]
    <3>1. n \in 1..N
      BY <1>2, <2>2
    <3> QED  BY <1>5, <3>1
  <2> QED  BY <1>2, <1>4, <2>1, <2>2
<1> DEFINE sum == CHOOSE f : Unfolds(f)
<1>7. Unfolds(sum)
  BY <1>6, Zenon
<1>8. Added(slots, selection) = sum[N]
  BY <1>2 DEF Added
<1> HIDE DEF sum, closed, slots
<1> DEFINE T == {n \in 0..N : sum[n] = closed[n]}
<1>9. 0 \in T
  BY <1>2, <1>4, <1>7
<1>10. ASSUME NEW n \in 1..N, n - 1 \in T PROVE n \in T
  <2>1. n \in 0..N /\ n # 0
    BY <1>2
  <2>2. sum[n] = IF slots[n] \in selection THEN Append(sum[n - 1], slots[n]) ELSE sum[n - 1]
    BY <1>2, <1>7, <2>1
  <2>3. sum[n - 1] = closed[n - 1]
    BY <1>10
  <2> QED  BY <1>5, <2>1, <2>2, <2>3
<1>11. N \in 0..N /\ \A n \in 0..N : n \in T
  <2>1. N \in Nat
    BY <1>2
  <2> HIDE DEF T, N
  <2>2. \A n \in 0..N : n \in T
    BY <1>9, <1>10, <2>1, UpTo
  <2> QED  BY <2>1, <2>2
<1>12. sum[N] = closed[N]
  BY <1>11
<1>13. closed[N] = [k \in 1..Cardinality(selection) |-> order[k]]
  BY <1>3, <1>11 DEF closed
<1>14. order = [k \in 1..Cardinality(selection) |-> order[k]]
  BY <1>1 DEF Placed
<1> QED  BY <1>8, <1>12, <1>13, <1>14 DEF slots

(***************************************************************************)
(* What rows that share a step are told.                                   *)
(***************************************************************************)

TokenAt(i, k) == <<roster[i], Before(i) + k>>

\* What row i is told of a token, and of its routes, on its own.
SumsAlone(t) == [l \in 1..Layers |-> IsolatedSum(l, t)]
RoutesAlone(i) ==
    [l \in 1..Layers |-> IF l \in SparseLayers THEN [k \in 1..width[i] |-> picked[l][TokenAt(i, k)]]
                         ELSE <<>>]

\* List f is the first n members of g.
Begins(f, g, n) == IsList(f, n) /\ \A l \in 1..n : f[l] = g[l]

\* The layers the router has decided.
Routed == IF union = <<>> THEN layer - 1 ELSE layer

HiddenOK ==
    /\ IsList(hidden, Len(roster))
    /\ \A i \in Indices :
         /\ IsList(hidden[i], width[i])
         /\ \A k \in 1..width[i] : Begins(hidden[i][k].sums, SumsAlone(TokenAt(i, k)), layer - 1)

RoutesOK ==
    /\ IsList(routes, Len(roster))
    /\ \A i \in Indices : Begins(routes[i], RoutesAlone(i), layer - 1)

UnionOK ==
    union # <<>> =>
      /\ IsList(union, Len(UnionInput))
      /\ \A j \in 1..Len(UnionInput) : union[j] \in Selections
      /\ \A i \in Indices : \A k \in 1..width[i] :
           union[RowStart(i) + k] = picked[layer][TokenAt(i, k)]

Results == IsList(picked, Routed) /\ HiddenOK /\ RoutesOK /\ UnionOK

\* After each layer of a call every row has what it would have alone.
SharedInv == Inv /\ IF Running THEN Results ELSE picked = <<>>

\* One member more.
LEMMA BeginsGrow ==
    ASSUME NEW n \in Nat, NEW f, NEW g, NEW h, NEW x, Begins(f, g, n),
           \A l \in 1..n : h[l] = g[l], h[n + 1] = x
    PROVE  Begins(Append(f, x), h, n + 1)
<1>1. Appends(f, n, x)
  BY ListAppend DEF Begins
<1>2. ASSUME NEW l \in 1..(n + 1) PROVE Append(f, x)[l] = h[l]
  <2>1. CASE l \in 1..n
    BY <1>1, <2>1 DEF Appends, Begins
  <2>2. CASE l = n + 1
    BY <1>1, <2>2 DEF Appends
  <2>3. l \in 1..n \/ l = n + 1
    OBVIOUS
  <2> QED  BY <2>1, <2>2, <2>3, Zenon
<1> QED  BY <1>1, <1>2 DEF Appends, Begins

\* What a call works with.
Facts ==
    /\ layer \in 1..(Layers + 1) /\ Layers \in Nat \ {0} /\ SparseLayers \subseteq 1..Layers
    /\ Len(roster) \in Nat \ {0} /\ Indices = 1..Len(roster)
    /\ \A i \in Indices : /\ width[i] \in Nat \ {0} /\ Before(i) \in Nat
                          /\ \A k \in 1..width[i] :
                               hidden[i][k] = [token |-> TokenAt(i, k), sums |-> hidden[i][k].sums]
    /\ union # <<>> => layer \in SparseLayers

\* They follow from the invariant of the caches.
LEMMA CallFacts == ASSUME Inv, Running PROVE Facts
<1>1. Working /\ Caches
  BY DEF Inv
<1>2. roster \in Seq(Row) /\ roster # <<>>
  BY <1>1 DEF Working, Running
<1>3. Len(roster) \in Nat \ {0} /\ \A i \in 1..Len(roster) : roster[i] \in Row
  BY <1>2
<1>4. \A i \in Indices : Before(i) \in Nat
  BY <1>1, <1>3 DEF Caches, Before, Indices
<1>5. \A i \in Indices : \A k \in 1..width[i] :
        hidden[i][k] = [token |-> TokenAt(i, k), sums |-> hidden[i][k].sums]
  BY <1>1 DEF Working, StateOf, TokenAt
<1>6. Layers \in Nat \ {0} /\ SparseLayers \subseteq 1..Layers
  BY GeometryAssumption
<1> QED  BY <1>1, <1>3, <1>4, <1>5, <1>6 DEF Working, Facts, Indices

\* Where row i is in the union.
InUnion(i) ==
    /\ RowStart(i) \in Nat
    /\ \A k \in 1..width[i] : /\ RowStart(i) + k \in 1..Len(UnionInput)
                              /\ UnionInput[RowStart(i) + k] = hidden[i][k]
                              /\ UnionInput[RowStart(i) + k].token = TokenAt(i, k)

\* The union holds the positions of every row, from the row's start on.
LEMMA RowsInUnion ==
    ASSUME Facts, HiddenOK
    PROVE  Len(UnionInput) \in Nat \ {0} /\ \A i \in Indices : InUnion(i)
<1> DEFINE n == Len(roster)
<1>1. \A i \in 1..n : Len(hidden[i]) = width[i] /\ IsList(hidden[i], width[i]) /\ width[i] \in Nat \ {0}
  BY ListSeq DEF HiddenOK, Facts
<1>2. Lists(hidden, n)
  BY <1>1 DEF Lists, HiddenOK, Facts
<1>3. /\ Len(UnionInput) \in Nat
      /\ \A i \in 1..n : Holds(UnionInput, RowStart(i), hidden[i])
  BY <1>2, FlattenCut DEF UnionInput, RowStart
<1>4. ASSUME NEW i \in Indices PROVE InUnion(i)
  <2>1. Holds(UnionInput, RowStart(i), hidden[i]) /\ Len(hidden[i]) = width[i]
    BY <1>1, <1>3 DEF Facts
  <2>2. /\ RowStart(i) \in Nat /\ width[i] \in Nat /\ RowStart(i) + width[i] <= Len(UnionInput)
        /\ \A k \in 1..width[i] : UnionInput[RowStart(i) + k] = hidden[i][k]
    BY <2>1 DEF Holds, Facts
  <2>3. \A k \in 1..width[i] : RowStart(i) + k \in 1..Len(UnionInput)
    BY <1>3, <2>2
  <2>4. ASSUME NEW k \in 1..width[i] PROVE hidden[i][k].token = TokenAt(i, k)
    <3>1. hidden[i][k] = [token |-> TokenAt(i, k), sums |-> hidden[i][k].sums]
      BY DEF Facts
    <3> QED  BY <3>1
  <2> QED  BY <2>2, <2>3, <2>4 DEF InUnion
<1>5. Len(UnionInput) # 0
  <2>1. 1 \in Indices /\ 1 \in 1..width[1]
    BY <1>1 DEF Facts
  <2>2. RowStart(1) + 1 \in 1..Len(UnionInput)
    BY <1>4, <2>1 DEF InUnion
  <2> QED  BY <1>3, <2>2
<1> QED  BY <1>3, <1>4, <1>5

\* What is told of a row depends on its tokens and on what the router decided.
LEMMA RowsTold ==
    ASSUME UNCHANGED <<cache, roster, width>>
    PROVE  /\ Running' <=> Running
           /\ Indices' = Indices
           /\ \A i, k : TokenAt(i, k)' = TokenAt(i, k)
           /\ \A l \in 1..Layers : picked'[l] = picked[l] =>
                 /\ \A t : SumsAlone(t)'[l] = SumsAlone(t)[l]
                 /\ \A i : RoutesAlone(i)'[l] = RoutesAlone(i)[l]
<1>1. (Running' <=> Running) /\ Indices' = Indices /\ \A i : Before(i)' = Before(i)
  BY RowsStay
<1>2. \A i, k : TokenAt(i, k)' = TokenAt(i, k)
  BY <1>1 DEF TokenAt
<1>3. ASSUME NEW l \in 1..Layers, picked'[l] = picked[l], NEW t
      PROVE  SumsAlone(t)'[l] = SumsAlone(t)[l]
  <2>1. IsolatedSum(l, t)' = IsolatedSum(l, t)
    BY <1>3 DEF IsolatedSum, Ascending
  <2>2. SumsAlone(t)[l] = IsolatedSum(l, t) /\ SumsAlone(t)'[l] = IsolatedSum(l, t)'
    BY DEF SumsAlone
  <2> QED  BY <2>1, <2>2
<1>4. ASSUME NEW l \in 1..Layers, picked'[l] = picked[l], NEW i
      PROVE  RoutesAlone(i)'[l] = RoutesAlone(i)[l]
  BY <1>2, <1>4 DEF RoutesAlone
<1> QED  BY <1>1, <1>2, <1>3, <1>4

\* A new call: nothing is decided yet.
LEMMA StartShares ==
    ASSUME SharedInv, NEW rs \in Rosters, NEW ws \in [DOMAIN rs -> Widths], Start(rs, ws)
    PROVE  SharedInv'
<1>1. Inv'
  BY StartInv DEF SharedInv
<1>2. /\ ~Running /\ roster' = rs /\ width' = ws /\ layer' = 1 /\ UNCHANGED <<cache, union, picked>>
      /\ hidden' = [i \in DOMAIN rs |->
                      [k \in 1..ws[i] |-> Embedded(rs[i], cache[rs[i]].position + k)]]
      /\ routes' = [i \in DOMAIN rs |-> <<>>]
  BY DEF Start
<1>3. picked = <<>> /\ union = <<>>
  BY <1>2 DEF SharedInv, Inv
<1>4. PICK n \in 1..Cardinality(Row) : rs \in [1..n -> Row]
  BY DEF Rosters
<1>5. DOMAIN rs = 1..n /\ Len(rs) = n /\ n \in Nat
  BY <1>4
<1>6. IsList(<<>>, 0) /\ \A g : Begins(<<>>, g, 0)
  BY DEF IsList, Begins
<1>7. HiddenOK'
  <2>1. ASSUME NEW i \in 1..n, NEW k \in 1..ws[i] PROVE hidden'[i][k].sums = <<>>
    BY <1>2, <1>5 DEF Embedded
  <2>2. IsList(hidden', n) /\ \A i \in 1..n : IsList(hidden'[i], ws[i])
    BY <1>2, <1>5 DEF IsList
  <2>3. \A i \in 1..n : \A k \in 1..ws[i] : Begins(hidden'[i][k].sums, SumsAlone(TokenAt(i, k))', 0)
    BY <1>6, <2>1
  <2>4. layer' - 1 = 0 /\ Indices' = 1..n
    BY <1>2, <1>5 DEF Indices
  <2> QED  BY <1>2, <1>5, <2>2, <2>3, <2>4 DEF HiddenOK, Begins, IsList
<1>8. RoutesOK'
  <2>1. IsList(routes', n) /\ \A i \in 1..n : routes'[i] = <<>>
    BY <1>2, <1>5 DEF IsList
  <2>2. \A i \in 1..n : Begins(routes'[i], RoutesAlone(i)', 0)
    BY <1>6, <2>1
  <2>3. layer' - 1 = 0 /\ Indices' = 1..n
    BY <1>2, <1>5 DEF Indices
  <2> QED  BY <1>2, <1>5, <2>1, <2>2, <2>3 DEF RoutesOK, Begins, IsList
<1>9. IsList(picked, Routed)' /\ UnionOK'
  BY <1>2, <1>3, <1>6 DEF Routed, UnionOK, IsList
<1> QED  BY <1>1, <1>2, <1>3, <1>7, <1>8, <1>9 DEF SharedInv, Results

\* A layer of either kind ends: sum[i][k] was added to the k-th position of row i,
\* and told[i] to its routes, and both are what the row would have alone.
LayerEnds(sum, told) ==
    /\ UNCHANGED <<cache, roster, width>> /\ layer \in 1..Layers
    /\ layer' = layer + 1 /\ union' = <<>>
    /\ IsList(picked', layer) /\ \A l \in 1..(layer - 1) : picked'[l] = picked[l]
    /\ \A i \in Indices : \A k \in 1..width[i] : sum[i][k] = SumsAlone(TokenAt(i, k))'[layer]
    /\ \A i \in Indices : told[i] = RoutesAlone(i)'[layer]
    /\ hidden' = [i \in Indices |-> [k \in 1..width[i] |->
                    [hidden[i][k] EXCEPT !.sums = Append(@, sum[i][k])]]]
    /\ routes' = [i \in Indices |-> Append(routes[i], told[i])]

\* Then everything added so far is what the rows would have alone.
LEMMA LayerShares ==
    ASSUME Facts, Results, NEW sum, NEW told, LayerEnds(sum, told)
    PROVE  Results'
<1>0. /\ UNCHANGED <<cache, roster, width>> /\ layer \in 1..Layers
      /\ layer' = layer + 1 /\ union' = <<>>
      /\ IsList(picked', layer) /\ \A l \in 1..(layer - 1) : picked'[l] = picked[l]
      /\ \A i \in Indices : \A k \in 1..width[i] : sum[i][k] = SumsAlone(TokenAt(i, k))'[layer]
      /\ \A i \in Indices : told[i] = RoutesAlone(i)'[layer]
      /\ hidden' = [i \in Indices |-> [k \in 1..width[i] |->
                      [hidden[i][k] EXCEPT !.sums = Append(@, sum[i][k])]]]
      /\ routes' = [i \in Indices |-> Append(routes[i], told[i])]
  BY DEF LayerEnds
<1>1. layer - 1 \in Nat /\ (layer - 1) + 1 = layer /\ layer' - 1 = layer /\ \A l \in 1..(layer - 1) : l \in 1..Layers
  BY <1>0 DEF Facts
<1>2. Indices' = Indices /\ Indices = 1..Len(roster) /\ Len(roster)' = Len(roster)
      /\ \A i, k : TokenAt(i, k)' = TokenAt(i, k)
  BY <1>0, RowsTold DEF Facts
<1>3. ASSUME NEW i \in Indices, NEW k \in 1..width[i]
      PROVE  Begins(hidden'[i][k].sums, SumsAlone(TokenAt(i, k))', layer)
  <2> DEFINE f == hidden[i][k].sums  t == TokenAt(i, k)
             g == SumsAlone(t)  h == SumsAlone(TokenAt(i, k))'
  <2>1. Begins(f, g, layer - 1)
    BY DEF Results, HiddenOK
  <2>2. \A l \in 1..(layer - 1) : h[l] = g[l]
    BY <1>0, <1>1, <1>2, RowsTold DEF SumsAlone
  <2>3. h[(layer - 1) + 1] = sum[i][k]
    BY <1>0, <1>1
  <2>4. hidden'[i][k].sums = Append(f, sum[i][k])
    <3>1. hidden[i][k] = [token |-> t, sums |-> f]
      BY DEF Facts
    <3>2. hidden'[i][k] = [hidden[i][k] EXCEPT !.sums = Append(@, sum[i][k])]
      BY <1>0
    <3> HIDE DEF t, f
    <3> QED  BY <3>1, <3>2
  <2> HIDE DEF f, g, h
  <2>5. Begins(Append(f, sum[i][k]), h, (layer - 1) + 1)
    BY <1>0, <1>1, <2>1, <2>2, <2>3, BeginsGrow
  <2> QED  BY <1>0, <1>1, <2>4, <2>5 DEF h
<1>4. ASSUME NEW i \in Indices PROVE Begins(routes'[i], RoutesAlone(i)', layer)
  <2> DEFINE f == routes[i]  g == RoutesAlone(i)  h == RoutesAlone(i)'
  <2>1. Begins(f, g, layer - 1)
    BY DEF Results, RoutesOK
  <2>2. \A l \in 1..(layer - 1) : h[l] = g[l]
    BY <1>0, <1>1, RowsTold
  <2>3. h[(layer - 1) + 1] = told[i]
    BY <1>0, <1>1
  <2>4. routes'[i] = Append(f, told[i])
    BY <1>0
  <2> HIDE DEF f, g, h
  <2>5. Begins(Append(f, told[i]), h, (layer - 1) + 1)
    BY <1>0, <1>1, <2>1, <2>2, <2>3, BeginsGrow
  <2> QED  BY <1>0, <1>1, <2>4, <2>5 DEF h
<1>5. /\ IsList(hidden', Len(roster)) /\ IsList(routes', Len(roster))
      /\ \A i \in Indices : IsList(hidden'[i], width[i])
  BY <1>0, <1>2 DEF IsList
<1>6. HiddenOK'
  <2>1. IsList(hidden, Len(roster))'
    BY <1>0, <1>2, <1>5 DEF IsList
  <2>2. ASSUME NEW i \in Indices'
        PROVE  /\ IsList(hidden[i], width[i])'
               /\ \A k \in 1..width[i]' :
                    Begins(hidden[i][k].sums, SumsAlone(TokenAt(i, k)), layer - 1)'
    <3>1. i \in Indices /\ width[i]' = width[i]
      BY <1>0, <1>2
    <3>2. IsList(hidden[i], width[i])'
      BY <1>0, <1>5, <3>1 DEF IsList
    <3>3. ASSUME NEW k \in 1..width[i]
          PROVE  Begins(hidden[i][k].sums, SumsAlone(TokenAt(i, k)), layer - 1)'
      <4> DEFINE f == hidden'[i][k].sums  g == SumsAlone(TokenAt(i, k))'
      <4>1. Begins(f, g, layer) /\ layer' - 1 = layer
        BY <1>0, <1>1, <1>3, <3>1
      <4> HIDE DEF f, g
      <4>2. Begins(f, g, layer' - 1)
        BY <4>1
      <4> QED  BY <4>2 DEF f, g, Begins, IsList
    <3> QED  BY <3>1, <3>2, <3>3
  <2> QED  BY <2>1, <2>2 DEF HiddenOK
<1>7. RoutesOK'
  <2>1. IsList(routes, Len(roster))'
    BY <1>0, <1>2, <1>5 DEF IsList
  <2>2. ASSUME NEW i \in Indices'
        PROVE  Begins(routes[i], RoutesAlone(i), layer - 1)'
    <3> DEFINE f == routes'[i]  g == RoutesAlone(i)'
    <3>1. Begins(f, g, layer) /\ layer' - 1 = layer
      BY <1>1, <1>2, <1>4
    <3> HIDE DEF f, g
    <3>2. Begins(f, g, layer' - 1)
      BY <3>1
    <3> QED  BY <3>2 DEF f, g, Begins, IsList
  <2> QED  BY <2>1, <2>2 DEF RoutesOK
<1>8. IsList(picked, Routed)' /\ UnionOK'
  BY <1>0, <1>1 DEF Routed, UnionOK, IsList
<1> QED  BY <1>0, <1>6, <1>7, <1>8 DEF Results

\* A dense layer adds nothing, to any row.
LEMMA DenseShares == ASSUME SharedInv, DenseLayer PROVE SharedInv'
<1>1. /\ UNCHANGED <<cache, roster, width, union>> /\ Running /\ layer \in (1..Layers) \ SparseLayers
      /\ layer' = layer + 1 /\ picked' = Append(picked, <<>>)
      /\ hidden' = [i \in Indices |-> [k \in 1..width[i] |->
                      [hidden[i][k] EXCEPT !.sums =
                          Append(@, [of |-> hidden[i][k].token, experts |-> <<>>])]]]
      /\ routes' = [i \in Indices |-> Append(routes[i], <<>>)]
  BY DEF DenseLayer
<1>2. Inv' /\ Facts /\ Results /\ union = <<>> /\ Running'
  <2>1. Inv'
    BY DenseInv DEF SharedInv
  <2>2. Facts /\ Results
    BY <1>1, CallFacts DEF SharedInv
  <2> QED  BY <1>1, <2>1, <2>2, RowsTold DEF Facts
<1>3. layer - 1 \in Nat /\ (layer - 1) + 1 = layer /\ Routed = layer - 1
  BY <1>1, <1>2 DEF Routed
<1>4. Appends(picked, layer - 1, <<>>)
  BY <1>2, <1>3, ListAppend DEF Results
<1>5. IsList(picked', layer) /\ \A l \in 1..(layer - 1) : picked'[l] = picked[l]
  BY <1>1, <1>3, <1>4 DEF Appends
<1> DEFINE sum == [i \in Indices |-> [k \in 1..width[i] |->
                     [of |-> hidden[i][k].token, experts |-> <<>>]]]
           told == [i \in Indices |-> <<>>]
<1>6. ASSUME NEW i \in Indices, NEW k \in 1..width[i]
      PROVE  sum[i][k] = SumsAlone(TokenAt(i, k))'[layer]
  <2>1. hidden[i][k].token = TokenAt(i, k)
    <3>1. hidden[i][k] = [token |-> TokenAt(i, k), sums |-> hidden[i][k].sums]
      BY <1>2 DEF Facts
    <3> QED  BY <3>1
  <2>2. SumsAlone(TokenAt(i, k))'[layer] = [of |-> TokenAt(i, k)', experts |-> <<>>]
    BY <1>1 DEF SumsAlone, IsolatedSum
  <2>3. TokenAt(i, k)' = TokenAt(i, k)
    BY <1>1, RowsTold
  <2> QED  BY <2>1, <2>2, <2>3
<1>7. \A i \in Indices : told[i] = RoutesAlone(i)'[layer]
  BY <1>1 DEF RoutesAlone
<1>8. /\ hidden' = [i \in Indices |-> [k \in 1..width[i] |->
                     [hidden[i][k] EXCEPT !.sums = Append(@, sum[i][k])]]]
      /\ routes' = [i \in Indices |-> Append(routes[i], told[i])]
  BY <1>1
<1> HIDE DEF sum, told
<1>9. LayerEnds(sum, told)
  <2>1. /\ UNCHANGED <<cache, roster, width>> /\ layer \in 1..Layers
        /\ layer' = layer + 1 /\ union' = <<>>
    BY <1>1, <1>2
  <2> QED  BY <1>5, <1>6, <1>7, <1>8, <2>1, Zenon DEF LayerEnds
<1>10. Results'
  BY <1>2, <1>9, LayerShares
<1> QED  BY <1>2, <1>10 DEF SharedInv

\* Routing the union asks the router for the tokens of every row.
LEMMA RouteShares == ASSUME SharedInv, RouteLayer PROVE SharedInv'
<1>1. /\ UNCHANGED <<cache, roster, width, hidden, layer, routes>> /\ Running
      /\ layer \in SparseLayers /\ union = <<>>
  BY DEF RouteLayer
<1>2. PICK choice \in [{UnionInput[j].token : j \in 1..Len(UnionInput)} -> Selections] :
        /\ union' = [j \in 1..Len(UnionInput) |-> choice[UnionInput[j].token]]
        /\ picked' = Append(picked, choice)
  BY DEF RouteLayer
<1>3. Inv' /\ Facts /\ Results
  BY <1>1, RouteInv, CallFacts DEF SharedInv
<1>4. /\ Running' /\ Indices' = Indices /\ \A i, k : TokenAt(i, k)' = TokenAt(i, k)
      /\ \A l \in 1..Layers : picked'[l] = picked[l] =>
            /\ \A t : SumsAlone(t)'[l] = SumsAlone(t)[l]
            /\ \A i : RoutesAlone(i)'[l] = RoutesAlone(i)[l]
  BY <1>1, RowsTold
<1>5. Len(UnionInput) \in Nat \ {0} /\ \A i \in Indices : InUnion(i)
  BY <1>3, RowsInUnion DEF Results
<1>6. layer \in 1..Layers /\ layer - 1 \in Nat /\ (layer - 1) + 1 = layer /\ Routed = layer - 1
      /\ \A l \in 1..(layer - 1) : l \in 1..Layers
  BY <1>1, <1>3 DEF Routed, Facts
<1>7. /\ IsList(picked', layer) /\ picked'[layer] = choice
      /\ \A l \in 1..(layer - 1) : picked'[l] = picked[l]
  <2>1. Appends(picked, layer - 1, choice)
    BY <1>3, <1>6, ListAppend DEF Results
  <2> QED  BY <1>2, <1>6, <2>1 DEF Appends
<1>8. UnionInput' = UnionInput /\ \A i : RowStart(i)' = RowStart(i)
  BY <1>1 DEF UnionInput, RowStart
<1>9. IsList(union', Len(UnionInput)) /\ \A j \in 1..Len(UnionInput) : union'[j] \in Selections
  BY <1>2 DEF IsList
<1>10. ASSUME NEW i \in Indices, NEW k \in 1..width[i]
       PROVE  union'[RowStart(i) + k] = picked'[layer][TokenAt(i, k)]
  <2>1. RowStart(i) + k \in 1..Len(UnionInput) /\ UnionInput[RowStart(i) + k].token = TokenAt(i, k)
    BY <1>5 DEF InUnion
  <2> QED  BY <1>2, <1>7, <2>1
<1>11. union' # <<>>
  <2>1. Len(union') = Len(UnionInput)
    BY <1>5, <1>9, ListSeq
  <2> QED  BY <1>5, <2>1
<1>12. IsList(picked, Routed)'
  BY <1>1, <1>7, <1>11 DEF Routed, IsList
<1>13. HiddenOK'
  <2>1. IsList(hidden, Len(roster))' /\ \A i \in Indices : IsList(hidden[i], width[i])'
    BY <1>1, <1>3 DEF Results, HiddenOK, IsList
  <2>2. ASSUME NEW i \in Indices, NEW k \in 1..width[i]
        PROVE  Begins(hidden[i][k].sums, SumsAlone(TokenAt(i, k)), layer - 1)'
    <3> DEFINE f == hidden[i][k].sums  g == SumsAlone(TokenAt(i, k))  h == SumsAlone(TokenAt(i, k))'
    <3>1. Begins(f, g, layer - 1)
      BY <1>3 DEF Results, HiddenOK
    <3>2. \A l \in 1..(layer - 1) : h[l] = g[l]
      BY <1>4, <1>6, <1>7 DEF SumsAlone
    <3> HIDE DEF f, g, h
    <3>3. Begins(f, h, layer - 1)
      BY <3>1, <3>2 DEF Begins
    <3> QED  BY <1>1, <3>3 DEF Begins, IsList, f, h
  <2> QED  BY <1>1, <1>4, <2>1, <2>2 DEF HiddenOK
<1>14. RoutesOK'
  <2>1. IsList(routes, Len(roster))'
    BY <1>1, <1>3 DEF Results, RoutesOK, IsList
  <2>2. ASSUME NEW i \in Indices PROVE Begins(routes[i], RoutesAlone(i), layer - 1)'
    <3> DEFINE f == routes[i]  g == RoutesAlone(i)  h == RoutesAlone(i)'
    <3>1. Begins(f, g, layer - 1)
      BY <1>3 DEF Results, RoutesOK
    <3>2. \A l \in 1..(layer - 1) : h[l] = g[l]
      BY <1>4, <1>6, <1>7
    <3> HIDE DEF f, g, h
    <3>3. Begins(f, h, layer - 1)
      BY <3>1, <3>2 DEF Begins
    <3> QED  BY <1>1, <3>3 DEF Begins, IsList, f, h
  <2> QED  BY <1>4, <2>1, <2>2 DEF RoutesOK
<1>15. UnionOK'
  BY <1>1, <1>4, <1>8, <1>9, <1>10 DEF UnionOK, IsList
<1> QED  BY <1>3, <1>4, <1>12, <1>13, <1>14, <1>15 DEF SharedInv, Results

\* Each position gets the sum of its own experts in canonical order, and each
\* row its own routes.
LEMMA ReduceShares == ASSUME SharedInv, ReduceLayer PROVE SharedInv'
<1>1. /\ UNCHANGED <<cache, roster, width, picked>> /\ union # <<>>
      /\ layer' = layer + 1 /\ union' = <<>>
      /\ hidden' = [i \in Indices |-> [k \in 1..width[i] |->
                      [hidden[i][k] EXCEPT !.sums = Append(@, Reduced(RowStart(i) + k))]]]
      /\ routes' = [i \in Indices |->
                      Append(routes[i], SubSeq(union, RowStart(i) + 1, RowStart(i) + width[i]))]
  BY DEF ReduceLayer
<1>2. Running /\ Inv' /\ Facts /\ Results
  BY <1>1, ReduceInv, CallFacts DEF SharedInv, Inv
<1>3. layer \in SparseLayers /\ layer \in 1..Layers /\ Routed = layer
  BY <1>1, <1>2 DEF Routed, Facts
<1>4. /\ Running' /\ Indices' = Indices /\ \A i, k : TokenAt(i, k)' = TokenAt(i, k)
      /\ \A l \in 1..Layers : /\ \A t : SumsAlone(t)'[l] = SumsAlone(t)[l]
                              /\ \A i : RoutesAlone(i)'[l] = RoutesAlone(i)[l]
  BY <1>1, <1>2, RowsTold
<1>5. Len(UnionInput) \in Nat \ {0} /\ \A i \in Indices : InUnion(i)
  BY <1>2, RowsInUnion DEF Results
<1>6. /\ IsList(union, Len(UnionInput)) /\ DOMAIN union = 1..Len(UnionInput)
      /\ \A j \in 1..Len(UnionInput) : union[j] \in Selections
      /\ \A i \in Indices : \A k \in 1..width[i] :
           union[RowStart(i) + k] = picked[layer][TokenAt(i, k)]
  BY <1>1, <1>2, <1>5, ListSeq DEF Results, UnionOK
<1>7. /\ UnionExperts \subseteq Nat /\ IsFiniteSet(UnionExperts)
      /\ \A j \in 1..Len(UnionInput) : union[j] \in SUBSET UnionExperts
  <2>1. UnionExperts = UNION {union[j] : j \in 1..Len(UnionInput)}
    BY <1>6 DEF UnionExperts, ToSet
  <2>2. \A j \in 1..Len(UnionInput) : union[j] \in SUBSET Expert
    BY <1>6 DEF Selections
  <2>3. UnionExperts \in SUBSET Expert /\ \A j \in 1..Len(UnionInput) : union[j] \in SUBSET UnionExperts
    BY <2>1, <2>2
  <2> QED  BY <2>3, GeometryAssumption, FS_Subset
<1> DEFINE sum == [i \in Indices |-> [k \in 1..width[i] |-> Reduced(RowStart(i) + k)]]
           told == [i \in Indices |-> SubSeq(union, RowStart(i) + 1, RowStart(i) + width[i])]
<1>8. ASSUME NEW i \in Indices, NEW k \in 1..width[i]
      PROVE  sum[i][k] = SumsAlone(TokenAt(i, k))'[layer]
  <2> DEFINE j == RowStart(i) + k  t == TokenAt(i, k)
  <2>1. j \in 1..Len(UnionInput) /\ UnionInput[j].token = t
    BY <1>5 DEF InUnion
  <2>2. union[j] = picked[layer][t]
    BY <1>6
  <2>3. Added(Ascending(UnionExperts), union[j]) = Ascending(union[j])
    <3> HIDE DEF j
    <3> QED  BY <1>7, <2>1, AddedAscends
  <2>4. Reduced(j) = [of |-> t, experts |-> Ascending(picked[layer][t])]
    <3> HIDE DEF j, t
    <3> QED  BY <2>1, <2>2, <2>3 DEF Reduced
  <2>5. SumsAlone(t)[layer] = [of |-> t, experts |-> Ascending(picked[layer][t])]
    BY <1>3 DEF SumsAlone, IsolatedSum
  <2>6. SumsAlone(TokenAt(i, k))'[layer] = SumsAlone(t)[layer]
    <3>1. SumsAlone(TokenAt(i, k))' = SumsAlone(t)
      BY <1>1, <1>4 DEF SumsAlone, IsolatedSum
    <3> QED  BY <3>1
  <2> QED  BY <2>4, <2>5, <2>6
<1>9. ASSUME NEW i \in Indices PROVE told[i] = RoutesAlone(i)'[layer]
  <2> DEFINE a == RowStart(i)  w == width[i]  part == SubSeq(union, a + 1, a + w)
  <2>1. a \in Nat /\ w \in Nat
    BY <1>2, <1>5 DEF InUnion, Facts
  <2>2. IsCut(part, union, a + 1, w)
    <3> HIDE DEF a, w
    <3>1. a + 1 \in Int /\ (a + 1) + w - 1 = a + w
      BY <2>1
    <3>2. IsCut(SubSeq(union, a + 1, (a + 1) + w - 1), union, a + 1, w)
      BY <2>1, <3>1, ListCut
    <3> QED  BY <3>1, <3>2
  <2>3. ASSUME NEW k \in 1..w PROVE part[k] = picked[layer][TokenAt(i, k)]
    <3>1. (a + 1) + k - 1 = a + k
      BY <2>1
    <3>2. part[k] = union[(a + 1) + k - 1]
      <4> HIDE DEF part, a, w
      <4> QED  BY <2>2 DEF IsCut
    <3>3. union[a + k] = picked[layer][TokenAt(i, k)]
      BY <1>6
    <3> HIDE DEF part, a
    <3> QED  BY <3>1, <3>2, <3>3
  <2>4. part = [k \in 1..w |-> picked[layer][TokenAt(i, k)]]
    <3>1. IsList(part, w)
      <4> HIDE DEF part, a, w
      <4> QED  BY <2>2 DEF IsCut
    <3> HIDE DEF part, a, w
    <3> QED  BY <2>3, <3>1 DEF IsList
  <2>5. RoutesAlone(i)[layer] = [k \in 1..w |-> picked[layer][TokenAt(i, k)]]
    BY <1>3 DEF RoutesAlone
  <2>6. RoutesAlone(i)'[layer] = RoutesAlone(i)[layer] /\ told[i] = part
    BY <1>3, <1>4
  <2> QED  BY <2>4, <2>5, <2>6
<1>10. /\ hidden' = [i \in Indices |-> [k \in 1..width[i] |->
                     [hidden[i][k] EXCEPT !.sums = Append(@, sum[i][k])]]]
       /\ routes' = [i \in Indices |-> Append(routes[i], told[i])]
  BY <1>1
<1>11. IsList(picked', layer) /\ \A l \in 1..(layer - 1) : picked'[l] = picked[l]
  BY <1>1, <1>2, <1>3 DEF Results
<1> HIDE DEF sum, told
<1>12. LayerEnds(sum, told)
  BY <1>1, <1>3, <1>8, <1>9, <1>10, <1>11 DEF LayerEnds
<1>13. Results'
  BY <1>2, <1>12, LayerShares
<1> QED  BY <1>2, <1>4, <1>13 DEF SharedInv

\* Steps that leave the rows' results alone.
LEMMA OthersShare ==
    ASSUME SharedInv, Inv',
           UNCHANGED <<cache, roster, width, hidden, layer, union, routes, picked>>
    PROVE  SharedInv'
<1>1. (Running' <=> Running) /\ Indices' = Indices /\ \A i : Before(i)' = Before(i)
  BY RowsStay
<1>2. \A i, k : TokenAt(i, k)' = TokenAt(i, k)
  BY <1>1 DEF TokenAt
<1>3. /\ \A t : SumsAlone(t)' = SumsAlone(t)
      /\ \A i : RoutesAlone(i)' = RoutesAlone(i)
      /\ UnionInput' = UnionInput /\ \A i : RowStart(i)' = RowStart(i)
      /\ Routed' = Routed
  <2>1. \A l, t : IsolatedSum(l, t)' = IsolatedSum(l, t)
    BY DEF IsolatedSum, Ascending
  <2>2. \A t : SumsAlone(t)' = SumsAlone(t)
    BY <2>1 DEF SumsAlone
  <2>3. \A i : RoutesAlone(i)' = RoutesAlone(i)
    BY <1>2 DEF RoutesAlone
  <2>4. UnionInput' = UnionInput /\ (\A i : RowStart(i)' = RowStart(i)) /\ Routed' = Routed
    BY DEF UnionInput, RowStart, Routed
  <2> QED  BY <2>2, <2>3, <2>4
<1>4. Results => Results'
  <2> SUFFICES ASSUME Results PROVE Results'
    OBVIOUS
  <2>1. IsList(picked, Routed)'
    BY <1>3 DEF Results, IsList
  <2>2. HiddenOK'
    <3>1. IsList(hidden, Len(roster))'
      BY DEF Results, HiddenOK, IsList
    <3>2. ASSUME NEW i \in Indices
          PROVE  /\ IsList(hidden[i], width[i])'
                 /\ \A k \in 1..width[i] :
                      Begins(hidden[i][k].sums, SumsAlone(TokenAt(i, k)), layer - 1)'
      <4>1. IsList(hidden[i], width[i])'
        BY DEF Results, HiddenOK, IsList
      <4>2. ASSUME NEW k \in 1..width[i]
            PROVE  Begins(hidden[i][k].sums, SumsAlone(TokenAt(i, k)), layer - 1)'
        <5> DEFINE t == TokenAt(i, k)
        <5>1. Begins(hidden[i][k].sums, SumsAlone(t), layer - 1)
          BY DEF Results, HiddenOK
        <5>2. SumsAlone(TokenAt(i, k))' = SumsAlone(t)
          BY <1>2, <1>3 DEF SumsAlone
        <5> QED  BY <5>1, <5>2 DEF Begins, IsList
      <4> QED  BY <4>1, <4>2
    <3> QED  BY <1>1, <3>1, <3>2 DEF HiddenOK
  <2>3. RoutesOK'
    BY <1>1, <1>3 DEF Results, RoutesOK, Begins, IsList
  <2>4. UnionOK'
    BY <1>1, <1>2, <1>3 DEF Results, UnionOK, IsList
  <2> QED  BY <2>1, <2>2, <2>3, <2>4 DEF Results
<1> QED  BY <1>1, <1>4 DEF SharedInv

\* Each step keeps it.
LEMMA SharedNext == SharedInv /\ [Next]_vars => SharedInv'
<1> SUFFICES ASSUME SharedInv, [Next]_vars PROVE SharedInv'
  OBVIOUS
<1>0. Inv'
  BY InvNext DEF SharedInv
<1>1. ASSUME NEW rs \in Rosters, NEW ws \in [DOMAIN rs -> Widths], Start(rs, ws) PROVE SharedInv'
  BY <1>1, StartShares
<1>2. CASE FireToken \/ (\E e \in Expert : GroupReady(e)) \/ UNCHANGED vars
  <2>1. UNCHANGED <<cache, roster, width, hidden, layer, union, routes, picked>>
    BY <1>2 DEF FireToken, GroupReady, vars, call
  <2>2. QED  BY <1>0, <2>1, OthersShare
<1>3. CASE DenseLayer
  BY <1>3, DenseShares
<1>4. CASE RouteLayer
  BY <1>4, RouteShares
<1>5. CASE ReduceLayer
  BY <1>5, ReduceShares
<1>6. CASE Finish \/ CallFails
  <2>1. roster' = <<>> /\ picked' = <<>>
    BY <1>6 DEF Finish, CallFails, CallEnds
  <2> QED  BY <1>0, <2>1 DEF SharedInv, Running
<1> QED  BY <1>1, <1>2, <1>3, <1>4, <1>5, <1>6 DEF Next

\* When all layers are done, the rows have all they would have alone.
LEMMA SharedIsIsolated == SharedInv => RowsAsIsolated
<1> SUFFICES ASSUME SharedInv, Returning, NEW i \in Indices PROVE Output(i) = Isolated(i)
  BY DEF RowsAsIsolated
<1>1. Running /\ layer - 1 = Layers
  <2>1. Running /\ layer = Layers + 1 /\ Layers \in Nat
    BY GeometryAssumption DEF Returning
  <2> QED  BY <2>1
<1>2. Facts /\ Results
  BY <1>1, CallFacts DEF SharedInv
<1>3. ASSUME NEW k \in 1..width[i]
      PROVE  hidden[i][k] = [token |-> TokenAt(i, k), sums |-> SumsAlone(TokenAt(i, k))]
  <2>1. hidden[i][k] = [token |-> TokenAt(i, k), sums |-> hidden[i][k].sums]
    BY <1>2 DEF Facts
  <2>2. Begins(hidden[i][k].sums, SumsAlone(TokenAt(i, k)), Layers)
    BY <1>1, <1>2 DEF Results, HiddenOK
  <2>3. hidden[i][k].sums = SumsAlone(TokenAt(i, k))
    <3> DEFINE f == hidden[i][k].sums  t == TokenAt(i, k)
    <3> HIDE DEF f, t
    <3>1. Begins(f, SumsAlone(t), Layers)
      BY <2>2 DEF f, t
    <3>2. f = SumsAlone(t)
      BY <3>1 DEF Begins, IsList, SumsAlone
    <3> QED  BY <3>2 DEF f, t
  <2> QED  BY <2>1, <2>3
<1>4. hidden[i] = [k \in 1..width[i] |-> [token |-> TokenAt(i, k), sums |-> SumsAlone(TokenAt(i, k))]]
  <2>1. IsList(hidden[i], width[i])
    BY <1>2 DEF Results, HiddenOK
  <2> QED  BY <1>3, <2>1 DEF IsList
<1>5. routes[i] = RoutesAlone(i)
  <2>1. Begins(routes[i], RoutesAlone(i), Layers)
    BY <1>1, <1>2 DEF Results, RoutesOK
  <2> QED  BY <2>1 DEF Begins, IsList, RoutesAlone
<1> QED  BY <1>4, <1>5 DEF Output, Isolated, TokenAt, Before, SumsAlone, RoutesAlone

\* What each row of a running call has so far is what it would have on its own,
\* for any neighbours, routing and order of arrival.
THEOREM SharedCorrect == Spec => []SharedInv
<1>1. Init => SharedInv
  BY InvInit DEF Init, NoCall, SharedInv, Running
<1> QED  BY <1>1, SharedNext, PTL DEF Spec

\* Sharing a step changes nothing for a row: not the experts that computed its
\* positions, not the order of their sums, not the routes it is told.
THEOREM RowsAreIsolated == Spec => []RowsAsIsolated
BY SharedCorrect, SharedIsIsolated, PTL

=============================================================================
