----------------------------- MODULE StreamingBatch -----------------------------
(***************************************************************************)
(* forward_batch of the streaming models (src/olmoe/streaming/batch.rs and *)
(* the same function of qwen3_moe and qwen3_5_moe) together with the       *)
(* routed layer it calls (streaming/mlp.rs): sessions of different widths  *)
(* and positions run through the layers as one batch, their positions are  *)
(* routed as one union, every expert of the union is staged once and       *)
(* computed when its weights arrive, and the caches of all rows are        *)
(* replaced together at the end.                                           *)
(*                                                                         *)
(* Numbers are symbolic.  A hidden state is the token it belongs to and,   *)
(* per layer, the experts whose outputs were added, in the order of the    *)
(* additions, as floating-point sums depend on it.  A cache layer is the   *)
(* sequence of tokens it has seen.  The router is external: it may select  *)
(* any TopK experts for a position.                                        *)
(***************************************************************************)
EXTENDS Naturals, Sequences, FiniteSets, SequencesExt

CONSTANTS Row,             \* sessions, each with a cache of its own
          Layers,          \* number of decoder layers
          SparseLayers,    \* the layers with routed experts (all but in qwen3_moe)
          Expert,          \* experts of a layer, numbers: canonical order is <
          TopK,            \* num_experts_per_tok
          MaxPositions,    \* max_position_embeddings
          MaxRows,         \* limits.max_concurrent_requests
          MaxInput,        \* limits.max_input_bytes, in tokens
          Widths           \* bound: tokens one row may feed in one step

ASSUME GeometryAssumption ==
    /\ Layers \in Nat \ {0} /\ SparseLayers \subseteq 1..Layers
    /\ Expert \subseteq Nat /\ IsFiniteSet(Expert) /\ TopK \in 1..Cardinality(Expert)
    /\ MaxPositions \in Nat /\ MaxRows \in Nat /\ MaxInput \in Nat
    /\ Widths \subseteq Nat \ {0}

VARIABLES cache,      \* [Row -> position and layers]: the callers' caches
          roster,     \* the rows of the running call, <<>> when there is none
          width,      \* tokens each of them feeds
          work,       \* next_caches: the copies the call advances
          hidden,     \* per row, the hidden states of its positions
          layer,      \* the layer to compute next, or being computed
          union,      \* expert selections of the union's positions while the
                      \* groups of the layer are staged, <<>> otherwise
          filled,     \* experts whose contribution slot is filled
          routes,     \* per row, the selections of the layers done
          cancelled,  \* the call's cancellation token fired
          picked,     \* history: per layer, what the router chose for each token
          arrived     \* history: the experts in the order their groups arrived

call == <<roster, width, work, hidden, layer, union, filled, routes, picked, arrived>>
vars == <<cache, cancelled, call>>

-----------------------------------------------------------------------------
Indices == 1..Len(roster)
Running == roster # <<>>

NewCache == [position |-> 0, layers |-> [l \in 1..Layers |-> <<>>]]

\* Experts in canonical order, and the selections a router can make.
Ascending(experts) ==
    [k \in 1..Cardinality(experts) |->
        CHOOSE e \in experts : Cardinality({f \in experts : f < e}) = k - 1]
Selections == {experts \in SUBSET Expert : Cardinality(experts) = TopK}

\* One hidden state, of the n-th token of row r.
Embedded(r, n) == [token |-> <<r, n>>, sums |-> <<>>]

NoCall ==
    /\ roster = <<>> /\ width = <<>> /\ work = <<>> /\ hidden = <<>>
    /\ layer = 0 /\ union = <<>> /\ filled = {} /\ routes = <<>>
    /\ picked = <<>> /\ arrived = <<>>
    /\ cancelled = FALSE

Init == cache = [r \in Row |-> NewCache] /\ NoCall

\* The locals of the call are gone.
CallEnds ==
    /\ roster' = <<>> /\ width' = <<>> /\ work' = <<>> /\ hidden' = <<>>
    /\ layer' = 0 /\ union' = <<>> /\ filled' = {} /\ routes' = <<>>
    /\ picked' = <<>> /\ arrived' = <<>>
    /\ cancelled' = FALSE

-----------------------------------------------------------------------------
Rosters == {rs \in UNION {[1..n -> Row] : n \in 1..Cardinality(Row)} : IsInjective(rs)}

\* validate_step of every row and the limits of the batch as a whole.
Fits(rs, ws) ==
    /\ Len(rs) <= MaxRows
    /\ \A i \in DOMAIN rs : cache[rs[i]].position + ws[i] <= MaxPositions
    /\ FoldSeq(+, 0, ws) <= MaxInput

\* The call passes validation and copies the caches.  A call that does not
\* returns its error before it has touched anything.
Start(rs, ws) ==
    /\ ~Running
    /\ Fits(rs, ws)
    /\ roster' = rs /\ width' = ws
    /\ work' = [i \in DOMAIN rs |-> cache[rs[i]]]
    /\ hidden' = [i \in DOMAIN rs |->
                    [k \in 1..ws[i] |-> Embedded(rs[i], cache[rs[i]].position + k)]]
    /\ layer' = 1
    /\ routes' = [i \in DOMAIN rs |-> <<>>]
    /\ UNCHANGED <<cache, union, filled, cancelled, picked, arrived>>

FireToken ==
    /\ Running /\ ~cancelled
    /\ cancelled' = TRUE
    /\ UNCHANGED <<cache, call>>

\* forward_attention: the row's cache of this layer takes in its tokens, if it
\* holds exactly those before them.
CanAttend == \A i \in Indices : Len(work[i].layers[layer]) = work[i].position

Attended(i) ==
    [work[i] EXCEPT !.layers[layer] = @ \o [k \in 1..width[i] |-> hidden[i][k].token]]

\* A layer of qwen3_moe without routed experts: the rows' own dense MLP.
DenseLayer ==
    /\ Running /\ ~cancelled
    /\ layer \in (1..Layers) \ SparseLayers
    /\ CanAttend
    /\ work' = [i \in Indices |-> Attended(i)]
    /\ hidden' = [i \in Indices |-> [k \in 1..width[i] |->
                    [hidden[i][k] EXCEPT !.sums =
                        Append(@, [of |-> hidden[i][k].token, experts |-> <<>>])]]]
    /\ routes' = [i \in Indices |-> Append(routes[i], <<>>)]
    /\ picked' = Append(picked, <<>>)
    /\ layer' = layer + 1
    /\ UNCHANGED <<cache, cancelled, roster, width, union, filled, arrived>>

\* The rows' positions, one after the other, are the router's input.
UnionInput == FlattenSeq(hidden)

\* Attention of every row, routing of the union; staging of its experts begins.
RouteLayer ==
    /\ Running /\ ~cancelled
    /\ layer \in SparseLayers /\ union = <<>>
    /\ CanAttend
    /\ work' = [i \in Indices |-> Attended(i)]
    /\ \E choice \in [{UnionInput[j].token : j \in 1..Len(UnionInput)} -> Selections] :
         /\ union' = [j \in 1..Len(UnionInput) |-> choice[UnionInput[j].token]]
         /\ picked' = Append(picked, choice)
    /\ UNCHANGED <<cache, cancelled, roster, width, hidden, layer, filled, routes, arrived>>

\* routes.experts(): each expert of the union once, in ascending order.
UnionExperts == UNION ToSet(union)

\* compute_group: a group's weights are there, in whatever order the storage
\* delivers them.  (One delivered a second time is an error: CallFails.)
GroupReady(e) ==
    /\ union # <<>> /\ ~cancelled
    /\ e \in UnionExperts \ filled
    /\ filled' = filled \cup {e}
    /\ arrived' = Append(arrived, e)
    /\ UNCHANGED <<cache, cancelled, roster, width, work, hidden, layer, union,
                   routes, picked>>

\* index_add, slot by slot: what is added to a position with this selection.
Added(slots, selection) ==
    LET sum[n \in 0..Len(slots)] ==
            IF n = 0 THEN <<>>
            ELSE IF slots[n] \in selection THEN Append(sum[n - 1], slots[n])
            ELSE sum[n - 1]
    IN  sum[Len(slots)]

ReducedAsArrived(j) ==
    [of |-> UnionInput[j].token, experts |-> Added(arrived, union[j])]

\* The output at position j of the union: the slots are in canonical order.
Reduced(j) ==
    [of |-> UnionInput[j].token, experts |-> Added(Ascending(UnionExperts), union[j])]

\* Positions of the rows before row i.
RowStart(i) == Len(FlattenSeq(SubSeq(hidden, 1, i - 1)))

\* All groups were delivered and every slot is filled; the union's output and
\* its routes are cut back into rows.
ReduceLayer ==
    /\ union # <<>> /\ ~cancelled
    /\ filled = UnionExperts
    /\ hidden' = [i \in Indices |-> [k \in 1..width[i] |->
                    [hidden[i][k] EXCEPT !.sums = Append(@, Reduced(RowStart(i) + k))]]]
    /\ routes' = [i \in Indices |->
                    Append(routes[i], SubSeq(union, RowStart(i) + 1, RowStart(i) + width[i]))]
    /\ layer' = layer + 1
    /\ union' = <<>> /\ filled' = {} /\ arrived' = <<>>
    /\ UNCHANGED <<cache, cancelled, roster, width, work, picked>>

Returning == Running /\ layer = Layers + 1

\* What row i gets back: logits are a function of its hidden states.
Output(i) == [hidden |-> hidden[i], routes |-> routes[i]]

CommittedByOne(i) == [work[i] EXCEPT !.position = @ + 1]

Committed(i) == [work[i] EXCEPT !.position = @ + width[i]]

\* All layers are done and the call is not cancelled: the rows' caches are
\* replaced together and the outputs returned.
Finish ==
    /\ Returning /\ ~cancelled
    /\ cache' = [r \in Row |-> IF \E i \in Indices : roster[i] = r
                               THEN Committed(CHOOSE i \in Indices : roster[i] = r)
                               ELSE cache[r]]
    /\ CallEnds

CallFailsInPlace ==
    /\ Running
    /\ cache' = [r \in Row |-> IF \E i \in Indices : roster[i] = r
                               THEN work[CHOOSE i \in Indices : roster[i] = r]
                               ELSE cache[r]]
    /\ CallEnds

\* Any error on the way (reading a group, a group delivered twice or never, a
\* tensor operation, a cancellation check), or the future is dropped at one of
\* its awaits: everything the call computed is gone.
CallFails ==
    /\ Running
    /\ CallEnds
    /\ UNCHANGED cache

Next ==
    \/ \E rs \in Rosters : \E ws \in [DOMAIN rs -> Widths] : Start(rs, ws)
    \/ FireToken
    \/ DenseLayer
    \/ RouteLayer
    \/ \E e \in Expert : GroupReady(e)
    \/ ReduceLayer
    \/ Finish
    \/ CallFails

Spec == Init /\ [][Next]_vars

-----------------------------------------------------------------------------
(* Properties *)

Tokens(r, n) == [k \in 1..n |-> <<r, k>>]

\* After any history of successful, failed, cancelled and dropped calls every
\* layer of a session's cache holds exactly the tokens its position counts, and
\* they are its own: a later step continues every layer at the same place.
CachesCoherent ==
    \A r \in Row, l \in 1..Layers : cache[r].layers[l] = Tokens(r, cache[r].position)

\* A call changes the caches of all of its rows or of none, only when every
\* layer was computed, and never after its cancellation fired.
AllRowsOrNone ==
    [][cache' # cache =>
        /\ Returning /\ ~cancelled
        /\ \A i \in Indices :
             cache'[roster[i]].position = cache[roster[i]].position + width[i]
        /\ \A r \in Row : (\A i \in Indices : roster[i] # r) => cache'[r] = cache[r]]_vars

\* What row i would compute on its own, for the same choices of the router.
IsolatedSum(l, t) ==
    [of |-> t, experts |-> IF l \in SparseLayers THEN Ascending(picked[l][t]) ELSE <<>>]

Isolated(i) ==
    LET token(k) == <<roster[i], cache[roster[i]].position + k>> IN
    [hidden |-> [k \in 1..width[i] |->
                   [token |-> token(k),
                    sums  |-> [l \in 1..Layers |-> IsolatedSum(l, token(k))]]],
     routes |-> [l \in 1..Layers |->
                   IF l \in SparseLayers THEN [k \in 1..width[i] |-> picked[l][token(k)]]
                   ELSE <<>>]]

\* Sharing a step with other rows changes nothing for a row: not the experts
\* that computed its positions, not the order their outputs were added in
\* (sums of floats differ with it), not the routes it is told, whatever the
\* order the groups were read in.
RowsAsIsolated == Returning => \A i \in Indices : Output(i) = Isolated(i)

=============================================================================
