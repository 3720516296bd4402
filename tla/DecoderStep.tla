------------------------------- MODULE DecoderStep -------------------------------
(***************************************************************************)
(* What one forward pass computes and leaves in the caches, in the three   *)
(* families: rotary attention with a key/value cache and an optional       *)
(* sliding window (src/decoder), the gated delta net with its convolution  *)
(* and recurrent states (src/qwen3_5_moe), the routed, dense and shared    *)
(* feed-forward layers (src/sparse, */mlp.rs), resident and streaming      *)
(* `forward', `forward_batch' and the greedy generation loop.              *)
(*                                                                         *)
(* Numbers are symbolic: a hidden state is the list of everything that was *)
(* added to it, a key is the hidden state it was projected from with its   *)
(* rotary position, a recurrent state is the list of its updates.  Two     *)
(* values are equal exactly when the code computes them from the same      *)
(* operands in the same order.  Reading and staging experts, and the       *)
(* limits of a batch, are StreamingBatch's.                                *)
(***************************************************************************)
EXTENDS Integers, Sequences, FiniteSets, SequencesExt

CONSTANTS Models,        \* the models: kinds, sparse, shared, window, kernel,
                         \* topK, normalize, gate and vocabulary (see ModelType)
          Session,       \* callers' sessions, each with a cache of its own
          Local,         \* the cache local to generate_greedy
          Batches,       \* bound: sequences one session decodes at once
          Texts,         \* bound: what the sessions feed, [Session \X Batches -> tokens]
          Widths,        \* bound: tokens fed by one step
          MaxPositions,  \* max_position_embeddings
          Budgets,       \* bound: max_new_tokens of a generation
          NaN            \* a router probability softmax refuses to compute

Kinds == {"full", "linear"}
Experts(m) == DOMAIN m.gate[0]

ModelType(m) ==
    /\ m.kinds \in Seq(Kinds) \ {<<>>} /\ m.sparse \subseteq DOMAIN m.kinds
    /\ m.shared \in BOOLEAN          \* qwen3_5_moe adds a shared expert
    /\ m.window \in Nat              \* sliding_window, 0 for None
    /\ m.kernel \in Nat \ {0}        \* linear_conv_kernel_dim
    /\ m.topK \in 1..Cardinality(Experts(m)) /\ m.normalize \in BOOLEAN
    /\ m.vocab \in Nat \ {0}
    /\ Experts(m) \subseteq Nat /\ IsFiniteSet(Experts(m))
    /\ DOMAIN m.gate = 0..(m.vocab - 1)  \* router probabilities of a token
    /\ \A t \in DOMAIN m.gate : m.gate[t] \in [Experts(m) -> Int \cup {NaN}]

ASSUME DecoderAssumption ==
    /\ \A m \in Models : ModelType(m)
    /\ Local \notin Session /\ IsFiniteSet(Session)
    /\ MaxPositions \in Nat /\ Widths \subseteq 1..MaxPositions /\ Budgets \subseteq Nat
    /\ Batches \subseteq Nat \ {0} /\ 1 \in Batches
    \* What is fed fills the positions and is made of tokens.
    /\ \A t \in Texts, s \in Session, n \in Batches, m \in Models : \A b \in 1..n :
         t[<<s, b>>] \in Seq(0..(m.vocab - 1)) /\ Len(t[<<s, b>>]) >= MaxPositions

VARIABLES model,     \* the model of this run
          text,      \* what the sessions are going to feed
          cache,     \* [Session \cup {Local} -> cache]
          fed,       \* history: [session -> per batch member, the tokens it took]
          lanes,     \* sequences of the running step: <<session, batch member>>
          input,     \* their tokens
          work,      \* next_cache(s): the copies the step advances
          hidden,    \* per lane, the hidden states of its tokens
          routes,    \* per lane, the routes of the layers done
          layer,     \* the layer to compute next, 0 when no step runs
          greedy,    \* the generation loop's locals, NoLoop outside of it
          result     \* the last value generate_greedy returned, with its request

step == <<lanes, input, work, hidden, routes, layer>>
vars == <<model, text, cache, fed, step, greedy, result>>

Caches == Session \cup {Local}
Layers == Len(model.kinds)
Running == layer > 0
NoLoop == [prompt |-> <<>>, left |-> 0, eos |-> {}, generated |-> <<>>, budget |-> 0]

-----------------------------------------------------------------------------
(* Caches.  A layer's state is absent (<<>>) or has one entry per batch     *)
(* member: the keys it holds, or a convolution history and updates.         *)

NewCache == [position |-> 0, batch |-> 0, layers |-> [l \in 1..Layers |-> <<>>]]

\* validate_step: a non-empty step of the batch size the cache is bound to,
\* that ends within the positions of the model.
ValidStep(c, batch, width) ==
    /\ batch > 0 /\ width > 0
    /\ c.batch \in {0, batch}
    /\ c.position + width <= MaxPositions

CommitStep(c, batch, width) == [c EXCEPT !.batch = batch, !.position = @ + width]

-----------------------------------------------------------------------------
(* Attention.                                                               *)

\* RotaryEmbedding::apply at position + index (both counted from 0).
Rotated(position, index) == position + index - 1

Keys(states, position) ==
    [k \in DOMAIN states |-> [at |-> Rotated(position, k), of |-> states[k]]]

\* append_cache accepts an empty cache at position 0, or keys of this batch
\* size that end exactly at the position.
CanAppend(held, batch, position) ==
    IF held = <<>> THEN position = 0
    ELSE Len(held) = batch /\ \A b \in 1..batch : Len(held[b]) = position

Held(held, b) == IF held = <<>> THEN <<>> ELSE held[b]

\* causal_mask: the keys (from 0) a query may look at.
FirstKey(query) ==
    IF model.window = 0 \/ query + 1 < model.window THEN 0 ELSE query + 1 - model.window

\* Mutation: one new token needs no mask, whatever the window.
MaskedOnlyInPrefill(width) == width > 1
\* A step of one token is masked too when there is a window.
Masked(width) == width > 1 \/ model.window # 0

Visible(total, query, width) ==
    IF Masked(width) THEN FirstKey(query)..query ELSE 0..(total - 1)

\* What attention adds to each state of one sequence: the query, rotated, and
\* the keys (each with its value) the softmax runs over.
Attend(states, keys, position) ==
    [q \in DOMAIN states |->
       LET seen == Visible(Len(keys), position + q - 1, Len(states)) IN
       [at |-> Rotated(position, q),
        over |-> SubSeq(keys, 1 + CHOOSE k \in seen : \A j \in seen : k <= j,
                              1 + CHOOSE k \in seen : \A j \in seen : k >= j)]]

-----------------------------------------------------------------------------
(* Gated delta net.                                                         *)

Zero == <<>>
History == model.kernel - 1

ConvHistory(held, b) ==
    IF held = <<>> \/ History = 0 THEN [i \in 1..History |-> Zero] ELSE held[b].conv

Updates(held, b) == IF held = <<>> THEN <<>> ELSE held[b].updates

\* causal_convolution: every tap of the kernel over history and channels, and
\* the inputs kept for the next step.
Convolved(window, width) ==
    [n \in 1..width |-> [tap \in 1..model.kernel |-> window[n + tap - 1]]]

\* Mutation: the oldest inputs are kept.
KeptFromStart(window, width) == SubSeq(window, 1, History)
KeptHistory(window, width) == SubSeq(window, width + 1, width + History)

\* The recurrence over the tokens; each output reads the state after its own
\* update.
LinearState(states, held, b) ==
    LET window == ConvHistory(held, b) \o states IN
    [conv    |-> KeptHistory(window, Len(states)),
     updates |-> Updates(held, b) \o Convolved(window, Len(states))]

Delta(states, held, b) ==
    LET before == Len(Updates(held, b))
        after  == LinearState(states, held, b).updates
    IN  [n \in DOMAIN states |-> [query |-> after[before + n],
                                  state |-> SubSeq(after, 1, before + n)]]

-----------------------------------------------------------------------------
(* Feed-forward layers.                                                     *)

\* The members of a finite set, each at the place that the number of those
\* ahead of it gives.
InOrder(ahead) ==
    [k \in 1..Cardinality(DOMAIN ahead) |->
        CHOOSE e \in DOMAIN ahead : Cardinality(ahead[e]) = k - 1]

Ascending(experts) == InOrder([e \in experts |-> {f \in experts : f < e}])

\* A row softmax and normalization can work with.  Rows hold the probabilities
\* in f32, by which experts are ranked, not the logits: they are compared only,
\* and integers stand for them, equal ones also for logits that rounding merges.
Routable(row) == \A e \in DOMAIN row : row[e] # NaN

Better(row, e, f) == row[e] > row[f] \/ (row[e] = row[f] /\ e < f)
Ranked(row) == InOrder([e \in DOMAIN row |-> {f \in DOMAIN row : Better(row, f, e)}])

\* select_routes: the top_k most probable experts, the lower index first among
\* equals, each with its probability as a share of the sum over `share'.
SelectRoutes(row) ==
    LET chosen == SubSeq(Ranked(row), 1, model.topK) IN
    [k \in DOMAIN chosen |->
       [expert |-> chosen[k],
        share  |-> IF model.normalize THEN ToSet(chosen) ELSE DOMAIN row]]

ExpertsOf(selection) == {r.expert : r \in ToSet(selection)}

\* Expert e is added to the positions it is assigned to.
AddExpert(sums, selections, e) ==
    [j \in DOMAIN selections |->
       IF e \in ExpertsOf(selections[j])
       THEN Append(sums[j], CHOOSE r \in ToSet(selections[j]) : r.expert = e) ELSE sums[j]]

\* The experts of the union, one after the other in ascending order.
RoutedSums(selections) ==
    LET experts == Ascending(UNION {ExpertsOf(selections[j]) : j \in DOMAIN selections})
        sums[n \in 0..Len(experts)] ==
            IF n = 0 THEN [j \in DOMAIN selections |-> <<>>]
            ELSE AddExpert(sums[n - 1], selections, experts[n])
    IN  sums[Len(experts)]

-----------------------------------------------------------------------------
(* One step: `forward' of one session, or `forward_batch' of several.       *)

Embed(tokens) == [k \in DOMAIN tokens |-> <<tokens[k]>>]
TokenOf(state) == state[1]

NoStep ==
    /\ lanes = <<>> /\ input = <<>> /\ work = <<>> /\ hidden = <<>>
    /\ routes = <<>> /\ layer = 0

Init ==
    /\ model \in Models /\ text \in Texts
    /\ cache = [s \in Caches |-> NewCache]
    /\ fed = [s \in Caches |-> <<>>]
    /\ greedy = NoLoop /\ result = <<>>
    /\ NoStep

StepEnds ==
    /\ lanes' = <<>> /\ input' = <<>> /\ work' = <<>> /\ hidden' = <<>>
    /\ routes' = <<>> /\ layer' = 0

BatchOf(s) == Cardinality({i \in DOMAIN lanes : lanes[i][1] = s})
Stepping == {lanes[i][1] : i \in DOMAIN lanes}
WidthOf(s) == Len(input[CHOOSE i \in DOMAIN lanes : lanes[i][1] = s])

StartLanes(ls, tokens) ==
    /\ lanes' = ls /\ input' = tokens
    /\ work' = [s \in {ls[i][1] : i \in DOMAIN ls} |-> cache[s]]
    /\ hidden' = [i \in DOMAIN ls |-> Embed(tokens[i])]
    /\ routes' = [i \in DOMAIN ls |-> <<>>]
    /\ layer' = 1 /\ result' = <<>>

\* The next w tokens the caller has for member b of session s.
Fed(s, b) == IF fed[s] = <<>> THEN <<>> ELSE fed[s][b]
Upcoming(s, b, w) == SubSeq(text[<<s, b>>], Len(Fed(s, b)) + 1, Len(Fed(s, b)) + w)

\* forward of one session, resident or streaming, `batch' sequences at once.  A
\* step that is not valid returns its error and touches nothing.
Forward(s, batch, w) ==
    /\ ~Running /\ greedy = NoLoop
    /\ ValidStep(cache[s], batch, w)
    /\ StartLanes([b \in 1..batch |-> <<s, b>>], [b \in 1..batch |-> Upcoming(s, b, w)])
    /\ UNCHANGED <<model, text, cache, fed, greedy>>

\* Sessions that take part in a batch, each once.
Rosters == {ss \in UNION {[1..n -> Session] : n \in 1..Cardinality(Session)} : IsInjective(ss)}

\* forward_batch: rows of one sequence each, of their own widths.
ForwardBatch(ss, ws) ==
    /\ ~Running /\ greedy = NoLoop
    /\ \A i \in DOMAIN ss : ValidStep(cache[ss[i]], 1, ws[i])
    /\ StartLanes([i \in DOMAIN ss |-> <<ss[i], 1>>],
                  [i \in DOMAIN ss |-> Upcoming(ss[i], 1, ws[i])])
    /\ UNCHANGED <<model, text, cache, fed, greedy>>

\* The token mixer of the layer accepts the caches: append_cache, and the
\* shapes of the linear states.
CanMix ==
    \A s \in Stepping :
        LET held == work[s].layers[layer] IN
        IF model.kinds[layer] = "full" THEN CanAppend(held, BatchOf(s), work[s].position)
        ELSE held = <<>> \/ Len(held) = BatchOf(s)

\* What lane i's mixer adds to its states.
Mixed(i) ==
    LET s == lanes[i][1]  b == lanes[i][2]
        held == work[s].layers[layer]
        p == work[s].position
    IN  IF model.kinds[layer] = "full"
        THEN Attend(hidden[i], Held(held, b) \o Keys(hidden[i], p), p)
        ELSE Delta(hidden[i], held, b)

\* The layer's state of session s after the mixer.
MixedState(s) ==
    LET held == work[s].layers[layer]
        states(b) == hidden[CHOOSE i \in DOMAIN lanes : lanes[i] = <<s, b>>]
    IN  [b \in 1..BatchOf(s) |->
           IF model.kinds[layer] = "full"
           THEN Held(held, b) \o Keys(states(b), work[s].position)
           ELSE LinearState(states(b), held, b)]

MixedCaches == [s \in Stepping |-> [work[s] EXCEPT !.layers[layer] = MixedState(s)]]

\* Hidden states of lane i after adding what mixer and feed-forward computed.
Added(i, mlp) ==
    LET mixed == Mixed(i) IN
    [k \in DOMAIN hidden[i] |-> hidden[i][k] \o <<mixed[k], mlp[k]>>]

\* All positions of the step are routed as one union, in the order of the lanes.
UnionRows == FlattenSeq([i \in DOMAIN lanes |->
                 [k \in DOMAIN hidden[i] |-> model.gate[TokenOf(hidden[i][k])]]])

CanRoute == \A j \in DOMAIN UnionRows : Routable(UnionRows[j])

\* Positions of the lanes before lane i.
LaneStart(i) == Len(FlattenSeq(SubSeq(input, 1, i - 1)))

Cut(union, i) == SubSeq(union, LaneStart(i) + 1, LaneStart(i) + Len(input[i]))

\* A layer with routed experts (and, in qwen3_5_moe, the shared one).
RoutedLayer ==
    /\ Running /\ layer \in model.sparse
    /\ CanMix /\ CanRoute
    /\ LET selections == [j \in DOMAIN UnionRows |-> SelectRoutes(UnionRows[j])]
           sums       == RoutedSums(selections)
       IN  /\ hidden' = [i \in DOMAIN lanes |->
                  Added(i, [k \in DOMAIN hidden[i] |->
                              [routed |-> Cut(sums, i)[k], shared |-> model.shared]])]
           /\ routes' = [i \in DOMAIN lanes |-> Append(routes[i], Cut(selections, i))]
    /\ work' = MixedCaches
    /\ layer' = layer + 1
    /\ UNCHANGED <<model, text, cache, fed, lanes, input, greedy, result>>

\* A layer of qwen3_moe whose feed-forward is dense.
DenseLayer ==
    /\ Running /\ layer \in (1..Layers) \ model.sparse
    /\ CanMix
    /\ hidden' = [i \in DOMAIN lanes |-> Added(i, [k \in DOMAIN hidden[i] |-> "dense"])]
    /\ routes' = [i \in DOMAIN lanes |-> Append(routes[i], <<>>)]
    /\ work' = MixedCaches
    /\ layer' = layer + 1
    /\ UNCHANGED <<model, text, cache, fed, lanes, input, greedy, result>>

Returning == Running /\ layer = Layers + 1

Committed == [s \in Caches |->
    IF s \in Stepping THEN CommitStep(work[s], BatchOf(s), WidthOf(s)) ELSE cache[s]]

TookIn == [s \in Caches |->
    IF s \in Stepping
    THEN [b \in 1..BatchOf(s) |->
            Fed(s, b) \o input[CHOOSE i \in DOMAIN lanes : lanes[i] = <<s, b>>]]
    ELSE fed[s]]

\* The logits are out: the copies replace the caches.
StepReturns ==
    /\ Returning /\ greedy = NoLoop
    /\ cache' = Committed /\ fed' = TookIn
    /\ StepEnds
    /\ UNCHANGED <<model, text, greedy, result>>

\* The locals of generate_greedy go with it.
LoopEnds(caches, taken) ==
    /\ greedy' = NoLoop
    /\ cache' = [caches EXCEPT ![Local] = NewCache]
    /\ fed' = [taken EXCEPT ![Local] = <<>>]

\* An error of the step: routing, a tensor operation, reading an expert, a
\* cancellation, or the future is dropped.  The copies are gone, and so is a
\* generation loop.
StepFails ==
    /\ Running
    /\ LoopEnds(cache, fed)
    /\ StepEnds
    /\ UNCHANGED <<model, text, result>>

\* reset: the cache is as new, the batch size unbound.
Reset(s) ==
    /\ ~Running /\ greedy = NoLoop /\ cache[s].position > 0
    /\ cache' = [cache EXCEPT ![s] = NewCache]
    /\ fed' = [fed EXCEPT ![s] = <<>>]
    /\ result' = <<>>
    /\ UNCHANGED <<model, text, step, greedy>>

-----------------------------------------------------------------------------
(* generate_greedy.                                                         *)

\* How much of the past the last mixer looked at, and the token the language
\* model head prefers after this state: any function of it serves.
Seen(state) ==
    LET mixed == state[Len(state) - 1] IN
    IF "over" \in DOMAIN mixed THEN Len(mixed.over) ELSE Len(mixed.state)
ArgMax(state) == (TokenOf(state) + Seen(state)) % model.vocab

ValidGeneration(prompt, budget) ==
    /\ prompt # <<>> /\ ToSet(prompt) \subseteq 0..(model.vocab - 1)
    /\ Len(prompt) + budget <= MaxPositions

\* A call with its own cache.  Bound: only before the sessions have fed anything,
\* as it shares nothing with them.
Generate(prompt, budget, eos) ==
    /\ ~Running /\ greedy = NoLoop
    /\ \A s \in Session : fed[s] = <<>>
    /\ ValidGeneration(prompt, budget) /\ budget > 0
    /\ greedy' = [prompt |-> prompt, left |-> budget, eos |-> eos,
                  generated |-> <<>>, budget |-> budget]
    /\ result' = <<>>
    /\ UNCHANGED <<model, text, cache, fed, step>>

\* Mutation: the whole sequence goes into the cache again.
NextInputWhole == greedy.prompt \o greedy.generated
\* The prompt first, then the last token alone.
NextInput ==
    IF greedy.generated = <<>> THEN greedy.prompt ELSE <<Last(greedy.generated)>>

GenerateForward ==
    /\ ~Running /\ greedy # NoLoop
    /\ ValidStep(cache[Local], 1, Len(NextInput))
    /\ StartLanes(<<<<Local, 1>>>>, <<NextInput>>)
    /\ UNCHANGED <<model, text, cache, fed, greedy>>

\* The loop takes the next token from the last position and ends at an
\* end-of-sequence token or with its budget.
GenerateNext ==
    /\ Returning /\ greedy # NoLoop
    /\ LET token     == ArgMax(Last(hidden[1]))
           generated == Append(greedy.generated, token)
       IN  IF token \in greedy.eos \/ greedy.left = 1
           THEN /\ result' = <<greedy.prompt, greedy.budget, greedy.eos,
                               greedy.prompt \o generated>>
                /\ LoopEnds(Committed, TookIn)
           ELSE /\ greedy' = [greedy EXCEPT !.generated = generated, !.left = @ - 1]
                /\ cache' = Committed /\ fed' = TookIn
                /\ UNCHANGED result
    /\ StepEnds
    /\ UNCHANGED <<model, text>>

-----------------------------------------------------------------------------
Next ==
    \/ \E s \in Session, batch \in Batches, w \in Widths : Forward(s, batch, w)
    \/ \E ss \in Rosters : \E ws \in [DOMAIN ss -> Widths] : ForwardBatch(ss, ws)
    \/ RoutedLayer \/ DenseLayer \/ StepReturns \/ StepFails
    \/ \E s \in Session : Reset(s)
    \/ \E s \in Session, n \in Widths, budget \in Budgets :
         \E eos \in {{}} \cup {{t} : t \in 0..(model.vocab - 1)} :
           Generate(SubSeq(text[<<s, 1>>], 1, n), budget, eos)
    \/ GenerateForward \/ GenerateNext

Spec == Init /\ [][Next]_vars

-----------------------------------------------------------------------------
(* The reference: one token after the other, with nothing cached, masked or *)
(* chunked.                                                                 *)

TopExperts(row) ==
    CHOOSE top \in SUBSET DOMAIN row :
        /\ Cardinality(top) = model.topK
        /\ \A e \in top, f \in DOMAIN row \ top : row[e] > row[f] \/ (row[e] = row[f] /\ e < f)

ReferenceMlp(l, token) ==
    IF l \in model.sparse
    THEN LET row == model.gate[token]  top == TopExperts(row) IN
         [routed |-> [k \in 1..model.topK |->
                        [expert |-> Ascending(top)[k],
                         share  |-> IF model.normalize THEN top ELSE DOMAIN row]],
          shared |-> model.shared]
    ELSE "dense"

\* The mixer's contribution to position n, given the states below it.
ReferenceMixer(l, below, n) ==
    LET first == IF model.window = 0 \/ n <= model.window THEN 1 ELSE n - model.window + 1
        taps(k) == [tap \in 1..model.kernel |->
                      IF k + tap > model.kernel THEN below[k + tap - model.kernel] ELSE Zero]
    IN  IF model.kinds[l] = "full"
        THEN [at |-> n - 1,
              over |-> [k \in 1..(n - first + 1) |->
                          [at |-> first + k - 2, of |-> below[first + k - 1]]]]
        ELSE [query |-> taps(n), state |-> [k \in 1..n |-> taps(k)]]

\* Hidden states of a sequence of tokens before layer 1, ..., after the last.
Reference(tokens) ==
    LET states[l \in 0..Layers] ==
            IF l = 0 THEN Embed(tokens)
            ELSE LET below == states[l - 1] IN
                 [n \in DOMAIN tokens |->
                    below[n] \o <<ReferenceMixer(l, below, n), ReferenceMlp(l, tokens[n])>>]
    IN  states

\* What a layer keeps of a sequence it has read.
ReferenceState(l, below) ==
    IF model.kinds[l] = "full"
    THEN [k \in DOMAIN below |-> [at |-> k - 1, of |-> below[k]]]
    ELSE [conv    |-> [i \in 1..History |->
                         IF Len(below) + i > History THEN below[Len(below) + i - History]
                         ELSE Zero],
          updates |-> ReferenceMixer(l, below, Len(below)).state]

ReferenceCache(sequences) ==
    IF sequences = <<>> THEN NewCache
    ELSE [position |-> Len(sequences[1]), batch |-> Len(sequences),
          layers |-> [l \in 1..Layers |-> [b \in DOMAIN sequences |->
                        ReferenceState(l, Reference(sequences[b])[l - 1])]]]

\* Greedy decoding by recomputing the whole sequence for every token.
ReferenceGreedy(prompt, budget, eos) ==
    LET grown[n \in 0..budget] ==
          IF n = 0 THEN prompt
          ELSE LET before == grown[n - 1] IN
               IF n > 1 /\ Last(before) \in eos THEN before
               ELSE Append(before, ArgMax(Last(Reference(before)[Layers])))
    IN  grown[budget]

(* Properties *)

\* A step returns, for every token it fed, what the model computes on the whole
\* sequence at once: however the sequence was cut into steps, whatever batches
\* and other sessions the steps shared, and whatever failed or was reset in
\* between.  The sums of the routed experts are in the reference's order.
StepsDoNotMatter ==
    Returning => \A i \in DOMAIN lanes :
        LET before == Fed(lanes[i][1], lanes[i][2])
            whole  == before \o input[i]
        IN  /\ hidden[i] = SubSeq(Reference(whole)[Layers], Len(before) + 1, Len(whole))
            /\ \A l \in model.sparse, k \in DOMAIN input[i] :
                 {r.expert : r \in ToSet(routes[i][l][k])}
                     = TopExperts(model.gate[input[i][k]])

\* Between steps a session's cache is the one its committed tokens determine:
\* its position, its batch size, the keys with their rotary positions, the
\* convolution history and the recurrent state.  A failed step has left nothing
\* and a reset cache is a new one.
CacheHoldsTheFed == \A s \in Caches : cache[s] = ReferenceCache(fed[s])

\* Cached, incremental greedy generation returns the tokens that recomputing
\* the whole sequence for every token returns.
GreedyIsTheReference ==
    result # <<>> => result[4] = ReferenceGreedy(result[1], result[2], result[3])

=============================================================================
