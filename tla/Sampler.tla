--------------------------------- MODULE Sampler ---------------------------------
(***************************************************************************)
(* The token sampler of src/olmoe/sampling.rs, which all families share:   *)
(* validation of a policy, the penalties, and the choice of one token from *)
(* a row of logits.                                                        *)
(*                                                                         *)
(* A logit is an integer, a control a fraction <<numerator, denominator>>  *)
(* or NotFinite; what a penalty leaves of a logit is rounded down to a     *)
(* whole one, and a value beyond MaxFinite is the infinity of f32.  exp is *)
(* a power of two, so that weights are integers and sums exact: what the   *)
(* model leaves out is the rounding of f64, after which no prefix may      *)
(* reach the target and the code takes the last candidate.                 *)
(***************************************************************************)
EXTENDS Integers, Sequences, FiniteSets, SequencesExt

CONSTANTS NotFinite,   \* a control that is NaN or infinite
          Refused,     \* an Err
          MaxFinite    \* the largest finite logit

Finite(control) == control # NotFinite
AtLeast(a, b) == a[1] * b[2] >= b[1] * a[2]
Above(a, b) == a[1] * b[2] > b[1] * a[2]
Zero == <<0, 1>>
One == <<1, 1>>

\* MoeSamplingConfig::validate.
ValidSampling(config) ==
    /\ Finite(config.temperature) /\ AtLeast(config.temperature, Zero)
    /\ Finite(config.topP) /\ Above(config.topP, Zero) /\ AtLeast(One, config.topP)
    /\ Finite(config.minP) /\ AtLeast(config.minP, Zero) /\ AtLeast(One, config.minP)
    /\ Finite(config.repeat) /\ Above(config.repeat, Zero)
    /\ Finite(config.frequency) /\ Finite(config.presence)

-----------------------------------------------------------------------------
(* apply_penalties                                                          *)

IsFinite(logit) == -MaxFinite <= logit /\ logit <= MaxFinite
AsF32(value) == IF value > MaxFinite THEN MaxFinite + 1
                ELSE IF value < -MaxFinite THEN -MaxFinite - 1 ELSE value

Repeated(logit, penalty) ==
    IF logit <= 0 THEN AsF32((logit * penalty[1]) \div penalty[2])
    ELSE AsF32((logit * penalty[2]) \div penalty[1])

\* n times a control, in whole logits.
Scaled(control, n) == (control[1] * n) \div control[2]

Lowered(logit, amount) == IF IsFinite(logit) THEN AsF32(logit - amount) ELSE logit

\* The tokens of the history that count.
Recent(history, config) ==
    IF config.lastN = NotFinite \/ config.lastN >= Len(history) THEN history
    ELSE SubSeq(history, Len(history) - config.lastN + 1, Len(history))

Count(token, history, config) ==
    Len(SelectSeq(Recent(history, config), LAMBDA t : t = token))

\* The logits (of the tokens 0..vocab-1) after the penalties.
Penalized(logits, history, config) ==
    [token \in DOMAIN logits |->
       LET count == Count(token, history, config) IN
       IF count = 0 THEN logits[token]
       ELSE Lowered(Lowered(Repeated(logits[token], config.repeat),
                            Scaled(config.frequency, count)),
                    Scaled(config.presence, 1))]

-----------------------------------------------------------------------------
(* sample                                                                   *)

\* Candidates, the best first, ties by the lower token, cut to top_k.
Candidates(logits, config) ==
    LET ranked == SetToSortSeq(DOMAIN logits, LAMBDA a, b :
                      logits[a] > logits[b] \/ (logits[a] = logits[b] /\ a < b))
    IN  IF config.topK = 0 \/ config.topK >= Len(ranked) THEN ranked
        ELSE SubSeq(ranked, 1, config.topK)

\* exp((logit - maximum) / temperature), scaled to integers: the smallest finite
\* candidate has the weight 1.  Temperatures are 1/n.
Weights(candidates, logits, config) ==
    LET finite == {logits[t] : t \in {u \in ToSet(candidates) : IsFinite(logits[u])}}
        least  == CHOOSE l \in finite : \A other \in finite : l <= other
    IN  [k \in DOMAIN candidates |->
           IF ~IsFinite(logits[candidates[k]]) THEN 0
           ELSE 2^((logits[candidates[k]] - least) * config.temperature[2])]

Mass(weights) == FoldLeft(LAMBDA sum, weight : sum + weight, 0, weights)
Prefix(weights, k) == Mass(SubSeq(weights, 1, k))

\* min_p keeps the candidates within a share of the best one; weights descend.
KeptByMinP(weights, config) ==
    SelectSeq(weights, LAMBDA w : AtLeast(<<w, weights[1]>>, config.minP))

\* Mutation: the candidate that reaches top_p is cut as well.
ReachedBefore(weights, total, topP) ==
    {k \in 1..Len(weights) :
        k = Len(weights) \/ AtLeast(<<Prefix(weights, k + 1), total>>, topP)}

\* Prefixes whose share of the whole mass reaches top_p, or that are everything.
Reached(weights, total, topP) ==
    {k \in 1..Len(weights) :
        k = Len(weights) \/ AtLeast(<<Prefix(weights, k), total>>, topP)}

KeptByTopP(weights, total, config) ==
    IF AtLeast(config.topP, One) THEN weights
    ELSE LET reached == Reached(weights, total, config.topP) IN
         SubSeq(weights, 1, CHOOSE k \in reached : \A j \in reached : k <= j)

\* The first candidate whose cumulative weight exceeds draw/draws of the mass.
Drawn(weights, draw, draws) ==
    LET beyond == {k \in DOMAIN weights : Prefix(weights, k) * draws > draw * Mass(weights)}
    IN  CHOOSE k \in beyond : \A j \in beyond : k <= j

\* sample, with the draw it takes from the request's generator: a token, or an
\* error: no logits or an infinite one, a history outside of the vocabulary, or
\* penalized maxima that are infinite and have no mass.
Sample(logits, history, config, draw, draws) ==
    LET penalized  == Penalized(logits, history, config)
        candidates == Candidates(penalized, config)
        weights    == Weights(candidates, penalized, config)
        kept       == KeptByTopP(KeptByMinP(weights, config), Mass(weights), config)
    IN  IF \/ DOMAIN logits = {} \/ \E t \in DOMAIN logits : ~IsFinite(logits[t])
           \/ \E t \in ToSet(Recent(history, config)) : t \notin DOMAIN logits THEN Refused
        ELSE IF config.temperature = Zero THEN candidates[1]
        ELSE IF ~IsFinite(penalized[candidates[1]]) THEN Refused
        ELSE candidates[Drawn(kept, draw, draws)]

\* The generator advances once for every sample that is not greedy.
DrawsTaken(config) == IF config.temperature = Zero THEN 0 ELSE 1

=============================================================================
