------------------------- MODULE MCPackedConversion -------------------------
(* Small checkpoints of the three families, the conversions to try on them,  *)
(* and the configurations their config.json may be replaced by.              *)
EXTENDS PackedConversion

Common ==
    [vocab |-> 3, hidden |-> 4, intermediate |-> 1, layers |-> 2, heads |-> 2, kvHeads |-> 2,
     experts |-> 2, topK |-> 1, positions |-> 4, normalize |-> FALSE, numerics |-> "sound",
     tied |-> FALSE, bias |-> FALSE, eos |-> <<1>>, pad |-> None]

MCOlmoe == [family |-> "olmoe", experts |-> 3] @@ Common

MCQwen3 == [family |-> "qwen3_moe", bos |-> None, headDim |-> None, dense |-> 2, step |-> 1,
            mlpOnly |-> <<0>>, sliding |-> FALSE, window |-> 2] @@ Common

MCQwen35 == [family |-> "qwen3_5_moe", bos |-> 0, headDim |-> 2, rotary |-> 4,
             interval |-> 2, kinds |-> <<"linear", "full">>, kernel |-> 2, keyDim |-> 1,
             keyHeads |-> 1, valueHeads |-> 2, valueDim |-> 1, shared |-> 1,
             outputGate |-> TRUE] @@ Common

Bases == {MCOlmoe, MCQwen3, MCQwen35}

\* Changes every family has, then those of one.
MCVariations(b) ==
    {[b EXCEPT !.topK = 2], [b EXCEPT !.topK = b.experts + 1], [b EXCEPT !.topK = 0],
     [b EXCEPT !.experts = b.experts - 1], [b EXCEPT !.layers = 1], [b EXCEPT !.layers = 3],
     [b EXCEPT !.intermediate = 2], [b EXCEPT !.hidden = 2], [b EXCEPT !.vocab = 4],
     [b EXCEPT !.vocab = 1000], [b EXCEPT !.experts = 1000],
     [b EXCEPT !.heads = 1, !.kvHeads = 1], [b EXCEPT !.kvHeads = 1], [b EXCEPT !.heads = 3],
     [b EXCEPT !.positions = 8], [b EXCEPT !.normalize = TRUE], [b EXCEPT !.tied = TRUE],
     [b EXCEPT !.bias = TRUE], [b EXCEPT !.numerics = "unsound"], [b EXCEPT !.eos = <<3>>],
     [b EXCEPT !.pad = 3], [b EXCEPT !.family = "other"]}
    \cup CASE b.family = "olmoe" -> {}
           [] b.family = "qwen3_moe" ->
                {[b EXCEPT !.step = 2], [b EXCEPT !.step = 2, !.mlpOnly = <<>>],
                 [b EXCEPT !.step = 0], [b EXCEPT !.mlpOnly = <<0, 1>>],
                 [b EXCEPT !.mlpOnly = <<0, 0>>], [b EXCEPT !.mlpOnly = <<1>>],
                 [b EXCEPT !.mlpOnly = <<>>], [b EXCEPT !.mlpOnly = <<2>>],
                 [b EXCEPT !.headDim = 2], [b EXCEPT !.headDim = 4, !.heads = 1, !.kvHeads = 1],
                 [b EXCEPT !.headDim = 3], [b EXCEPT !.sliding = TRUE],
                 [b EXCEPT !.sliding = TRUE, !.window = 3], [b EXCEPT !.window = 3],
                 [b EXCEPT !.sliding = TRUE, !.window = None], [b EXCEPT !.dense = 1],
                 [b EXCEPT !.eos = <<1, 1>>], [b EXCEPT !.eos = None]}
           [] b.family = "qwen3_5_moe" ->
                {[b EXCEPT !.interval = 1], [b EXCEPT !.interval = 1, !.kinds = <<"full", "full">>],
                 [b EXCEPT !.kinds = <<"full", "linear">>], [b EXCEPT !.kinds = <<"linear">>],
                 [b EXCEPT !.rotary = 2], [b EXCEPT !.rotary = 1], [b EXCEPT !.kernel = 3],
                 [b EXCEPT !.headDim = 4, !.heads = 1, !.kvHeads = 1],
                 [b EXCEPT !.keyHeads = 2], [b EXCEPT !.keyHeads = 2, !.keyDim = 2],
                 [b EXCEPT !.keyDim = 2], [b EXCEPT !.valueDim = 2, !.valueHeads = 1],
                 [b EXCEPT !.shared = 2], [b EXCEPT !.outputGate = FALSE],
                 [b EXCEPT !.eos = <<>>]}

Job(b, layout) ==
    [base |-> b, config |-> b, layout |-> layout, flaw |-> "none", scalar |-> "bf16",
     perFile |-> 2, maxBuffer |-> 1000, tokenizer |-> 3, kept |-> FALSE]

\* One thing at a time: the directory afterwards, the configuration, the
\* source, the options, the tokenizer.
MCJobs == UNION {UNION {
    LET j == Job(b, layout) IN
    {[j EXCEPT !.kept = TRUE, !.scalar = s] : s \in Scalars}
    \cup {[j EXCEPT !.config = c] : c \in MCVariations(b)}
    \cup {[j EXCEPT !.flaw = f] : f \in
            {"mixed expert", "mixed collection", "shape", "nonfinite", "missing", "extra",
             "ignored", "misplaced", "link", "metadata", "dense scalar"}}
    \cup {[j EXCEPT !.perFile = n, !.maxBuffer = m[1], !.scalar = m[2]] :
            n \in 0..(b.experts + 1),
            m \in {<<0, "bf16">>, <<20, "bf16">>, <<111, "bf16">>, <<112, "bf16">>,
                   <<200, "bf16">>, <<271, "f32">>, <<272, "f32">>}}
    \cup {[j EXCEPT !.tokenizer = t] : t \in {None, 1, 3, 4}}
    : layout \in LayoutsOf(b)} : b \in Bases}

=============================================================================
