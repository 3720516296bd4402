------------------------------ MODULE OlmoeFamily ------------------------------
(***************************************************************************)
(* OLMoE: its configuration (olmoe/config.rs), the tensors a checkpoint    *)
(* must have (olmoe/checkpoint.rs), how it is packed and what a packed     *)
(* directory must hold to be opened (olmoe/packed_checkpoint/).            *)
(*                                                                         *)
(* A configuration is a record; the fields no other part of it depends on  *)
(* (activation, epsilon, rotary base, clipping) are one field, numerics,   *)
(* "sound" or not.                                                         *)
(***************************************************************************)
EXTENDS CheckpointIndex

CONSTANT None

-----------------------------------------------------------------------------
(* Configuration *)

\* What a configuration that parses is made of.
ConfigType(config) ==
    /\ {config.vocab, config.hidden, config.intermediate, config.layers, config.heads,
        config.kvHeads, config.experts, config.topK, config.positions} \subseteq Nat
    /\ {config.normalize, config.tied, config.bias} \subseteq BOOLEAN
    /\ config.eos \in Seq(Nat) /\ config.pad \in Nat \cup {None}

NonZero(config) ==
    0 \notin {config.vocab, config.hidden, config.intermediate, config.layers,
              config.heads, config.kvHeads, config.experts, config.topK,
              config.positions}

\* Token ids name entries of the vocabulary.
TokenInRange(config, token) == token # None => token < config.vocab

ExpertElements(config) ==
    config.experts * (2 * config.intermediate * config.hidden
                        + config.intermediate * config.hidden)

Validate(config) ==
    /\ config.family = "olmoe"
    /\ NonZero(config)
    /\ config.topK <= config.experts
    /\ config.hidden % config.heads = 0
    /\ config.heads % config.kvHeads = 0
    /\ (config.hidden \div config.heads) % 2 = 0
    /\ config.numerics = "sound"
    /\ \A n \in DOMAIN config.eos : TokenInRange(config, config.eos[n])
    /\ TokenInRange(config, config.pad)
    /\ DoesFit(ExpertElements(config) + config.experts * config.hidden)

MoeConfig(config) ==
    [hidden |-> config.hidden, intermediate |-> config.intermediate,
     experts |-> config.experts, topK |-> config.topK, normalize |-> config.normalize]

HeadDim(config) == config.hidden \div config.heads

\* Every layer is routed.
SparseLayers(config) == Indices(config.layers)

-----------------------------------------------------------------------------
(* Tensors of a checkpoint *)

GlobalNames(config) ==
    <<<<"embed">>, <<"norm">>>> \o IF config.tied THEN <<>> ELSE <<<<"lm_head">>>>

Biases(config) ==
    IF config.bias THEN <<"q_bias", "k_bias", "v_bias", "o_bias">> ELSE <<>>

LayerNames(config) ==
    <<"input_norm", "post_norm", "q_proj", "k_proj", "v_proj", "o_proj">>
        \o Biases(config) \o <<"q_norm", "k_norm", "router">>

DenseNames(config) ==
    GlobalNames(config)
        \o FlattenSeq([l \in 1..config.layers |->
             [n \in DOMAIN LayerNames(config) |-> <<l - 1, LayerNames(config)[n]>>]])

\* The dense tensors and three matrices for every expert of every layer.
RequiredNames(config, layout) ==
    Range(DenseNames(config))
        \cup UNION {Range(MatrixNames(l, e)) :
                      l \in 0..(config.layers - 1), e \in 0..(config.experts - 1)}

\* There is one layout, and no tensor beside the required ones.
OpenCheckpoint(source, config) ==
    IF Validate(config) /\ OpenOneOf(source, <<RequiredNames(config, "split")>>) # 0
    THEN [config |-> config, layout |-> "split"] ELSE Refused

-----------------------------------------------------------------------------
(* Parameters of the model *)

\* Queries and keys are normalized over their whole width.
AttentionParameters(config) ==
    LET query == config.heads * HeadDim(config)
        keyValue == config.kvHeads * HeadDim(config)
    IN
    Joined([q_proj |-> <<query, config.hidden>>, k_proj |-> <<keyValue, config.hidden>>,
            v_proj |-> <<keyValue, config.hidden>>, o_proj |-> <<config.hidden, query>>,
            q_norm |-> <<query>>, k_norm |-> <<keyValue>>],
           IF ~config.bias THEN <<>> ELSE
           [q_bias |-> <<query>>, k_bias |-> <<keyValue>>, v_bias |-> <<keyValue>>,
            o_bias |-> <<config.hidden>>])

LayerParameters(config) ==
    Joined([input_norm |-> <<config.hidden>>, post_norm |-> <<config.hidden>>],
           AttentionParameters(config))

GlobalParameters(config) ==
    Joined([embed |-> <<config.vocab, config.hidden>>, norm |-> <<config.hidden>>],
           IF config.tied THEN <<>> ELSE [lm_head |-> <<config.vocab, config.hidden>>])

RouterParameters(config) == [router |-> <<config.experts, config.hidden>>]

ModelParameters(config) ==
    Parameters(GlobalParameters(config),
               [l \in 0..(config.layers - 1) |->
                   Joined(LayerParameters(config), RouterParameters(config))])

\* The resident model, of all tensors of the checkpoint.
LoadResident(source, opened) ==
    LET tensors == LoadCpu(source)
        config  == opened.config
    IN IF /\ tensors # Refused
          /\ Provides(Shapes(tensors),
                      Joined(ModelParameters(config),
                             SplitParameters(MoeConfig(config), SparseLayers(config))))
       THEN tensors ELSE Refused

ResidentExpert(tensors, config, layer, expert) == SplitExpert(tensors, layer, expert)

-----------------------------------------------------------------------------
(* Packing *)

ConvertExperts(source, config, layout, group, options, scalar) ==
    LET moe == MoeConfig(config)
    IN ConvertGroup([e \in GroupExperts(group) |-> ReadSplit(source, moe, group.layer, e)],
                    group, moe, options, scalar)

Manifest(config, options, scalar, source, dense, experts, tokenizer) ==
    [schema |-> "olmoe", source |-> source, dense |-> dense.digest,
     expert |-> experts.digest, scalar |-> scalar, hidden |-> config.hidden,
     intermediate |-> config.intermediate, layers |-> config.layers,
     experts |-> config.experts, perFile |-> options.perFile,
     denseFiles |-> dense.files, expertFiles |-> experts.files,
     tokenizer |-> tokenizer]

-----------------------------------------------------------------------------
(* Opening a packed directory *)

ValidateManifest(m, config, tokenizerThere) ==
    /\ m.schema = "olmoe"
    /\ ManifestAgrees(m, MoeConfig(config), config.layers,
                      Len(DenseNames(config)), config.layers)
    /\ m.tokenizer = tokenizerThere

ValidateDense(store, config) == DenseInventory(store, DenseNames(config))

ValidateExperts(store, config, m) ==
    ExpertInventory(store, MoeConfig(config), m.scalar, SparseLayers(config))

\* Both collections are the ones the manifest was written with, and hold what
\* the configuration needs.
Opens(m, config, dense, experts) ==
    /\ DigestsHold(m, dense, experts)
    /\ FileInventory(dense, m.denseFiles) /\ FileInventory(experts, m.expertFiles)
    /\ ValidateDense(dense, config)
    /\ ValidateExperts(experts, config, m)

\* Mutation: the capacity of the cache is left out.
LayoutWithoutCapacity(config) == <<"olmoe", config.layers, config.kvHeads, HeadDim(config)>>

\* Everything the shape of a session's cache depends on, for Power's lifecycle.
StateLayout(config) ==
    <<"olmoe", config.layers, config.kvHeads, HeadDim(config), config.positions>>

\* The streamed model: dense weights as F32, and a record for every expert.
LoadStreaming(config, dense, experts) ==
    /\ Validate(config)
    /\ DoesFit(MaterializedBytes(dense))
    /\ Provides(DenseShapes(dense), ModelParameters(config))
    /\ StreamsExperts(experts, MoeConfig(config), SparseLayers(config))

=============================================================================
