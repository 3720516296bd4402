------------------------------ MODULE Qwen3Family ------------------------------
(***************************************************************************)
(* Qwen3-MoE (qwen3_moe/): configuration, tensors, packing and opening.    *)
(* It differs from OLMoE in its layers, of which some are dense, in an     *)
(* explicit head size, in sliding attention and in the second layout of    *)
(* its experts, two arrays per layer.                                      *)
(***************************************************************************)
EXTENDS CheckpointIndex

CONSTANT None

-----------------------------------------------------------------------------
(* Configuration *)

\* What a configuration that parses is made of.
ConfigType(config) ==
    /\ {config.vocab, config.hidden, config.dense, config.intermediate, config.layers,
        config.heads, config.kvHeads, config.experts, config.topK, config.positions,
        config.step} \subseteq Nat
    /\ {config.headDim, config.window, config.bos, config.pad} \subseteq Nat \cup {None}
    /\ {config.normalize, config.tied, config.bias, config.sliding} \subseteq BOOLEAN
    /\ config.mlpOnly \in Seq(Nat) /\ config.eos \in Seq(Nat) \cup {None}

HeadDim(config) ==
    IF config.headDim # None THEN config.headDim
    ELSE config.hidden \div config.heads

HeadDimDefined(config) ==
    /\ config.headDim = None => config.hidden % config.heads = 0
    /\ HeadDim(config) # 0 /\ HeadDim(config) % 2 = 0

\* A layer is routed if the sparse step meets it and it is not listed as dense.
IsSparseLayer(config, layer) ==
    /\ config.step # 0
    /\ layer < config.layers
    /\ layer \notin Range(config.mlpOnly)
    /\ (layer + 1) % config.step = 0

SparseLayers(config) ==
    LET kept[n \in 0..config.layers] ==
            IF n = 0 THEN <<>>
            ELSE IF IsSparseLayer(config, n - 1) THEN Append(kept[n - 1], n - 1)
            ELSE kept[n - 1]
    IN kept[config.layers]

NonZero(config) ==
    0 \notin {config.vocab, config.hidden, config.dense, config.intermediate,
              config.layers, config.heads, config.kvHeads, config.experts,
              config.topK, config.positions, config.step}

MoeConfig(config) ==
    [hidden |-> config.hidden, intermediate |-> config.intermediate,
     experts |-> config.experts, topK |-> config.topK, normalize |-> config.normalize]

TokenInRange(config, token) == token # None => token < config.vocab

ConfigElements(config) ==
    2 * config.heads * HeadDim(config) * config.hidden
      + 2 * config.kvHeads * HeadDim(config) * config.hidden
      + 3 * config.dense * config.hidden
      + 3 * config.intermediate * config.hidden * config.experts

DenseListValid(config) ==
    /\ \A n \in DOMAIN config.mlpOnly : config.mlpOnly[n] < config.layers
    /\ IsInjective(config.mlpOnly)

Validate(config) ==
    /\ config.family = "qwen3_moe"
    /\ NonZero(config)
    /\ config.heads % config.kvHeads = 0
    /\ HeadDimDefined(config)
    /\ config.topK <= config.experts
    /\ config.numerics = "sound"
    /\ config.sliding => config.window \notin {None, 0}
    /\ DenseListValid(config)
    /\ SparseLayers(config) # <<>>
    /\ TokenInRange(config, config.bos) /\ TokenInRange(config, config.pad)
    /\ config.eos # None =>
         /\ config.eos # <<>> /\ IsInjective(config.eos)
         /\ \A n \in DOMAIN config.eos : TokenInRange(config, config.eos[n])
    /\ DoesFit(ConfigElements(config))

-----------------------------------------------------------------------------
(* Tensors of a checkpoint *)

GlobalNames(config) ==
    <<<<"embed">>, <<"norm">>>> \o IF config.tied THEN <<>> ELSE <<<<"lm_head">>>>

Biases(config) ==
    IF config.bias THEN <<"q_bias", "k_bias", "v_bias", "o_bias">> ELSE <<>>

MlpNames(config, layer) ==
    IF IsSparseLayer(config, layer) THEN <<"router">>
                                    ELSE <<"gate_proj", "up_proj", "mlp_down_proj">>

LayerNames(config, layer) ==
    <<"input_norm", "post_norm", "q_proj", "k_proj", "v_proj", "o_proj">>
        \o Biases(config) \o <<"q_norm", "k_norm">> \o MlpNames(config, layer)

DenseNames(config) ==
    GlobalNames(config)
        \o FlattenSeq([l \in 1..config.layers |->
             LET names == LayerNames(config, l - 1)
             IN [n \in DOMAIN names |-> <<l - 1, names[n]>>]])

RequiredNames(config, layout) ==
    Range(DenseNames(config)) \cup
    IF layout = "fused" THEN UNION {FusedNames(l) : l \in Range(SparseLayers(config))}
    ELSE UNION {Range(MatrixNames(l, e)) :
                  l \in Range(SparseLayers(config)), e \in 0..(config.experts - 1)}

\* The layouts in the order in which open looks for them.
Layouts == <<"split", "fused">>

OpenCheckpoint(source, config) ==
    LET found == OpenOneOf(source, [k \in DOMAIN Layouts |-> RequiredNames(config, Layouts[k])])
    IN IF Validate(config) /\ found # 0
       THEN [config |-> config, layout |-> Layouts[found]] ELSE Refused

-----------------------------------------------------------------------------
(* Parameters of the model *)

\* Every head is normalized on its own.
AttentionParameters(config) ==
    LET query == config.heads * HeadDim(config)
        keyValue == config.kvHeads * HeadDim(config)
    IN
    Joined([q_proj |-> <<query, config.hidden>>, k_proj |-> <<keyValue, config.hidden>>,
            v_proj |-> <<keyValue, config.hidden>>, o_proj |-> <<config.hidden, query>>,
            q_norm |-> <<HeadDim(config)>>, k_norm |-> <<HeadDim(config)>>],
           IF ~config.bias THEN <<>> ELSE
           [q_bias |-> <<query>>, k_bias |-> <<keyValue>>, v_bias |-> <<keyValue>>,
            o_bias |-> <<config.hidden>>])

MlpParameters(config) ==
    [gate_proj |-> <<config.dense, config.hidden>>, up_proj |-> <<config.dense, config.hidden>>,
     mlp_down_proj |-> <<config.hidden, config.dense>>]

LayerParameters(config, layer) ==
    Joined(Joined([input_norm |-> <<config.hidden>>, post_norm |-> <<config.hidden>>],
                  AttentionParameters(config)),
           IF IsSparseLayer(config, layer) THEN <<>> ELSE MlpParameters(config))

GlobalParameters(config) ==
    Joined([embed |-> <<config.vocab, config.hidden>>, norm |-> <<config.hidden>>],
           IF config.tied THEN <<>> ELSE [lm_head |-> <<config.vocab, config.hidden>>])

RouterParameters(config, layer) ==
    IF IsSparseLayer(config, layer) THEN [router |-> <<config.experts, config.hidden>>]
                                    ELSE <<>>

ModelParameters(config) ==
    Parameters(GlobalParameters(config),
               [l \in 0..(config.layers - 1) |->
                   Joined(LayerParameters(config, l), RouterParameters(config, l))])

\* A layer's experts are fused if the fused array is there.
ResidentLayout(tensors, layer) ==
    IF <<layer, "gate_up_proj">> \in DOMAIN tensors THEN "fused" ELSE "split"

ExpertParameters(tensors, config) ==
    LET moe == MoeConfig(config)
        Fused == SelectSeq(SparseLayers(config),
                           LAMBDA l : ResidentLayout(tensors, l) = "fused")
        Split == SelectSeq(SparseLayers(config),
                           LAMBDA l : ResidentLayout(tensors, l) = "split")
    IN Joined(SplitParameters(moe, Split), FusedParameters(moe, Fused))

LoadResident(source, opened) ==
    LET tensors == LoadCpu(source)
        config  == opened.config
    IN IF /\ tensors # Refused
          /\ Provides(Shapes(tensors),
                      Joined(ModelParameters(config), ExpertParameters(tensors, config)))
       THEN tensors ELSE Refused

ResidentExpert(tensors, config, layer, expert) ==
    IF ResidentLayout(tensors, layer) = "fused"
    THEN NarrowFused(tensors, MoeConfig(config), layer, expert)
    ELSE SplitExpert(tensors, layer, expert)

-----------------------------------------------------------------------------
(* Packing *)

ConvertSplit(source, config, group, options, scalar) ==
    LET moe == MoeConfig(config)
    IN ConvertGroup([e \in GroupExperts(group) |-> ReadSplit(source, moe, group.layer, e)],
                    group, moe, options, scalar)

ConvertFused(source, config, group, options, scalar) ==
    LET moe == MoeConfig(config)
    IN ConvertGroup([e \in GroupExperts(group) |-> ReadFused(source, moe, group.layer, e)],
                    group, moe, options, scalar)

ConvertExperts(source, config, layout, group, options, scalar) ==
    IF layout = "split" THEN ConvertSplit(source, config, group, options, scalar)
                        ELSE ConvertFused(source, config, group, options, scalar)

Manifest(config, options, scalar, source, dense, experts, tokenizer) ==
    [schema |-> "qwen3_moe", source |-> source, dense |-> dense.digest,
     expert |-> experts.digest, scalar |-> scalar, hidden |-> config.hidden,
     intermediate |-> config.intermediate, layers |-> config.layers,
     experts |-> config.experts, perFile |-> options.perFile,
     denseFiles |-> dense.files, expertFiles |-> experts.files,
     tokenizer |-> tokenizer]

-----------------------------------------------------------------------------
(* Opening a packed directory *)

ValidateManifest(m, config, tokenizerThere) ==
    /\ m.schema = "qwen3_moe"
    /\ ManifestAgrees(m, MoeConfig(config), config.layers,
                      Len(DenseNames(config)), Len(SparseLayers(config)))
    /\ m.tokenizer = tokenizerThere

ValidateDense(store, config) == DenseInventory(store, DenseNames(config))

ValidateExperts(store, config, m) ==
    ExpertInventory(store, MoeConfig(config), m.scalar, SparseLayers(config))

Opens(m, config, dense, experts) ==
    /\ DigestsHold(m, dense, experts)
    /\ FileInventory(dense, m.denseFiles) /\ FileInventory(experts, m.expertFiles)
    /\ ValidateDense(dense, config)
    /\ ValidateExperts(experts, config, m)

\* A window that is configured but not in use is not part of the layout.
StateLayout(config) ==
    <<"qwen3_moe", config.layers, config.kvHeads, HeadDim(config), config.positions,
      IF config.sliding THEN config.window ELSE None>>

LoadStreaming(config, dense, experts) ==
    /\ Validate(config)
    /\ DoesFit(MaterializedBytes(dense))
    /\ Provides(DenseShapes(dense), ModelParameters(config))
    /\ StreamsExperts(experts, MoeConfig(config), SparseLayers(config))

=============================================================================
