----------------------------- MODULE Qwen35Family -----------------------------
(***************************************************************************)
(* Qwen3.6 (qwen3_5_moe/): layers of linear attention with a full one at   *)
(* every interval, a shared expert beside the routed ones, experts always  *)
(* in two arrays per layer, and a source checkpoint that also holds vision *)
(* and prediction tensors the text model leaves out.                       *)
(***************************************************************************)
EXTENDS CheckpointIndex

CONSTANT None

-----------------------------------------------------------------------------
(* Configuration *)

\* What a configuration that parses is made of.
ConfigType(config) ==
    /\ {config.vocab, config.hidden, config.layers, config.heads, config.kvHeads,
        config.headDim, config.positions, config.interval, config.kernel, config.keyDim,
        config.keyHeads, config.valueHeads, config.valueDim, config.intermediate,
        config.shared, config.experts, config.topK, config.rotary} \subseteq Nat
    /\ {config.bos, config.pad} \subseteq Nat \cup {None}
    /\ {config.tied, config.bias, config.outputGate} \subseteq BOOLEAN
    /\ config.kinds \in Seq({"linear", "full"}) /\ config.eos \in Seq(Nat) \cup {None}

\* The rotary part of a head: rotary quarters of it, which must be a whole
\* number.
RotaryDefined(config) == (config.headDim * config.rotary) % 4 = 0

RotaryDim(config) == (config.headDim * config.rotary) \div 4

IsFullLayer(config, layer) == config.kinds[layer + 1] = "full"

NonZero(config) ==
    0 \notin {config.vocab, config.hidden, config.layers, config.heads, config.kvHeads,
              config.headDim, config.positions, config.interval, config.kernel,
              config.keyDim, config.keyHeads, config.valueHeads, config.valueDim,
              config.intermediate, config.shared, config.experts, config.topK}

\* Every interval-th layer is full attention, the others are linear.
KindsFollowInterval(config) ==
    \A n \in 1..config.layers :
        config.kinds[n] = IF n % config.interval = 0 THEN "full" ELSE "linear"

MoeConfig(config) ==
    [hidden |-> config.hidden, intermediate |-> config.intermediate,
     experts |-> config.experts, topK |-> config.topK, normalize |-> TRUE]

TokenInRange(config, token) == token # None => token < config.vocab

Validate(config) ==
    /\ config.family = "qwen3_5_moe"
    /\ NonZero(config)
    /\ Len(config.kinds) = config.layers
    /\ KindsFollowInterval(config)
    /\ config.heads % config.kvHeads = 0
    /\ config.valueHeads % config.keyHeads = 0
    /\ RotaryDefined(config)
    /\ RotaryDim(config) \in 1..config.headDim /\ RotaryDim(config) % 2 = 0
    /\ config.numerics = "sound"
    /\ ~config.bias /\ config.outputGate
    /\ ~config.tied
    /\ config.topK <= config.experts
    /\ TokenInRange(config, config.bos) /\ TokenInRange(config, config.pad)
    /\ config.eos # None =>
         /\ config.eos # <<>> /\ IsInjective(config.eos)
         /\ \A n \in DOMAIN config.eos : TokenInRange(config, config.eos[n])
    /\ DoesFit(config.vocab * config.hidden
                 + 2 * config.experts * config.intermediate * config.hidden)

HeadDim(config) == config.headDim

\* Every layer is routed.
SparseLayers(config) == Indices(config.layers)

-----------------------------------------------------------------------------
(* Tensors of a checkpoint *)

MixerNames(kind) ==
    IF kind = "full" THEN <<"q_proj", "k_proj", "v_proj", "o_proj", "q_norm", "k_norm">>
    ELSE <<"A_log", "conv1d", "dt_bias", "in_proj_a", "in_proj_b", "in_proj_qkv",
           "in_proj_z", "linear_norm", "out_proj">>

LayerNames(config, layer) ==
    <<"input_norm", "post_norm">> \o MixerNames(config.kinds[layer + 1])
        \o <<"router", "shared_gate_proj", "shared_up_proj", "shared_down_proj",
             "shared_gate">>

DenseNames(config) ==
    <<<<"embed">>, <<"norm">>, <<"lm_head">>>>
        \o FlattenSeq([l \in 1..config.layers |->
             LET names == LayerNames(config, l - 1)
             IN [n \in DOMAIN names |-> <<l - 1, names[n]>>]])

RequiredNames(config, layout) ==
    Range(DenseNames(config)) \cup UNION {FusedNames(l) : l \in 0..(config.layers - 1)}

\* Vision and prediction tensors are accepted in a source and left there.
Ignored == {<<"visual">>, <<"mtp">>}

OpenCheckpoint(source, config) ==
    IF Validate(config) /\ OpenWithIgnored(source, RequiredNames(config, "fused"), Ignored)
    THEN [config |-> config, layout |-> "fused"] ELSE Refused

-----------------------------------------------------------------------------
(* Parameters of the model *)

\* Queries come with an output gate of the same width.
AttentionParameters(config) ==
    LET query == config.heads * config.headDim
        keyValue == config.kvHeads * config.headDim
    IN
    [q_proj |-> <<2 * query, config.hidden>>, k_proj |-> <<keyValue, config.hidden>>,
     v_proj |-> <<keyValue, config.hidden>>, o_proj |-> <<config.hidden, query>>,
     q_norm |-> <<config.headDim>>, k_norm |-> <<config.headDim>>]

KeyWidth(config)   == config.keyHeads * config.keyDim
ValueWidth(config) == config.valueHeads * config.valueDim

\* The channels of the causal convolution: queries, keys and values.
ConvWidth(config) == 2 * KeyWidth(config) + ValueWidth(config)

LinearParameters(config) ==
    [conv1d      |-> <<ConvWidth(config), 1, config.kernel>>,
     A_log       |-> <<config.valueHeads>>, dt_bias |-> <<config.valueHeads>>,
     in_proj_qkv |-> <<ConvWidth(config), config.hidden>>,
     in_proj_z   |-> <<ValueWidth(config), config.hidden>>,
     in_proj_b   |-> <<config.valueHeads, config.hidden>>,
     in_proj_a   |-> <<config.valueHeads, config.hidden>>,
     out_proj    |-> <<config.hidden, ValueWidth(config)>>,
     linear_norm |-> <<config.valueDim>>]

SharedParameters(config) ==
    [shared_gate_proj |-> <<config.shared, config.hidden>>,
     shared_up_proj   |-> <<config.shared, config.hidden>>,
     shared_down_proj |-> <<config.hidden, config.shared>>,
     shared_gate      |-> <<1, config.hidden>>]

LayerParameters(config, layer) ==
    Joined(Joined([input_norm |-> <<config.hidden>>, post_norm |-> <<config.hidden>>],
                  IF IsFullLayer(config, layer) THEN AttentionParameters(config)
                                                ELSE LinearParameters(config)),
           SharedParameters(config))

GlobalParameters(config) ==
    [embed |-> <<config.vocab, config.hidden>>, norm |-> <<config.hidden>>,
     lm_head |-> <<config.vocab, config.hidden>>]

RouterParameters(config) == [router |-> <<config.experts, config.hidden>>]

ModelParameters(config) ==
    Parameters(GlobalParameters(config),
               [l \in 0..(config.layers - 1) |->
                   Joined(LayerParameters(config, l), RouterParameters(config))])

\* Only the text tensors are kept.
LoadResident(source, opened) ==
    LET config  == opened.config
        tensors == LoadCpuSelected(source, RequiredNames(config, "fused"))
    IN IF /\ tensors # Refused
          /\ Provides(Shapes(tensors),
                      Joined(ModelParameters(config),
                             FusedParameters(MoeConfig(config), SparseLayers(config))))
       THEN tensors ELSE Refused

ResidentExpert(tensors, config, layer, expert) ==
    NarrowFused(tensors, MoeConfig(config), layer, expert)

-----------------------------------------------------------------------------
(* Packing *)

ConvertExperts(source, config, layout, group, options, scalar) ==
    LET moe == MoeConfig(config)
    IN ConvertGroup([e \in GroupExperts(group) |-> ReadFused(source, moe, group.layer, e)],
                    group, moe, options, scalar)

Manifest(config, options, scalar, source, dense, experts, tokenizer) ==
    [schema |-> "qwen3_5_moe", capabilities |-> <<"text-generation">>,
     source |-> source, dense |-> dense.digest,
     expert |-> experts.digest, scalar |-> scalar, hidden |-> config.hidden,
     intermediate |-> config.intermediate, layers |-> config.layers,
     experts |-> config.experts, perFile |-> options.perFile,
     denseFiles |-> dense.files, expertFiles |-> experts.files,
     tokenizer |-> tokenizer]

-----------------------------------------------------------------------------
(* Opening a packed directory *)

ValidateManifest(m, config, tokenizerThere) ==
    /\ m.schema = "qwen3_5_moe" /\ m.capabilities = <<"text-generation">>
    /\ ManifestAgrees(m, MoeConfig(config), config.layers,
                      Len(DenseNames(config)), config.layers)
    /\ m.tokenizer = tokenizerThere

ValidateDense(store, config) == DenseInventory(store, DenseNames(config))

ValidateExperts(store, config, m) ==
    ExpertInventory(store, MoeConfig(config), m.scalar, SparseLayers(config))

Opens(m, config, dense, experts) ==
    /\ DigestsHold(m, dense, experts)
    /\ FileInventory(dense, m.denseFiles) /\ FileInventory(experts, m.expertFiles)
    /\ ValidateDense(dense, config)
    /\ ValidateExperts(experts, config, m)

StateLayout(config) ==
    <<"qwen3_5_moe", config.layers, config.kvHeads, config.headDim, config.kernel,
      config.valueHeads, config.keyDim, config.valueDim, config.positions,
      config.interval>>

LoadStreaming(config, dense, experts) ==
    /\ Validate(config)
    /\ DoesFit(MaterializedBytes(dense))
    /\ Provides(DenseShapes(dense), ModelParameters(config))
    /\ StreamsExperts(experts, MoeConfig(config), SparseLayers(config))

=============================================================================
