--------------------------- MODULE CheckpointIndex ---------------------------
(***************************************************************************)
(* A published checkpoint as its index describes it (checkpoint.rs): which *)
(* tensors there are, in which shard each one is, and the two ways a       *)
(* resident model reads them.                                              *)
(*                                                                         *)
(* A source is a record: metadata ("bounded" or not) is what its small     *)
(* files are, index maps tensor names to shards, places says of each shard *)
(* what is found under its name, and files maps shards to the tensors in   *)
(* them, which need not be the ones the index declares.                    *)
(***************************************************************************)
EXTENDS PackedLayout

-----------------------------------------------------------------------------
\* config.json, the index and tokenizer.json are regular files of bounded size.
EnforceMetadataLimit(source) == source.metadata = "bounded"

\* Every shard the index names is a regular file directly in the root; nested
\* names, links and absent files are refused.
FromIndex(source) ==
    \A shard \in Range(source.index) : source.places[shard] = "file"

\* The number of the first inventory the index declares exactly, 0 for none.
OpenOneOf(source, inventories) ==
    LET exact == {k \in DOMAIN inventories : DOMAIN source.index = inventories[k]} IN
    IF EnforceMetadataLimit(source) /\ exact # {} /\ FromIndex(source) THEN Min(exact) ELSE 0

\* The same for an index that may declare tensors of ignored families beside
\* the required ones.
OpenWithIgnored(source, required, ignored) ==
    /\ EnforceMetadataLimit(source)
    /\ required \subseteq DOMAIN source.index
    /\ DOMAIN source.index \subseteq required \cup ignored
    /\ FromIndex(source)

\* No indexed shard holds a tensor the index places elsewhere or not at all.
ShardsAsDeclared(source) ==
    \A shard \in Range(source.index) : \A name \in DOMAIN source.files[shard] :
        name \in DOMAIN source.index /\ source.index[name] = shard

\* The content of all indexed shards, by name.
ShardContents(source) ==
    [name \in UNION {DOMAIN source.files[s] : s \in Range(source.index)} |->
        source.files[CHOOSE s \in Range(source.index) : name \in DOMAIN source.files[s]][name]]

\* Every tensor of the index.
LoadCpu(source) ==
    IF ShardsAsDeclared(source) /\ DOMAIN ShardContents(source) = DOMAIN source.index
    THEN ShardContents(source) ELSE Refused

\* The selected tensors; the others are checked and dropped.
LoadCpuSelected(source, names) ==
    IF /\ names \subseteq DOMAIN source.index
       /\ ShardsAsDeclared(source)
       /\ DOMAIN ShardContents(source) = DOMAIN source.index
    THEN [name \in names |-> ShardContents(source)[name]] ELSE Refused

-----------------------------------------------------------------------------
(* Loading a model from tensors by name *)

\* A tokenizer is its number of entries, which the model's vocabulary covers.
LoadTokenizer(tokenizer, vocab) == tokenizer \in 1..vocab

\* A builder of parameters: every one is there with the shape asked for.
Provides(shapes, asked) ==
    \A name \in DOMAIN asked : name \in DOMAIN shapes /\ shapes[name] = asked[name]

Shapes(tensors) == [name \in DOMAIN tensors |-> tensors[name].shape]

DenseShapes(store) ==
    [name \in DOMAIN store.inventory |-> store.inventory[name].source.shape]

\* Parameters of a model by full name: the global ones and those of its layers.
Parameters(global, ofLayer) ==
    Joined([name \in {<<g>> : g \in DOMAIN global} |-> global[name[1]]],
           [name \in UNION {{<<l, n>> : n \in DOMAIN ofLayer[l]} : l \in DOMAIN ofLayer} |->
               ofLayer[name[1]][name[2]]])

\* The parameters of the experts of some layers, three matrices for each.
SplitParameters(moe, layers) ==
    [name \in UNION {Range(MatrixNames(l, e)) : l \in Range(layers), e \in 0..(moe.experts - 1)} |->
        IF name[3] = "down" THEN <<moe.hidden, moe.intermediate>>
                            ELSE <<moe.intermediate, moe.hidden>>]

\* The same in two arrays per layer.
FusedParameters(moe, layers) ==
    [name \in UNION {FusedNames(l) : l \in Range(layers)} |->
        IF name[2] = "down_proj" THEN <<moe.experts, moe.hidden, moe.intermediate>>
                                 ELSE <<moe.experts, 2 * moe.intermediate, moe.hidden>>]

\* What narrowing a fused array along experts and rows leaves to one expert.
NarrowFused(tensors, moe, layer, expert) ==
    LET gateUp == tensors[<<layer, "gate_up_proj">>]
        down   == tensors[<<layer, "down_proj">>]
        half   == moe.intermediate * moe.hidden * ByteWidth(gateUp.scalar)
    IN [gate |-> Slice(gateUp.bytes, 2 * expert * half, half),
        up   |-> Slice(gateUp.bytes, 2 * expert * half + half, half),
        down |-> Slice(down.bytes, expert * half, half)]

SplitExpert(tensors, layer, expert) ==
    [m \in {"gate", "up", "down"} |-> tensors[<<layer, expert, m>>].bytes]

\* A layer of streamed experts finds a record with at least a header for each.
StreamsExperts(store, moe, layers) ==
    \A n \in DOMAIN layers, e \in 0..(moe.experts - 1) :
        /\ PackedName(layers[n], e) \in DOMAIN store.inventory
        /\ EncodedLength(store.inventory[PackedName(layers[n], e)]) >= HeaderBytes

=============================================================================
