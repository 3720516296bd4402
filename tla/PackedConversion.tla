--------------------------- MODULE PackedConversion ---------------------------
(***************************************************************************)
(* One checkpoint from its publication to its use: opened by its index,    *)
(* loaded resident as the reference or packed file by file, published,     *)
(* changed by whoever keeps the directory, opened again and loaded for     *)
(* streaming.  The three families differ in all that depends on the        *)
(* configuration and are told apart by it (family.rs).                     *)
(*                                                                         *)
(* A job says what is converted and with what options: base is the         *)
(* configuration the tensors were made for, config what config.json says,  *)
(* flaw what else is wrong with the source, and kept whether the directory *)
(* that comes of it is changed before it is used.                          *)
(***************************************************************************)
EXTENDS CheckpointIndex

CONSTANTS
    None,            \* an absent value
    Jobs,            \* the conversions to consider
    Variations(_)    \* the configurations config.json may be replaced by

O   == INSTANCE OlmoeFamily
Q3  == INSTANCE Qwen3Family
Q35 == INSTANCE Qwen35Family

VARIABLES
    job,         \* the conversion at hand
    phase,       \* "source", "opened", "packing", "published", "edited" or "refused"
    checkpoint,  \* the opened source: its configuration and layout
    resident,    \* the tensors of the resident model, once it is loaded
    groups,      \* groups of experts still to pack
    staged,      \* files written so far: dense, experts, the scalar type, the buffers
    directory,   \* the packed directory, None until it is published
    opened,      \* what an open of the directory kept
    loaded       \* the streamed model

vars == <<job, phase, checkpoint, resident, groups, staged, directory, opened, loaded>>

-----------------------------------------------------------------------------
(* The families *)

\* config.json names the family in its model_type.
Detect(config) == config.family \in {"olmoe", "qwen3_moe", "qwen3_5_moe"}

InFamily(config, olmoe, qwen3, qwen35) ==
    CASE config.family = "olmoe"       -> olmoe
      [] config.family = "qwen3_moe"   -> qwen3
      [] config.family = "qwen3_5_moe" -> qwen35

ConfigType(c) == InFamily(c, O!ConfigType(c), Q3!ConfigType(c), Q35!ConfigType(c))
Validate(c) == InFamily(c, O!Validate(c), Q3!Validate(c), Q35!Validate(c))
MoeConfig(c) == InFamily(c, O!MoeConfig(c), Q3!MoeConfig(c), Q35!MoeConfig(c))
SparseLayers(c) == InFamily(c, O!SparseLayers(c), Q3!SparseLayers(c), Q35!SparseLayers(c))
DenseNames(c) == InFamily(c, O!DenseNames(c), Q3!DenseNames(c), Q35!DenseNames(c))
ModelParameters(c) ==
    InFamily(c, O!ModelParameters(c), Q3!ModelParameters(c), Q35!ModelParameters(c))
StateLayout(c) == InFamily(c, O!StateLayout(c), Q3!StateLayout(c), Q35!StateLayout(c))
OpenCheckpoint(s, c) ==
    InFamily(c, O!OpenCheckpoint(s, c), Q3!OpenCheckpoint(s, c), Q35!OpenCheckpoint(s, c))
LoadResidentModel(s, k) ==
    InFamily(k.config, O!LoadResident(s, k), Q3!LoadResident(s, k), Q35!LoadResident(s, k))
ResidentExpert(t, c, l, e) ==
    InFamily(c, O!ResidentExpert(t, c, l, e), Q3!ResidentExpert(t, c, l, e),
                Q35!ResidentExpert(t, c, l, e))
ConvertExperts(s, k, g, options, scalar) ==
    LET c == k.config IN
    InFamily(c, O!ConvertExperts(s, c, k.layout, g, options, scalar),
                Q3!ConvertExperts(s, c, k.layout, g, options, scalar),
                Q35!ConvertExperts(s, c, k.layout, g, options, scalar))
Manifest(c, options, scalar, source, dense, experts, tokenizer) ==
    InFamily(c, O!Manifest(c, options, scalar, source, dense, experts, tokenizer),
                Q3!Manifest(c, options, scalar, source, dense, experts, tokenizer),
                Q35!Manifest(c, options, scalar, source, dense, experts, tokenizer))
ValidateManifest(m, c, tokenizerThere) ==
    InFamily(c, O!ValidateManifest(m, c, tokenizerThere),
                Q3!ValidateManifest(m, c, tokenizerThere),
                Q35!ValidateManifest(m, c, tokenizerThere))
Opens(m, c, dense, experts) ==
    InFamily(c, O!Opens(m, c, dense, experts), Q3!Opens(m, c, dense, experts),
                Q35!Opens(m, c, dense, experts))
LoadStreamingModel(c, dense, experts) ==
    InFamily(c, O!LoadStreaming(c, dense, experts), Q3!LoadStreaming(c, dense, experts),
                Q35!LoadStreaming(c, dense, experts))

\* Which layouts checkpoints of a family come in.
LayoutsOf(c) == InFamily(c, {"split"}, Range(Q3!Layouts), {"fused"})

\* The tensors are those of some valid configuration, and what config.json says
\* or is replaced by parses as one of the family it names.
ASSUME JobsAssumption ==
    \A j \in Jobs :
        /\ Detect(j.base) /\ ConfigType(j.base) /\ Validate(j.base)
        /\ j.layout \in LayoutsOf(j.base) /\ j.scalar \in Scalars
        /\ j.perFile \in Nat /\ j.maxBuffer \in Nat
        /\ \A c \in Variations(j.base) \cup {j.config} : Detect(c) => ConfigType(c)

\* File names have five digits for a layer, an expert or a dense tensor.
ASSUME NamesAssumption ==
    \A j \in Jobs : Detect(j.config) =>
        /\ j.config.layers <= 100000 /\ j.config.experts <= 100000
        /\ Validate(j.config) => Len(DenseNames(j.config)) <= 100000

-----------------------------------------------------------------------------
(* The source: the tensors of job.base, in one shard for the dense ones and   *)
(* one for the experts, with the flaw of the job.                             *)

Other(scalar) == IF scalar = "f32" THEN "bf16" ELSE "f32"

ExpertShapes(base, layout) ==
    IF layout = "split" THEN SplitParameters(MoeConfig(base), SparseLayers(base))
                        ELSE FusedParameters(MoeConfig(base), SparseLayers(base))

LastMatrix(base, layout) == <<SparseLayers(base)[Len(SparseLayers(base))]>>
    \o IF layout = "split" THEN <<base.experts - 1, "down">> ELSE <<"down_proj">>

Content(name, shape, scalar, last, flaw) ==
    [k \in 1..(Elements(shape) * ByteWidth(scalar)) |->
        [owner |-> "own", of |-> name, at |-> k,
         finite |-> ~(flaw = "nonfinite" /\ name = last /\ k = 1)]]

ExpertTensor(j, name, shape) ==
    LET last   == LastMatrix(j.base, j.layout)
        scalar == IF \/ j.flaw = "mixed expert" /\ name = last
                     \/ j.flaw = "mixed collection" /\ name[1] = last[1]
                  THEN Other(j.scalar) ELSE j.scalar
    IN [scalar |-> scalar, bytes |-> Content(name, shape, scalar, last, j.flaw),
        shape |-> IF j.flaw = "shape" /\ name = last THEN Reverse(shape) ELSE shape]

DenseTensor(j, name, shape) ==
    [scalar |-> IF j.flaw = "dense scalar" /\ name = <<"norm">> THEN "f16" ELSE "f32",
     shape |-> shape, owner |-> "own"]

Source(j) ==
    LET dense  == ModelParameters(j.base)
        expert == ExpertShapes(j.base, j.layout)
        extra  == IF j.flaw = "extra" THEN {<<"extra">>}
                  ELSE IF j.flaw = "ignored" THEN {<<"visual">>} ELSE {}
        first  == Joined([n \in DOMAIN dense |-> DenseTensor(j, n, dense[n])],
                         [n \in extra |-> [scalar |-> "f32", shape |-> <<1>>, owner |-> "own"]])
        second == [n \in DOMAIN expert |-> ExpertTensor(j, n, expert[n])]
        index  == Joined([n \in DOMAIN first |-> "first"], [n \in DOMAIN second |-> "second"])
    IN
    [metadata |-> IF j.flaw = "metadata" THEN "oversized" ELSE "bounded",
     places   |-> [first |-> "file", second |-> IF j.flaw = "link" THEN "link" ELSE "file"],
     files    |-> [first |-> first, second |-> second],
     index    |-> IF j.flaw = "misplaced" THEN [index EXCEPT ![<<"norm">>] = "second"]
                  ELSE IF j.flaw = "missing"
                  THEN [n \in DOMAIN index \ {<<"norm">>} |-> index[n]] ELSE index]

\* The converter reads the tensors of the directory, not of the index.
InDirectory(source) == Joined(source.files.first, source.files.second)

-----------------------------------------------------------------------------
Nothing == [dense |-> <<>>, experts |-> <<>>, scalar |-> "any", peak |-> 0, live |-> 0]

Init ==
    /\ job \in Jobs
    /\ phase = "source" /\ checkpoint = None /\ resident = None
    /\ groups = <<>> /\ staged = Nothing
    /\ directory = None /\ opened = None /\ loaded = None

Refuse == phase' = "refused"

\* The configuration is valid and the index fits it.
OpenSource ==
    /\ phase = "source"
    /\ LET found == IF Detect(job.config) THEN OpenCheckpoint(Source(job), job.config)
                                          ELSE Refused
       IN IF found = Refused THEN Refuse /\ UNCHANGED checkpoint
          ELSE phase' = "opened" /\ checkpoint' = found
    /\ UNCHANGED <<job, resident, groups, staged, directory, opened, loaded>>

\* The reference model.
LoadResident ==
    /\ phase = "opened" /\ resident = None
    /\ resident' = LoadResidentModel(Source(job), checkpoint)
    /\ UNCHANGED <<job, phase, checkpoint, groups, staged, directory, opened, loaded>>

\* convert_to_packed up to its experts.
ConvertDenseTensors ==
    /\ phase = "opened"
    /\ LET config == checkpoint.config
           files  == ConvertDense(InDirectory(Source(job)), DenseNames(config), job.maxBuffer)
       IN IF ~ValidOptions(job, config.experts) \/ files = Refused
          THEN Refuse /\ UNCHANGED <<groups, staged>>
          ELSE /\ phase' = "packing"
               /\ staged' = [staged EXCEPT !.dense = files, !.peak = DensePeak(files)]
               /\ groups' = GroupsOf(SparseLayers(config), config.experts, job.perFile)
    /\ UNCHANGED <<job, checkpoint, resident, directory, opened, loaded>>

\* One file of experts.
ConvertGroupOfExperts ==
    /\ phase = "packing" /\ groups # <<>>
    /\ LET work == ConvertExperts(InDirectory(Source(job)), checkpoint, Head(groups), job,
                                  staged.scalar)
       IN IF work = Refused THEN Refuse /\ UNCHANGED <<groups, staged>>
          ELSE /\ groups' = Tail(groups)
               /\ staged' = [staged EXCEPT
                    !.experts = Append(@, [file    |-> ExpertFile(Head(groups)),
                                           tensors |-> WritePackedRecords(work.records)]),
                    !.scalar = work.scalar,
                    !.peak = Max({@, work.peak}), !.live = Max({@, work.live})]
               /\ UNCHANGED phase
    /\ UNCHANGED <<job, checkpoint, resident, directory, opened, loaded>>

\* The files of a collection, by name.
OnDisk(written) == [f \in {w.file : w \in Range(written)} |->
    (CHOOSE w \in Range(written) : w.file = f).tensors]

\* A collection as the manifest records it: the files in the order they were
\* written in, and the digest of what a store then finds.
Recorded(written) ==
    [files |-> [n \in DOMAIN written |-> written[n].file],
     digest |-> OpenStore(OnDisk(written)).digest]

\* The configuration, the tokenizer, the manifest and the renaming.
Publish ==
    /\ phase = "packing" /\ groups = <<>>
    /\ LET config == checkpoint.config
           tokens == job.tokenizer # None
       IN IF tokens /\ ~LoadTokenizer(job.tokenizer, config.vocab)
          THEN Refuse /\ UNCHANGED directory
          ELSE /\ phase' = "published"
               /\ directory' =
                    [config |-> config, tokenizer |-> job.tokenizer, links |-> FALSE,
                     dense |-> OnDisk(staged.dense), experts |-> OnDisk(staged.experts),
                     manifest |-> Manifest(config, job, staged.scalar, job,
                                           Recorded(staged.dense), Recorded(staged.experts),
                                           tokens)]
    /\ UNCHANGED <<job, checkpoint, resident, groups, staged, opened, loaded>>

-----------------------------------------------------------------------------
(* The directory between publication and use *)

\* The same collection made from the weights of another checkpoint.
ForeignDense(files) ==
    [f \in DOMAIN files |-> [n \in DOMAIN files[f] |->
        [files[f][n] EXCEPT !.source.owner = "foreign"]]]

ForeignExperts(files) ==
    [f \in DOMAIN files |-> [n \in DOMAIN files[f] |->
        [files[f][n] EXCEPT !.bytes = [k \in DOMAIN @ |-> [@[k] EXCEPT !.owner = "foreign"]]]]]

Without(files) == [f \in DOMAIN files \ {CHOOSE f \in DOMAIN files : TRUE} |-> files[f]]

\* What may become of a directory that is kept: another configuration, another
\* statement in the manifest, a tokenizer added, replaced or removed, a link
\* instead of a copy, a collection replaced, a file lost.
Edits(d) ==
    {[d EXCEPT !.config = c] : c \in Variations(job.base)}
    \cup {[d EXCEPT !.manifest.scalar = Other(@)],
          [d EXCEPT !.manifest.tokenizer = ~@],
          [d EXCEPT !.links = TRUE],
          [d EXCEPT !.dense = ForeignDense(@)], [d EXCEPT !.experts = ForeignExperts(@)],
          [d EXCEPT !.dense = Without(@)], [d EXCEPT !.experts = Without(@)]}
    \cup {[d EXCEPT !.manifest.perFile = n] : n \in 1..job.base.experts}
    \cup {[d EXCEPT !.tokenizer = n] : n \in {None, d.config.vocab, d.config.vocab + 1}}

Edit ==
    /\ phase = "published" /\ opened = None /\ job.kept
    /\ \E d \in Edits(directory) :
         d # directory /\ directory' = d
    /\ phase' = "edited"
    /\ UNCHANGED <<job, checkpoint, resident, groups, staged, opened, loaded>>

-----------------------------------------------------------------------------
(* Using it *)

\* read_metadata and from_stores.
Accepts(d) ==
    /\ Detect(d.config) /\ Validate(d.config)
    /\ ValidateManifest(d.manifest, d.config, d.tokenizer # None)
    /\ Opens(d.manifest, d.config, OpenStore(d.dense), OpenStore(d.experts))

Open ==
    /\ phase \in {"published", "edited"} /\ opened = None
    /\ opened' = IF Accepts(directory) THEN [config |-> directory.config,
                                            manifest |-> directory.manifest] ELSE Refused
    /\ UNCHANGED <<job, phase, checkpoint, resident, groups, staged, directory, loaded>>

\* load_plain after its open: the tokenizer, the binding, the size of the
\* directory and the streamed model.
CanLoad(d, kept) ==
    /\ kept.manifest.tokenizer /\ LoadTokenizer(d.tokenizer, kept.config.vocab)
    /\ ~d.links
    /\ LoadStreamingModel(kept.config, OpenStore(d.dense), OpenStore(d.experts))

LoadPlain(d, kept) ==
    IF CanLoad(d, kept)
    THEN [config |-> kept.config, layout |-> StateLayout(kept.config),
          scalar |-> kept.manifest.scalar, context |-> kept.config.positions]
    ELSE Refused

Load ==
    /\ opened \notin {None, Refused} /\ loaded = None
    /\ loaded' = LoadPlain(directory, opened)
    /\ UNCHANGED <<job, phase, checkpoint, resident, groups, staged, directory, opened>>

Finished ==
    /\ phase = "refused" \/ loaded # None \/ opened = Refused
    /\ UNCHANGED vars

Next ==
    \/ OpenSource \/ LoadResident \/ ConvertDenseTensors \/ ConvertGroupOfExperts
    \/ Publish \/ Edit \/ Open \/ Load
    \/ Finished

Spec == Init /\ [][Next]_vars

-----------------------------------------------------------------------------
(* Properties *)

\* The experts of the streamed model: every record as the engine parses it.
StreamedExpert(experts, config, layer, expert) ==
    Parse(experts.inventory[PackedName(layer, expert)], MoeConfig(config))

Experts(config) == Range(SparseLayers(config)) \X (0..(config.experts - 1))

\* What is published can be used: the directory a conversion leaves behind
\* opens, its dense files are whole copies, every record parses, and its model
\* loads if it has a tokenizer, the reference model loads and the dense weights
\* have a size as F32.  No source with a wrong shape, mixed scalar types or
\* non-finite weights gets that far.
PublishedCanBeUsed ==
    phase = "published" =>
        LET config  == directory.config
            dense   == OpenStore(directory.dense)
            experts == OpenStore(directory.experts)
        IN
        /\ Accepts(directory)
        /\ \A f \in DOMAIN directory.dense : \A n \in DOMAIN directory.dense[f] :
             WholeCopy(directory.dense[f][n])
        /\ \A x \in Experts(config) :
             CanParse(experts.inventory[PackedName(x[1], x[2])], MoeConfig(config))
        /\ (/\ directory.tokenizer # None /\ DoesFit(MaterializedBytes(dense))
            /\ LoadResidentModel(Source(job), checkpoint) # Refused)
             => CanLoad(directory, [config |-> config, manifest |-> directory.manifest])

\* The packed form holds for every expert exactly the three matrices the
\* resident reference model computes that expert with.
StreamedIsResident ==
    (directory # None /\ phase = "published" /\ resident \notin {None, Refused}) =>
        LET experts == OpenStore(directory.experts) IN
        \A x \in Experts(checkpoint.config) :
            StreamedExpert(experts, checkpoint.config, x[1], x[2])
                = ResidentExpert(resident, checkpoint.config, x[1], x[2])

\* The bytes really held while experts are packed are within the peak the
\* report states, and the peak within the declared budget.
BuffersWithinBudget ==
    staged.live <= staged.peak /\ (staged.peak # 0 => staged.peak <= job.maxBuffer)

\* A model that loads is the converted one: whatever was changed in between,
\* its configuration is valid, asks for exactly the parameters of the original
\* weights, and every one of its experts parses to the matrices of the
\* original checkpoint, under its own name.
LoadedIsTheConverted ==
    loaded \notin {None, Refused} =>
        LET config   == loaded.config
            experts  == OpenStore(directory.experts)
            original == Source(job).files.second
        IN
        /\ Validate(config)
        /\ ModelParameters(config) = ModelParameters(job.base)
        /\ Experts(config) = Experts(job.base)
        /\ \A x \in Experts(config) :
             StreamedExpert(experts, config, x[1], x[2])
               = ResidentExpert(original, job.base, x[1], x[2])
        /\ \A x \in Experts(config) : loaded.scalar =
             experts.inventory[PackedName(x[1], x[2])].scalar

\* The shape of a session's cache as the configuration gives it.
CacheShape(c) ==
    LET KeyValue == <<c.kvHeads, InFamily(c, O!HeadDim(c), Q3!HeadDim(c), Q35!HeadDim(c)),
                      c.positions>>
    IN [layer \in 0..(c.layers - 1) |->
          IF c.family = "qwen3_5_moe" /\ ~Q35!IsFullLayer(c, layer)
          THEN <<c.kernel, Q35!ConvWidth(c), c.valueHeads, c.keyDim, c.valueDim>>
          ELSE KeyValue]

\* Power tells incompatible sessions apart by the weights and the state
\* layout: two configurations that load over the same weights with the same
\* layout have caches of the same shape.
LayoutFixesTheCache ==
    loaded \notin {None, Refused} =>
        \A c \in Variations(job.base) \cup {job.base} :
            LET d == [directory EXCEPT !.config = c] IN
            (/\ c # loaded.config /\ Detect(c) /\ Validate(c)
             /\ StateLayout(c) = loaded.layout /\ Accepts(d)
             /\ LoadStreamingModel(c, OpenStore(d.dense), OpenStore(d.experts)))
              => CacheShape(c) = CacheShape(loaded.config)

=============================================================================
