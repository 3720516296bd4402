----------------------------- MODULE PackedLayout -----------------------------
(***************************************************************************)
(* What the three families share in converting a checkpoint into the       *)
(* packed form (packing.rs) and in accepting a packed directory.           *)
(*                                                                         *)
(* A tensor is a record of scalar type, shape and content; the bytes of a  *)
(* dense tensor are only counted, those of an expert matrix are values     *)
(* (PackedRecord).  Tensors are named by tuples whose length is the kind:  *)
(* <<name>> is global, <<layer, name>> belongs to a layer and              *)
(* <<layer, expert, name>> to one expert.  A file name is the digits in    *)
(* it, the only part in which two names of a collection differ.  A digest  *)
(* is the content it is taken of.                                          *)
(***************************************************************************)
EXTENDS PackedRecord, FiniteSets, SequencesExt, FiniteSetsExt

CONSTANT DenseHeader     \* bytes of the header of a one-tensor file

ASSUME HeaderAssumption == DenseHeader \in Nat

-----------------------------------------------------------------------------
(* Names and files *)

\* Two collections by name as one; what the first holds hides the second's.
Joined(f, g) ==
    [x \in DOMAIN f \cup DOMAIN g |-> IF x \in DOMAIN f THEN f[x] ELSE g[x]]

\* Layers, experts and tensors are counted from zero.
Indices(n) == [k \in 1..n |-> k - 1]

PowersOfTen == <<10000, 1000, 100, 10, 1>>

DecimalDigits(n) == [d \in 1..5 |-> (n \div PowersOfTen[d]) % 10]

\* Mutation: a number without its zeros.
UnpaddedDigits(n) == LET d == DecimalDigits(n) IN
    IF n = 0 THEN <<0>> ELSE SubSeq(d, Min({k \in 1..5 : d[k] # 0}), 5)

\* {:05} of a number below 10^5: five digits, zeros first.
Padded(n) == DecimalDigits(n)

DenseFile(index) == Padded(index)

\* The file of a group of experts of one layer; the last one named is its last.
ExpertFile(g) == Padded(g.layer) \o Padded(g.first) \o Padded(g.end - 1)

\* How a directory listing orders two names: as strings.
Before(a, b) == \E n \in DOMAIN a \cup {Len(a) + 1} :
    /\ \A m \in 1..(n - 1) : m \in DOMAIN b /\ a[m] = b[m]
    /\ n \in DOMAIN b /\ (n \in DOMAIN a => a[n] < b[n])

\* The names of a directory in order: each after those that come before it.
Sorted(names) ==
    [n \in 1..Cardinality(names) |->
        CHOOSE a \in names : Cardinality({b \in names : Before(b, a)}) = n - 1]

\* Power's WeightStore over a directory: the files in order and the tensors by
\* name.
OpenStore(files) ==
    [files     |-> Sorted(DOMAIN files),
     inventory |-> [t \in UNION {DOMAIN files[f] : f \in DOMAIN files} |->
                      files[CHOOSE f \in DOMAIN files : t \in DOMAIN files[f]][t]],
     digest    |-> files]

-----------------------------------------------------------------------------
(* Dense tensors: one file each, copied in chunks *)

Elements(shape) ==
    LET product[n \in 0..Len(shape)] ==
            IF n = 0 THEN 1 ELSE product[n - 1] * shape[n]
    IN product[Len(shape)]

Size(tensor) == Elements(tensor.shape) * ByteWidth(tensor.scalar)

ValidOptions(options, experts) ==
    options.perFile \in 1..experts /\ options.maxBuffer # 0

\* The ranges of a tensor that are read one after the other and appended.
Ranges(bytes, chunk) ==
    [k \in 1..((bytes + chunk - 1) \div chunk) |->
        <<(k - 1) * chunk, Min({chunk, bytes - (k - 1) * chunk})>>]

\* The file of one dense tensor, in memory at most one chunk of it.
WriteRawTensor(source, name, chunk) ==
    [name |-> name, source |-> source[name], ranges |-> Ranges(Size(source[name]), chunk)]

CanWriteRaw(source, name, maxBuffer) ==
    /\ name \in DOMAIN source
    /\ source[name].scalar \in Scalars
    /\ DenseHeader <= maxBuffer

\* Every dense tensor in the order of its names.
ConvertDense(source, names, maxBuffer) ==
    IF \A n \in DOMAIN names : CanWriteRaw(source, names[n], maxBuffer)
    THEN [n \in DOMAIN names |-> [file |-> DenseFile(n - 1),
            tensors |-> [name \in {names[n]} |-> WriteRawTensor(source, name, maxBuffer)]]]
    ELSE Refused

\* The largest buffer reported for the dense tensors: a header or a chunk.
DensePeak(files) ==
    Max({DenseHeader} \cup UNION {UNION {{range[2] : range \in Range(f.tensors[n].ranges)} :
                                 n \in DOMAIN f.tensors} : f \in Range(files)})

\* A tensor copied range by range is the tensor: every range starts where the
\* one before it ends, the first at the start and the last at the end.
WholeCopy(written) ==
    LET End(k) == IF k = 0 THEN 0 ELSE written.ranges[k][1] + written.ranges[k][2] IN
    /\ \A k \in DOMAIN written.ranges : written.ranges[k][1] = End(k - 1)
    /\ End(Len(written.ranges)) = Size(written.source)

-----------------------------------------------------------------------------
(* Experts: groups of one layer, each expert one record *)

\* first, first + perFile, ... in every layer; the last group may be smaller.
GroupsOf(layers, experts, perFile) ==
    FlattenSeq([n \in DOMAIN layers |->
        [k \in 1..((experts + perFile - 1) \div perFile) |->
            [layer |-> layers[n], first |-> (k - 1) * perFile,
             end |-> Min({k * perFile, experts})]]])

Slice(bytes, from, count) == [k \in 1..count |-> bytes[from + k]]

MatrixNames(layer, expert) ==
    [m \in {"gate", "up", "down"} |-> <<layer, expert, m>>]

\* One expert of a checkpoint with three matrices per expert.
ReadSplit(source, moe, layer, expert) ==
    LET names == MatrixNames(layer, expert)
        Tensor(m) == source[names[m]]
    IN
    IF /\ Range(names) \subseteq DOMAIN source
       /\ \A m \in {"gate", "up"} : Tensor(m).shape = <<moe.intermediate, moe.hidden>>
       /\ Tensor("down").shape = <<moe.hidden, moe.intermediate>>
       /\ Tensor("gate").scalar \in Scalars
       /\ \A m \in {"up", "down"} : Tensor(m).scalar = Tensor("gate").scalar
    THEN [scalar |-> Tensor("gate").scalar, gate |-> Tensor("gate").bytes,
          up |-> Tensor("up").bytes, down |-> Tensor("down").bytes]
    ELSE Refused

FusedNames(layer) == {<<layer, "gate_up_proj">>, <<layer, "down_proj">>}

\* The two arrays of a fused layer have the shapes of all its experts and one
\* scalar type.
FusedValid(source, moe, layer) ==
    LET gateUp == source[<<layer, "gate_up_proj">>]
        down   == source[<<layer, "down_proj">>]
    IN
    /\ FusedNames(layer) \subseteq DOMAIN source
    /\ gateUp.shape = <<moe.experts, 2 * moe.intermediate, moe.hidden>>
    /\ down.shape = <<moe.experts, moe.hidden, moe.intermediate>>
    /\ gateUp.scalar \in Scalars /\ down.scalar = gateUp.scalar

\* Mutation: the offset of the down array is used for both.
GateUpOffsetOfDown(expert, section) == expert * section

\* Where an expert begins in the fused gate/up array.
GateUpOffset(expert, section) == expert * 2 * section

\* One expert of a fused layer: a slice of each array, the first one split.
ReadFused(source, moe, layer, expert) ==
    IF ~FusedValid(source, moe, layer) THEN Refused ELSE
    LET gateUp  == source[<<layer, "gate_up_proj">>]
        section == SectionBytes(moe, gateUp.scalar)
        pair    == Slice(gateUp.bytes, GateUpOffset(expert, section), 2 * section)
    IN [scalar |-> gateUp.scalar,
        gate |-> Slice(pair, 0, section), up |-> Slice(pair, section, section),
        down |-> Slice(source[<<layer, "down_proj">>].bytes, expert * section, section)]

\* Mutation: the records of the group are forgotten.
BufferedAlone(retained, sourceBytes) == sourceBytes + (sourceBytes + HeaderBytes)

\* What the converter computes it will hold while it encodes an expert: the
\* records of the group so far, the matrices it reads, and their record.
Buffered(retained, sourceBytes) == retained + sourceBytes + (sourceBytes + HeaderBytes)

EnsureBound(bytes, maxBuffer) == DoesFit(bytes) /\ bytes <= maxBuffer

\* One more expert of a group.  work.live is what is really held at most.
AddRecord(work, read, moe, name, options) ==
    LET sourceBytes == Len(read.gate) + Len(read.up) + Len(read.down)
        buffered    == Buffered(work.retained, sourceBytes)
        record      == EncodeRaw(moe, read.scalar, read.gate, read.up, read.down)
    IN
    IF \/ work = Refused \/ read = Refused
       \/ (work.scalar # "any" /\ read.scalar # work.scalar)
       \/ ~EnsureBound(buffered, options.maxBuffer)
       \/ record = Refused
    THEN Refused
    ELSE [records  |-> Append(work.records, <<name, record>>),
          retained |-> work.retained + EncodedLength(record),
          scalar   |-> read.scalar,
          peak     |-> Max({work.peak, buffered}),
          live     |-> Max({work.live,
                            work.retained + sourceBytes + EncodedLength(record)})]

PackedName(layer, expert) == <<layer, expert, "packed">>

GroupExperts(group) == group.first..(group.end - 1)

\* All experts of a group, read as given, refused as a whole when one of them is.  scalar is
\* the scalar type of the collection so far, "any" before the first expert.
ConvertGroup(read, group, moe, options, scalar) ==
    LET count == group.end - group.first
        work[n \in 0..count] ==
            IF n = 0
            THEN [records |-> <<>>, retained |-> 0, scalar |-> scalar, peak |-> 0, live |-> 0]
            ELSE AddRecord(work[n - 1], read[group.first + n - 1], moe,
                           PackedName(group.layer, group.first + n - 1), options)
    IN work[count]

\* The file of a group: every record one tensor of bytes.
WritePackedRecords(records) ==
    [name \in {r[1] : r \in Range(records)} |->
        (CHOOSE r \in Range(records) : r[1] = name)[2]]

\* The bytes the dense tensors take once they are loaded as F32.
MaterializedBytes(store) ==
    MapThenSumSet(LAMBDA name : 4 * Elements(store.inventory[name].source.shape),
                  DOMAIN store.inventory)

-----------------------------------------------------------------------------
(* Accepting a packed directory *)

\* A list of files is not empty and names each of them once.
ManifestFiles(files) == files # <<>> /\ IsInjective(files)

FileInventory(store, files) == store.files = files

DenseInventory(store, names) == DOMAIN store.inventory = Range(names)

\* One record of exactly the size of an expert for every expert of the layers,
\* and nothing else.
ExpertInventory(store, moe, scalar, layers) ==
    LET record == RecordBytes(SectionBytes(moe, scalar)) IN
    /\ DoesFit(record)
    /\ Cardinality(DOMAIN store.inventory) = Len(layers) * moe.experts
    /\ \A n \in DOMAIN layers, e \in 0..(moe.experts - 1) :
         /\ PackedName(layers[n], e) \in DOMAIN store.inventory
         /\ EncodedLength(store.inventory[PackedName(layers[n], e)]) = record

\* What a manifest must say to go with a configuration of the same geometry.
ManifestAgrees(m, moe, layers, denseCount, sparseCount) ==
    /\ m.hidden = moe.hidden /\ m.intermediate = moe.intermediate
    /\ m.layers = layers /\ m.experts = moe.experts
    /\ m.perFile \in 1..moe.experts
    /\ ManifestFiles(m.denseFiles) /\ ManifestFiles(m.expertFiles)
    /\ Len(m.denseFiles) = denseCount
    /\ Len(m.expertFiles) = sparseCount * ((moe.experts + m.perFile - 1) \div m.perFile)

\* Mutation: only the dense collection is verified.
DenseDigestHolds(m, dense, experts) == dense.digest = m.dense

DigestsHold(m, dense, experts) == dense.digest = m.dense /\ experts.digest = m.expert

=============================================================================
