--------------------------- MODULE CheckpointPublish ---------------------------
(***************************************************************************)
(* How packed and encrypted checkpoints come to be on disk and are opened: *)
(* convert_to_packed of the three families (packed_checkpoint/convert.rs), *)
(* encrypt_to_seekable (encrypted.rs) and OlmoePackedCheckpoint::open      *)
(* (model.rs), with any number of them at work on one packed and one       *)
(* encrypted destination, processes that die, and an operator who moves a  *)
(* destination away or creates an empty directory in its place.            *)
(*                                                                         *)
(* A part of a checkpoint is the conversion that wrote its content; equal  *)
(* digests are equal parts.  The tokenizer travels like config.json and is *)
(* left out.  All conversions are of one geometry, the case in which       *)
(* validate_manifest tells the least apart.                                *)
(***************************************************************************)
EXTENDS Naturals, Sequences

CONSTANTS Convert,     \* runs of convert_to_packed
          Encrypt,     \* runs of encrypt_to_seekable
          Reader,      \* calls of open on the packed destination
          MaxMoves,    \* bound: times the operator interferes
          None

ASSUME JobsAssumption ==
    /\ Convert \cap Encrypt = {} /\ None \notin Convert \cup Encrypt
    /\ MaxMoves \in Nat

VARIABLES dir,       \* [Path -> directory or None]: the two destinations
          staging,   \* [Job -> directory or None]: temporary directories
          pc,        \* [Job -> "new", "writing", "ready", "done", "failed", "crashed"]
          source,    \* [Job -> conversion]: the manifest the job works from
          rpc,       \* [Reader -> "reading", "opened" or "failed"]
          seen,      \* [Reader -> [Part -> conversion or None]]
          moves      \* operator actions so far

vars == <<dir, staging, pc, source, rpc, seen, moves>>

-----------------------------------------------------------------------------
Job  == Convert \cup Encrypt
Part == {"config", "manifest", "dense", "experts"}
Path == {"packed", "encrypted"}

Target(j) == IF j \in Convert THEN "packed" ELSE "encrypted"

NoParts  == [p \in Part |-> None]
EmptyDir == [parts |-> NoParts, seal |-> None]

\* The order in which the parts are written, and in which open reads them.
Plan(j) == IF j \in Convert THEN <<"dense", "experts", "config", "manifest">>
                            ELSE <<"config", "manifest", "dense", "experts">>
ReadPlan == <<"config", "manifest", "dense", "experts">>

\* The first part of a plan that is not there yet.
NextPart(plan, parts) ==
    plan[CHOOSE n \in DOMAIN plan : /\ parts[plan[n]] = None
                                    /\ \A m \in 1..(n - 1) : parts[plan[m]] # None]

\* The content of a part of the packed destination now, None if it has none.
Packed(p) == IF dir["packed"] = None THEN None ELSE dir["packed"].parts[p]

\* A directory in which every part is there.
Full(d) == \A p \in Part : d.parts[p] # None

\* The weights are those the manifest carries the digests of.
WeightsMatch(parts) ==
    parts["dense"] = parts["manifest"] /\ parts["experts"] = parts["manifest"]

Init ==
    /\ dir = [path \in Path |-> None]
    /\ staging = [j \in Job |-> None]
    /\ pc = [j \in Job |-> "new"]
    /\ source = [j \in Job |-> None]
    /\ rpc = [r \in Reader |-> "reading"]
    /\ seen = [r \in Reader |-> NoParts]
    /\ moves = 0

-----------------------------------------------------------------------------
(* Conversion and encryption *)

\* What a part is written from: the converted source, or what is in the packed
\* directory now.
Content(j, p) == IF j \in Convert THEN j ELSE Packed(p)

\* The destination does not exist yet and a staging directory is created next
\* to it.  An encryption starts from a packed checkpoint that was opened.
Begin(j) ==
    /\ pc[j] = "new"
    /\ dir[Target(j)] = None
    /\ Content(j, "manifest") # None
    /\ source' = [source EXCEPT ![j] = Content(j, "manifest")]
    /\ staging' = [staging EXCEPT ![j] = EmptyDir]
    /\ pc' = [pc EXCEPT ![j] = "writing"]
    /\ UNCHANGED <<dir, rpc, seen, moves>>

\* The destination exists: refused.
Refused(j) ==
    /\ pc[j] = "new" /\ dir[Target(j)] # None
    /\ pc' = [pc EXCEPT ![j] = "failed"]
    /\ UNCHANGED <<dir, staging, source, rpc, seen, moves>>

WritePart(j) ==
    /\ pc[j] = "writing" /\ ~Full(staging[j])
    /\ LET p == NextPart(Plan(j), staging[j].parts) IN
         /\ Content(j, p) # None
         /\ staging' = [staging EXCEPT ![j].parts[p] = Content(j, p)]
    /\ UNCHANGED <<dir, pc, source, rpc, seen, moves>>

\* A conversion is complete with its manifest.
Complete(j) ==
    /\ j \in Convert /\ pc[j] = "writing" /\ Full(staging[j])
    /\ pc' = [pc EXCEPT ![j] = "ready"]
    /\ UNCHANGED <<dir, staging, source, rpc, seen, moves>>

\* An encryption checks the weights it read against the manifest it opened and
\* begins the top manifest.  The digests of config.json and manifest.json are
\* taken from the packed directory one after the other, where each may be of
\* another conversion by now: first that of config.json,
HashConfig(j) ==
    /\ j \in Encrypt /\ pc[j] = "writing" /\ Full(staging[j])
    /\ staging[j].seal = None
    /\ staging[j].parts["dense"] = source[j] /\ staging[j].parts["experts"] = source[j]
    /\ Packed("config") # None
    /\ staging' = [staging EXCEPT ![j].seal =
            [config |-> Packed("config"), manifest |-> None, weights |-> source[j]]]
    /\ UNCHANGED <<dir, pc, source, rpc, seen, moves>>

\* and then that of manifest.json, with which the top manifest is complete.
Seal(j) ==
    /\ j \in Encrypt /\ pc[j] = "writing"
    /\ staging[j].seal # None /\ staging[j].seal.manifest = None
    /\ Packed("manifest") # None
    /\ staging' = [staging EXCEPT ![j].seal.manifest = Packed("manifest")]
    /\ UNCHANGED <<dir, pc, source, rpc, seen, moves>>

\* What opening an encrypted directory verifies: metadata and weights are the
\* ones the top manifest binds.
SealHolds(d) ==
    /\ d.seal # None
    /\ d.parts["config"] = d.seal.config /\ d.parts["manifest"] = d.seal.manifest
    /\ d.parts["manifest"] = d.seal.weights
    /\ WeightsMatch(d.parts)

\* Mutation: it is published unread.
ReopenedSkipped(j) ==
    /\ pc[j] = "writing"
    /\ staging[j].seal # None /\ staging[j].seal.manifest # None
    /\ pc' = [pc EXCEPT ![j] = "ready"]
    /\ UNCHANGED <<dir, staging, source, rpc, seen, moves>>

\* The staged encryption is opened and verified before it is published.
Reopened(j) ==
    /\ pc[j] = "writing"
    /\ SealHolds(staging[j])
    /\ pc' = [pc EXCEPT ![j] = "ready"]
    /\ UNCHANGED <<dir, staging, source, rpc, seen, moves>>

\* Mutation: a rename that replaces.
CanRenameAlways(path) == TRUE

\* rename of a directory: onto nothing or onto an empty directory.
CanRename(path) == dir[path] \in {None, EmptyDir}

\* The staging directory becomes the destination.
Publish(j) ==
    /\ pc[j] = "ready" /\ CanRename(Target(j))
    /\ dir' = [dir EXCEPT ![Target(j)] = staging[j]]
    /\ staging' = [staging EXCEPT ![j] = None]
    /\ pc' = [pc EXCEPT ![j] = "done"]
    /\ UNCHANGED <<source, rpc, seen, moves>>

\* Any error, a rename that fails among them: the staging directory is removed
\* (by its guard, or by hand once the guard let go of it).
Fails(j) ==
    /\ pc[j] \in {"writing", "ready"}
    /\ staging' = [staging EXCEPT ![j] = None]
    /\ pc' = [pc EXCEPT ![j] = "failed"]
    /\ UNCHANGED <<dir, source, rpc, seen, moves>>

\* The process dies and leaves what it staged.
Crash(j) ==
    /\ pc[j] \in {"writing", "ready"}
    /\ pc' = [pc EXCEPT ![j] = "crashed"]
    /\ UNCHANGED <<dir, staging, source, rpc, seen, moves>>

-----------------------------------------------------------------------------
(* Opening the packed destination *)

\* Both collections have the digests of the manifest that was read.
DigestsHoldForDense(parts) == parts["dense"] = parts["manifest"]

DigestsHold(parts) == WeightsMatch(parts)

Read(r) == \A p \in Part : seen[r][p] # None

\* open reads the next part from what is at the path by now.
ReadPart(r) ==
    /\ rpc[r] = "reading" /\ ~Read(r)
    /\ LET p == NextPart(ReadPlan, seen[r]) IN
         /\ Packed(p) # None
         /\ seen' = [seen EXCEPT ![r][p] = Packed(p)]
    /\ UNCHANGED <<dir, staging, pc, source, rpc, moves>>

Opened(r) ==
    /\ rpc[r] = "reading" /\ Read(r) /\ DigestsHold(seen[r])
    /\ rpc' = [rpc EXCEPT ![r] = "opened"]
    /\ UNCHANGED <<dir, staging, pc, source, seen, moves>>

\* A part is not there, or the digests do not hold.
OpenFails(r) ==
    /\ rpc[r] = "reading"
    /\ IF Read(r) THEN ~DigestsHold(seen[r])
                  ELSE Packed(NextPart(ReadPlan, seen[r])) = None
    /\ rpc' = [rpc EXCEPT ![r] = "failed"]
    /\ UNCHANGED <<dir, staging, pc, source, seen, moves>>

-----------------------------------------------------------------------------
(* The operator *)

MoveAway(path) ==
    /\ moves < MaxMoves /\ dir[path] # None
    /\ dir' = [dir EXCEPT ![path] = None]
    /\ moves' = moves + 1
    /\ UNCHANGED <<staging, pc, source, rpc, seen>>

MakeDirectory(path) ==
    /\ moves < MaxMoves /\ dir[path] = None
    /\ dir' = [dir EXCEPT ![path] = EmptyDir]
    /\ moves' = moves + 1
    /\ UNCHANGED <<staging, pc, source, rpc, seen>>

Next ==
    \/ \E j \in Job :
         \/ Begin(j) \/ Refused(j) \/ WritePart(j)
         \/ Publish(j) \/ Fails(j) \/ Crash(j)
    \/ \E j \in Convert : Complete(j)
    \/ \E j \in Encrypt : HashConfig(j) \/ Seal(j) \/ Reopened(j)
    \/ \E r \in Reader : ReadPart(r) \/ Opened(r) \/ OpenFails(r)
    \/ \E path \in Path : MoveAway(path) \/ MakeDirectory(path)

Spec == Init /\ [][Next]_vars

-----------------------------------------------------------------------------
(* Properties *)

Directory(versions) ==
    [parts : [Part -> versions \cup {None}],
     seal  : [config : versions, manifest : versions \cup {None}, weights : versions]
             \cup {None}]

TypeOK ==
    /\ dir \in [Path -> Directory(Convert) \cup {None}]
    /\ staging \in [Job -> Directory(Convert) \cup {None}]
    /\ pc \in [Job -> {"new", "writing", "ready", "done", "failed", "crashed"}]
    /\ source \in [Job -> Convert \cup {None}]
    /\ rpc \in [Reader -> {"reading", "opened", "failed"}]
    /\ seen \in [Reader -> [Part -> Convert \cup {None}]]
    /\ moves \in 0..MaxMoves

\* Whoever looks at a destination finds nothing, an empty directory somebody
\* else made, or a complete checkpoint: all parts of one finished conversion,
\* and in the encrypted one exactly what its top manifest binds, even when the
\* packed directory was exchanged while it was being encrypted.
DestinationComplete ==
    \A path \in Path : dir[path] \notin {None, EmptyDir} =>
        /\ Full(dir[path])
        /\ WeightsMatch(dir[path].parts)
        /\ \A p \in Part : pc[dir[path].parts[p]] = "done"
        /\ path = "packed" => dir[path].parts["config"] = dir[path].parts["manifest"]
        /\ path = "encrypted" => SealHolds(dir[path])

\* A published checkpoint is never replaced by another run, although its
\* existence is only checked before the long work begins.
PublishedStays ==
    [][\A path \in Path :
         dir[path] \notin {None, EmptyDir} => dir'[path] \in {dir[path], None}]_vars

\* A checkpoint that opens has the weights of the manifest it was opened with,
\* and nothing of a conversion that did not finish, although its parts are
\* read one after the other from a directory that may be exchanged meanwhile.
OpenedConsistent ==
    \A r \in Reader : rpc[r] = "opened" =>
        /\ WeightsMatch(seen[r])
        /\ \A p \in Part : pc[seen[r][p]] = "done"

=============================================================================
