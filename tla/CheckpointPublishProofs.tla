------------------------ MODULE CheckpointPublishProofs ------------------------
(***************************************************************************)
(* CheckpointPublish for any number of conversions, encryptions, readers   *)
(* and operator moves.  A conversion only stages its own parts and a       *)
(* finished run stays finished (Staged), so what is renamed into place is  *)
(* complete (DestinationComplete), and a reader only meets parts of        *)
(* finished runs (SeenDone).                                               *)
(***************************************************************************)
EXTENDS CheckpointPublish, TLAPS

Busy == {"writing", "ready"}

\* What a running job has staged: a conversion its own parts, an encryption
\* parts of finished conversions; when it is ready, everything.
StagedOf(j) ==
    pc[j] \in Busy =>
        /\ staging[j] \in Directory(Convert)
        /\ j \in Convert => /\ staging[j].seal = None
                            /\ \A p \in Part : staging[j].parts[p] \in {None, j}
        /\ j \in Encrypt => \A p \in Part :
                staging[j].parts[p] # None => pc[staging[j].parts[p]] = "done"
        /\ pc[j] = "ready" => /\ Full(staging[j])
                              /\ j \in Encrypt => SealHolds(staging[j])

Staged == \A j \in Job : StagedOf(j)

\* Readers only met parts of finished conversions.
SeenDone ==
    \A r \in Reader :
        /\ \A p \in Part : seen[r][p] # None => pc[seen[r][p]] = "done"
        /\ rpc[r] = "opened" => Read(r) /\ DigestsHold(seen[r])

Inv == TypeOK /\ Staged /\ DestinationComplete /\ SeenDone

\* What the packed destination holds is of finished conversions.
LEMMA PackedDone ==
    ASSUME JobsAssumption, TypeOK, DestinationComplete, NEW p \in Part
    PROVE  /\ Packed(p) \in Convert \cup {None}
           /\ Packed(p) # None => pc[Packed(p)] = "done"
<1>1. CASE dir["packed"] = None
  BY <1>1 DEF Packed
<1>2. CASE dir["packed"] = EmptyDir
  BY <1>2 DEF Packed, EmptyDir, NoParts
<1>3. CASE dir["packed"] \notin {None, EmptyDir}
  <2>1. "packed" \in Path /\ dir["packed"] \in Directory(Convert)
    BY <1>3 DEF TypeOK, Path
  <2>2. dir["packed"].parts[p] \in Convert \cup {None}
    BY <2>1 DEF Directory
  <2>3. pc[dir["packed"].parts[p]] = "done"
    BY <1>3, <2>1 DEF DestinationComplete
  <2> QED  BY <1>3, <2>2, <2>3 DEF Packed
<1> QED  BY <1>1, <1>2, <1>3

\* A step in which no job that is done changes and no directory does, keeps
\* what the destinations promise.
LEMMA DestinationsKept ==
    ASSUME DestinationComplete, UNCHANGED dir,
           \A v : pc[v] = "done" => pc'[v] = "done"
    PROVE  DestinationComplete'
BY DEF DestinationComplete, Full, SealHolds, WeightsMatch, EmptyDir, NoParts

\* A reader that opened keeps what it saw, whatever is exchanged afterwards.
LEMMA ReadersKept ==
    ASSUME SeenDone, UNCHANGED <<seen, rpc>>,
           \A v : pc[v] = "done" => pc'[v] = "done"
    PROVE  SeenDone'
BY DEF SeenDone, Read, DigestsHold

\* A job that neither stages nor changes its own phase keeps its staging.
LEMMA StagedKept ==
    ASSUME NEW j \in Job, StagedOf(j), staging'[j] = staging[j], pc'[j] = pc[j],
           \A v : pc[v] = "done" => pc'[v] = "done"
    PROVE  StagedOf(j)'
BY DEF StagedOf, Directory, Full, SealHolds, WeightsMatch, Busy

\* The inductive invariant: what runs have staged, what destinations hold and what
\* readers met are parts of finished conversions.
THEOREM InvariantCorrect == Spec => []Inv
<1> USE JobsAssumption
<1>1. Init => Inv
  <2> SUFFICES ASSUME Init PROVE Inv
    OBVIOUS
  <2>1. TypeOK
    BY DEF Init, TypeOK, NoParts
  <2>2. Staged
    BY DEF Init, Staged, StagedOf, Busy
  <2>3. DestinationComplete
    BY DEF Init, DestinationComplete
  <2>4. SeenDone
    BY DEF Init, SeenDone, NoParts
  <2> QED  BY <2>1, <2>2, <2>3, <2>4 DEF Inv
<1>2. Inv /\ [Next]_vars => Inv'
  <2> SUFFICES ASSUME Inv, [Next]_vars PROVE Inv'
    OBVIOUS
  <2>i. TypeOK /\ Staged /\ DestinationComplete /\ SeenDone
    BY DEF Inv
  <2>j. /\ \A j \in Convert : j \in Job /\ j \notin Encrypt /\ j # None
        /\ \A j \in Encrypt : j \in Job /\ j \notin Convert /\ j # None
        /\ \A j \in Job : j \in Convert \/ j \in Encrypt
    BY DEF JobsAssumption, Job
  <2>1. ASSUME NEW j \in Job, Begin(j)
        PROVE  Inv'
    <3>1. Content(j, "manifest") \in Convert
      BY <2>1, <2>i, <2>j, PackedDone DEF Begin, Content, Part
    <3>2. \A v : pc[v] = "done" => pc'[v] = "done"
      BY <2>1, <2>i DEF Begin, TypeOK
    <3>3. EmptyDir \in Directory(Convert)
      BY DEF EmptyDir, NoParts, Directory
    <3>4. TypeOK'
      BY <2>1, <2>i, <3>1, <3>3 DEF Begin, TypeOK
    <3>5. StagedOf(j)'
      BY <2>1, <2>i, <3>3 DEF Begin, TypeOK, StagedOf, EmptyDir, NoParts, Busy
    <3>6. \A k \in Job : k # j => StagedOf(k)'
      BY <2>1, <2>i, <3>2, StagedKept DEF Begin, TypeOK, Staged
    <3>7. DestinationComplete' /\ SeenDone'
      BY <2>1, <2>i, <3>2, DestinationsKept, ReadersKept DEF Begin
    <3> QED  BY <3>4, <3>5, <3>6, <3>7 DEF Inv, Staged
  <2>2. ASSUME NEW j \in Job, Refused(j)
        PROVE  Inv'
    <3>2. \A v : pc[v] = "done" => pc'[v] = "done"
      BY <2>2, <2>i DEF Refused, TypeOK
    <3>4. TypeOK'
      BY <2>2, <2>i DEF Refused, TypeOK
    <3>5. StagedOf(j)'
      BY <2>2, <2>i DEF Refused, TypeOK, StagedOf, Busy
    <3>6. \A k \in Job : k # j => StagedOf(k)'
      BY <2>2, <2>i, <3>2, StagedKept DEF Refused, TypeOK, Staged
    <3>7. DestinationComplete' /\ SeenDone'
      BY <2>2, <2>i, <3>2, DestinationsKept, ReadersKept DEF Refused
    <3> QED  BY <3>4, <3>5, <3>6, <3>7 DEF Inv, Staged
  <2>3. ASSUME NEW j \in Job, WritePart(j)
        PROVE  Inv'
    <3> DEFINE p == NextPart(Plan(j), staging[j].parts)
               c == Content(j, p)
    <3>1. /\ c # None
          /\ staging' = [staging EXCEPT ![j].parts[p] = c]
          /\ pc[j] = "writing"
          /\ UNCHANGED <<dir, pc, source, rpc, seen, moves>>
      BY <2>3 DEF WritePart
    <3>2. p \in Part => /\ c \in Convert
                        /\ j \in Convert => c = j
                        /\ j \in Encrypt => pc[c] = "done"
      BY <3>1, <2>i, <2>j, PackedDone DEF Content
    <3> HIDE DEF p, c
    <3>3. StagedOf(j) /\ staging[j] \in Directory(Convert)
      BY <2>i, <3>1 DEF Staged, StagedOf, Busy
    <3>4. /\ staging'[j] = [staging[j] EXCEPT !.parts = [@ EXCEPT ![p] = c]]
          /\ \A k \in Job : k # j => staging'[k] = staging[k]
      BY <3>1, <2>i DEF TypeOK
    <3>5. /\ staging'[j].seal = staging[j].seal
          /\ staging'[j].parts = [staging[j].parts EXCEPT ![p] = c]
          /\ staging'[j] \in Directory(Convert)
      BY <3>2, <3>3, <3>4 DEF Directory
    <3>6. \A q \in Part : staging'[j].parts[q] = IF q = p THEN c ELSE staging[j].parts[q]
      BY <3>3, <3>5 DEF Directory
    <3>7. StagedOf(j)'
      BY <3>1, <3>2, <3>3, <3>5, <3>6 DEF StagedOf, Busy
    <3>8. \A k \in Job : k # j => StagedOf(k)'
      BY <3>1, <3>4, <2>i, StagedKept DEF Staged
    <3>9. TypeOK'
      BY <3>1, <3>4, <3>5, <2>i DEF TypeOK
    <3>10. DestinationComplete' /\ SeenDone'
      BY <3>1, <2>i, DestinationsKept, ReadersKept
    <3> QED  BY <3>7, <3>8, <3>9, <3>10 DEF Inv, Staged
  <2>4. ASSUME NEW j \in Convert, Complete(j)
        PROVE  Inv'
    <3>2. \A v : pc[v] = "done" => pc'[v] = "done"
      BY <2>4, <2>i, <2>j DEF Complete, TypeOK
    <3>4. TypeOK'
      BY <2>4, <2>i, <2>j DEF Complete, TypeOK
    <3>5. StagedOf(j)'
      BY <2>4, <2>i, <2>j DEF Complete, TypeOK, Staged, StagedOf, Busy, Full, Directory
    <3>6. \A k \in Job : k # j => StagedOf(k)'
      BY <2>4, <2>i, <3>2, StagedKept DEF Complete, TypeOK, Staged
    <3>7. DestinationComplete' /\ SeenDone'
      BY <2>4, <2>i, <3>2, DestinationsKept, ReadersKept DEF Complete
    <3> QED  BY <3>4, <3>5, <3>6, <3>7 DEF Inv, Staged
  <2>5. ASSUME NEW j \in Encrypt, HashConfig(j)
        PROVE  Inv'
    <3> DEFINE seal == [config |-> Packed("config"), manifest |-> None, weights |-> source[j]]
    <3>1. /\ Packed("config") # None
          /\ staging' = [staging EXCEPT ![j].seal = seal]
          /\ pc[j] = "writing" /\ Full(staging[j])
          /\ staging[j].parts["dense"] = source[j]
          /\ UNCHANGED <<dir, pc, source, rpc, seen, moves>>
      BY <2>5 DEF HashConfig
    <3>3. StagedOf(j) /\ staging[j] \in Directory(Convert)
      BY <2>i, <2>j, <3>1 DEF Staged, StagedOf, Busy
    <3>2. seal \in [config : Convert, manifest : Convert \cup {None}, weights : Convert]
      <4>1. Packed("config") \in Convert
        BY <3>1, <2>i, PackedDone DEF Part
      <4>2. source[j] \in Convert
        BY <3>1, <3>3 DEF Full, Directory, Part
      <4> QED  BY <4>1, <4>2
    <3> HIDE DEF seal
    <3>4. /\ staging'[j] = [staging[j] EXCEPT !.seal = seal]
          /\ \A k \in Job : k # j => staging'[k] = staging[k]
      BY <3>1, <2>i, <2>j DEF TypeOK
    <3>5. /\ staging'[j].parts = staging[j].parts
          /\ staging'[j] \in Directory(Convert)
      BY <3>2, <3>3, <3>4 DEF Directory
    <3>7. StagedOf(j)'
      BY <2>j, <3>1, <3>3, <3>5 DEF StagedOf, Busy
    <3>8. \A k \in Job : k # j => StagedOf(k)'
      BY <3>1, <3>4, <2>i, StagedKept DEF Staged
    <3>9. TypeOK'
      BY <3>1, <3>4, <3>5, <2>i DEF TypeOK
    <3>10. DestinationComplete' /\ SeenDone'
      BY <3>1, <2>i, DestinationsKept, ReadersKept
    <3> QED  BY <3>7, <3>8, <3>9, <3>10 DEF Inv, Staged
  <2>5b. ASSUME NEW j \in Encrypt, Seal(j)
         PROVE  Inv'
    <3> DEFINE seal == [staging[j].seal EXCEPT !.manifest = Packed("manifest")]
    <3>1. /\ Packed("manifest") # None /\ staging[j].seal # None
          /\ staging' = [staging EXCEPT ![j].seal.manifest = Packed("manifest")]
          /\ pc[j] = "writing"
          /\ UNCHANGED <<dir, pc, source, rpc, seen, moves>>
      BY <2>5b DEF Seal
    <3>3. StagedOf(j) /\ staging[j] \in Directory(Convert)
      BY <2>i, <2>j, <3>1 DEF Staged, StagedOf, Busy
    <3>2. seal \in [config : Convert, manifest : Convert \cup {None}, weights : Convert]
      <4>1. Packed("manifest") \in Convert
        BY <3>1, <2>i, PackedDone DEF Part
      <4>2. staging[j].seal \in
              [config : Convert, manifest : Convert \cup {None}, weights : Convert]
        BY <3>1, <3>3 DEF Directory
      <4> QED  BY <4>1, <4>2
    <3>4. /\ staging'[j] = [staging[j] EXCEPT !.seal = seal]
          /\ \A k \in Job : k # j => staging'[k] = staging[k]
      BY <3>1, <2>i, <2>j DEF TypeOK
    <3> HIDE DEF seal
    <3>5. /\ staging'[j].parts = staging[j].parts
          /\ staging'[j] \in Directory(Convert)
      BY <3>2, <3>3, <3>4 DEF Directory
    <3>7. StagedOf(j)'
      BY <2>j, <3>1, <3>3, <3>5 DEF StagedOf, Busy
    <3>8. \A k \in Job : k # j => StagedOf(k)'
      BY <3>1, <3>4, <2>i, StagedKept DEF Staged
    <3>9. TypeOK'
      BY <3>1, <3>4, <3>5, <2>i DEF TypeOK
    <3>10. DestinationComplete' /\ SeenDone'
      BY <3>1, <2>i, DestinationsKept, ReadersKept
    <3> QED  BY <3>7, <3>8, <3>9, <3>10 DEF Inv, Staged
  <2>6. ASSUME NEW j \in Encrypt, Reopened(j)
        PROVE  Inv'
    <3>2. \A v : pc[v] = "done" => pc'[v] = "done"
      BY <2>6, <2>i, <2>j DEF Reopened, TypeOK
    <3>4. TypeOK'
      BY <2>6, <2>i, <2>j DEF Reopened, TypeOK
    <3>1. /\ pc[j] = "writing" /\ pc'[j] = "ready" /\ staging' = staging
          /\ SealHolds(staging[j])
      BY <2>6, <2>i, <2>j DEF Reopened, TypeOK
    <3>3. StagedOf(j) /\ staging[j] \in Directory(Convert)
      BY <2>i, <2>j, <3>1 DEF Staged, StagedOf, Busy
    <3>8. Full(staging[j])
      BY <3>1, <3>3, <2>j DEF SealHolds, WeightsMatch, Full, Directory, Part
    <3>5. StagedOf(j)'
      BY <3>1, <3>2, <3>3, <3>8, <2>j DEF StagedOf, Busy, Full, SealHolds, WeightsMatch
    <3>6. \A k \in Job : k # j => StagedOf(k)'
      BY <2>6, <2>i, <3>2, StagedKept DEF Reopened, TypeOK, Staged
    <3>7. DestinationComplete' /\ SeenDone'
      BY <2>6, <2>i, <3>2, DestinationsKept, ReadersKept DEF Reopened
    <3> QED  BY <3>4, <3>5, <3>6, <3>7 DEF Inv, Staged
  <2>7. ASSUME NEW j \in Job, Publish(j)
        PROVE  Inv'
    <3>1. /\ pc[j] = "ready" /\ pc' = [pc EXCEPT ![j] = "done"]
          /\ dir' = [dir EXCEPT ![Target(j)] = staging[j]]
          /\ staging' = [staging EXCEPT ![j] = None]
          /\ UNCHANGED <<source, rpc, seen, moves>>
      BY <2>7 DEF Publish
    <3>2. \A v : pc[v] = "done" => pc'[v] = "done"
      BY <3>1, <2>i DEF TypeOK
    <3>3. /\ staging[j] \in Directory(Convert) /\ Full(staging[j])
          /\ j \in Convert => \A p \in Part : staging[j].parts[p] = j
          /\ j \in Encrypt => /\ SealHolds(staging[j])
                              /\ \A p \in Part : pc[staging[j].parts[p]] = "done"
      BY <3>1, <2>i, <2>j DEF Staged, StagedOf, Busy, Full
    <3>4. Target(j) \in Path /\ (j \in Convert <=> Target(j) = "packed")
      BY <2>j DEF Target, Path
    <3>5. TypeOK'
      BY <3>1, <3>3, <3>4, <2>i DEF TypeOK
    <3>6. StagedOf(j)'
      BY <3>1, <2>i DEF TypeOK, StagedOf, Busy
    <3>7. \A k \in Job : k # j => StagedOf(k)'
      BY <3>1, <3>2, <2>i, StagedKept DEF TypeOK, Staged
    <3>8. ASSUME NEW path \in Path, dir'[path] \notin {None, EmptyDir}
          PROVE  /\ Full(dir'[path]) /\ WeightsMatch(dir'[path].parts)
                 /\ \A p \in Part : pc'[dir'[path].parts[p]] = "done"
                 /\ path = "packed" => dir'[path].parts["config"] = dir'[path].parts["manifest"]
                 /\ path = "encrypted" => SealHolds(dir'[path])
      <4>1. CASE path # Target(j)
        <5>1. dir'[path] = dir[path]
          BY <4>1, <3>1, <2>i DEF TypeOK
        <5> QED  BY <5>1, <3>2, <3>8, <2>i DEF DestinationComplete
      <4>2. CASE path = Target(j) /\ j \in Convert
        <5>1. dir'[path] = staging[j] /\ path = "packed" /\ pc'[j] = "done"
          BY <4>2, <3>1, <3>4, <2>i DEF TypeOK
        <5> QED  BY <5>1, <4>2, <3>3 DEF WeightsMatch, Part
      <4>3. CASE path = Target(j) /\ j \in Encrypt
        <5>1. dir'[path] = staging[j] /\ path = "encrypted"
          BY <4>3, <3>1, <3>4, <2>i, <2>j DEF TypeOK, Target
        <5> QED  BY <5>1, <4>3, <3>2, <3>3 DEF SealHolds
      <4> QED  BY <4>1, <4>2, <4>3, <2>j
    <3>9. DestinationComplete'
      BY <3>8 DEF DestinationComplete, Full, SealHolds, WeightsMatch, EmptyDir, NoParts
    <3>10. SeenDone'
      BY <3>1, <3>2, <2>i, ReadersKept
    <3> QED  BY <3>5, <3>6, <3>7, <3>9, <3>10 DEF Inv, Staged
  <2>8. ASSUME NEW j \in Job, Fails(j) \/ Crash(j)
        PROVE  Inv'
    <3>1. UNCHANGED <<dir, source, rpc, seen, moves>>
      BY <2>8 DEF Fails, Crash
    <3>3. pc'[j] \notin Busy
      <4>1. pc \in [Job -> {"new", "writing", "ready", "done", "failed", "crashed"}]
        BY <2>i DEF TypeOK
      <4>2. pc' = [pc EXCEPT ![j] = "failed"] \/ pc' = [pc EXCEPT ![j] = "crashed"]
        BY <2>8 DEF Fails, Crash
      <4>3. pc'[j] \in {"failed", "crashed"}
        BY <4>1, <4>2
      <4> QED  BY <4>3 DEF Busy
    <3>2. \A v : pc[v] = "done" => pc'[v] = "done"
      <4>1. /\ pc \in [Job -> {"new", "writing", "ready", "done", "failed", "crashed"}]
            /\ pc[j] # "done"
        BY <2>8, <2>i DEF Fails, Crash, TypeOK
      <4>2. CASE pc' = [pc EXCEPT ![j] = "failed"]
        BY <4>1, <4>2
      <4>3. CASE pc' = [pc EXCEPT ![j] = "crashed"]
        BY <4>1, <4>3
      <4> QED  BY <2>8, <4>2, <4>3 DEF Fails, Crash
    <3>4. TypeOK'
      BY <2>8, <2>i DEF Fails, Crash, TypeOK
    <3>5. StagedOf(j)'
      BY <3>3 DEF StagedOf
    <3>6. \A k \in Job : k # j => StagedOf(k)'
      BY <2>8, <3>2, <2>i, StagedKept DEF Fails, Crash, TypeOK, Staged
    <3>7. DestinationComplete' /\ SeenDone'
      BY <3>1, <3>2, <2>i, DestinationsKept, ReadersKept
    <3> QED  BY <3>4, <3>5, <3>6, <3>7 DEF Inv, Staged
  <2>9. ASSUME NEW r \in Reader, ReadPart(r)
        PROVE  Inv'
    <3> DEFINE p == NextPart(ReadPlan, seen[r])
               c == Packed(p)
    <3>1. /\ c # None /\ seen' = [seen EXCEPT ![r][p] = c] /\ rpc[r] = "reading"
          /\ UNCHANGED <<dir, staging, pc, source, rpc, moves>>
      BY <2>9 DEF ReadPart
    <3>2. p \in Part => c \in Convert /\ pc[c] = "done"
      BY <3>1, <2>i, PackedDone
    <3> HIDE DEF p, c
    <3>3. /\ seen'[r] = [seen[r] EXCEPT ![p] = c]
          /\ \A q \in Reader : q # r => seen'[q] = seen[q]
      BY <3>1, <2>i DEF TypeOK
    <3>s. seen[r] \in [Part -> Convert \cup {None}]
      BY <2>i DEF TypeOK
    <3>t. p \in Part => c \in Convert \cup {None}
      BY <3>2
    <3>4. /\ seen'[r] \in [Part -> Convert \cup {None}]
          /\ \A q \in Part : seen'[r][q] = IF q = p THEN c ELSE seen[r][q]
      <4>1. seen'[r] \in [Part -> Convert \cup {None}]
        BY <3>3, <3>s, <3>t
      <4>2. ASSUME NEW q \in Part
            PROVE  seen'[r][q] = IF q = p THEN c ELSE seen[r][q]
        BY <3>3, <3>s
      <4> QED  BY <4>1, <4>2
    <3>5. TypeOK'
      BY <3>1, <3>3, <3>4, <2>i DEF TypeOK
    <3>6. SeenDone'
      BY <3>1, <3>2, <3>3, <3>4, <2>i DEF SeenDone, Read, DigestsHold
    <3>7. DestinationComplete'
      BY <3>1, <2>i, DestinationsKept
    <3>8. \A k \in Job : StagedOf(k)'
      BY <3>1, <2>i, StagedKept DEF Staged
    <3> QED  BY <3>5, <3>6, <3>7, <3>8 DEF Inv, Staged
  <2>10. ASSUME NEW r \in Reader, Opened(r) \/ OpenFails(r)
         PROVE  Inv'
    <3>1. /\ rpc[r] = "reading"
          /\ \/ rpc' = [rpc EXCEPT ![r] = "opened"] /\ Read(r) /\ DigestsHold(seen[r])
             \/ rpc' = [rpc EXCEPT ![r] = "failed"]
          /\ UNCHANGED <<dir, staging, pc, source, seen, moves>>
      BY <2>10 DEF Opened, OpenFails
    <3>5. TypeOK'
      BY <3>1, <2>i DEF TypeOK
    <3>6. SeenDone'
      BY <3>1, <2>i DEF SeenDone, Read, DigestsHold, TypeOK
    <3>7. DestinationComplete'
      BY <3>1, <2>i, DestinationsKept
    <3>8. \A k \in Job : StagedOf(k)'
      BY <3>1, <2>i, StagedKept DEF Staged
    <3> QED  BY <3>5, <3>6, <3>7, <3>8 DEF Inv, Staged
  <2>11. ASSUME NEW path \in Path, MoveAway(path) \/ MakeDirectory(path)
         PROVE  Inv'
    <3>1. /\ \/ dir' = [dir EXCEPT ![path] = None]
             \/ dir' = [dir EXCEPT ![path] = EmptyDir]
          /\ moves' = moves + 1 /\ moves < MaxMoves
          /\ UNCHANGED <<staging, pc, source, rpc, seen>>
      BY <2>11 DEF MoveAway, MakeDirectory
    <3>2. EmptyDir \in Directory(Convert)
      BY DEF EmptyDir, NoParts, Directory
    <3>5. TypeOK'
      BY <3>1, <3>2, <2>i DEF TypeOK, JobsAssumption
    <3>6. SeenDone'
      BY <3>1, <2>i, ReadersKept
    <3>7. DestinationComplete'
      <4>1. \A q \in Path : dir'[q] \in {None, EmptyDir, dir[q]}
        BY <3>1, <2>i DEF TypeOK
      <4> QED  BY <4>1, <3>1, <2>i DEF DestinationComplete, Full, SealHolds, WeightsMatch,
                                      EmptyDir, NoParts
    <3>8. \A k \in Job : StagedOf(k)'
      BY <3>1, <2>i, StagedKept DEF Staged
    <3> QED  BY <3>5, <3>6, <3>7, <3>8 DEF Inv, Staged
  <2>12. CASE UNCHANGED vars
    <3>1. UNCHANGED <<dir, staging, pc, source, rpc, seen, moves>>
      BY <2>12 DEF vars
    <3>2. TypeOK'
      BY <3>1, <2>i DEF TypeOK
    <3>3. \A k \in Job : StagedOf(k)'
      BY <3>1, <2>i, StagedKept DEF Staged
    <3>4. DestinationComplete' /\ SeenDone'
      BY <3>1, <2>i, DestinationsKept, ReadersKept
    <3> QED  BY <3>2, <3>3, <3>4 DEF Inv, Staged
  <2> QED
    BY <2>1, <2>2, <2>3, <2>4, <2>5, <2>6, <2>7, <2>8, <2>9, <2>10, <2>11, <2>12, <2>5b DEF Next
<1> QED  BY <1>1, <1>2, PTL DEF Spec

-----------------------------------------------------------------------------
\* No crash, failure or concurrent run makes a partial checkpoint visible at a
\* destination, for any number of runs.
THEOREM NeverPartial == Spec => []DestinationComplete
<1>1. Inv => DestinationComplete
  BY DEF Inv
<1> QED  BY <1>1, InvariantCorrect, PTL

\* What opens has the weights of its manifest and is of finished runs.
THEOREM OpenedWhole == Spec => []OpenedConsistent
<1>1. Inv => OpenedConsistent
  BY DEF Inv, SeenDone, OpenedConsistent, Read, DigestsHold
<1> QED  BY <1>1, InvariantCorrect, PTL

\* No run replaces a published checkpoint, whatever it saw before its work.
THEOREM NeverReplaced == Spec => PublishedStays
<1>1. TypeOK /\ [Next]_vars =>
        [\A path \in Path :
           dir[path] \notin {None, EmptyDir} => dir'[path] \in {dir[path], None}]_vars
  <2> SUFFICES ASSUME TypeOK, Next, NEW path \in Path, dir[path] \notin {None, EmptyDir}
               PROVE  dir'[path] \in {dir[path], None}
    OBVIOUS
  <2>1. ASSUME NEW j \in Job, Publish(j)
        PROVE  dir'[path] = dir[path]
    BY <2>1 DEF Publish, CanRename, TypeOK
  <2>2. ASSUME NEW q \in Path, MoveAway(q) \/ MakeDirectory(q)
        PROVE  dir'[path] \in {dir[path], None}
    BY <2>2 DEF MoveAway, MakeDirectory, TypeOK
  <2>3. CASE UNCHANGED dir
    BY <2>3
  <2>4. \/ \E j \in Job : Publish(j)
        \/ \E q \in Path : MoveAway(q) \/ MakeDirectory(q)
        \/ UNCHANGED dir
    BY DEF Next, Begin, Refused, WritePart, Complete, HashConfig, Seal, Reopened, Fails, Crash,
           ReadPart, Opened, OpenFails
  <2> QED  BY <2>1, <2>2, <2>3, <2>4
<1>2. Inv => TypeOK
  BY DEF Inv
<1> QED  BY <1>1, <1>2, InvariantCorrect, PTL DEF Spec, PublishedStays
=============================================================================
