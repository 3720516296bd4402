----------------------------- MODULE BackendRegistry -----------------------------
(***************************************************************************)
(* The model registry of MoeBackend (src/service/backend.rs).  Loads look  *)
(* the name up, wait for an asynchronous load lock, look again, load the   *)
(* checkpoint on a blocking thread and register a model with a worker of   *)
(* its own; unloads remove the entry and stop that worker without taking   *)
(* the load lock; chats hold a reference-counted model over an unload.     *)
(* A load future may be dropped while it waits for the lock or the thread. *)
(*                                                                         *)
(* A worker is what GenerationWorker models, here only its life: running,  *)
(* stopping once its shutdown token has fired, gone.                       *)
(***************************************************************************)
EXTENDS FiniteSets

CONSTANTS Name,      \* model names
          Loader,    \* concurrent load() and preload() calls
          Client,    \* concurrent chat() and complete() calls
          Path,      \* checkpoint directories
          Digest,    \* contents a checkpoint directory may have
          Policy,    \* prompt and parameter policies of a load
          Instance,  \* LoadedModel allocations
          None       \* no digest, anchor or instance

\* preload() gives no digest; load() gives the manifest's digest and a plain
\* path; preload_encrypted() gives a trust anchor and no digest.
Specs == {s \in [name : Name, path : Path, anchor : Digest \cup {None},
                 expected : Digest \cup {None}, policy : Policy] :
             s.anchor = None \/ s.expected = None}

Manifests == [name : Name, path : Path, anchor : Digest \cup {None},
              digest : Digest, policy : Policy]

ASSUME RegistryAssumption ==
    /\ None \notin Digest
    /\ None \notin Instance \cup Loader
    /\ None \notin Manifests

VARIABLES
    registry,  \* [Name -> Instance or None]: self.models
    manifest,  \* [Instance -> its manifest, path and anchor, or None]
    worker,    \* [Instance -> state of its worker]
    lock,      \* holder of load_lock, or None
    lpc,       \* [Loader -> where load_spec_with is]
    spec,      \* [Loader -> its LoadSpec, or None]
    built,     \* [Loader -> digest of the loaded artifacts, instance, or None]
    answer,    \* spec and manifest of the latest successful load, or None (history)
    holding,   \* [Client -> the model its request holds, or None]
    disk       \* [Path -> Digest]: what the directories contain

vars == <<registry, manifest, worker, lock, lpc, spec, built, answer, holding, disk>>

Points  == {"idle", "waiting", "locked", "loading", "loaded", "spawned"}
Workers == {"none", "running", "stopping"}

Init ==
    /\ registry = [n \in Name |-> None]
    /\ manifest = [i \in Instance |-> None]
    /\ worker   = [i \in Instance |-> "none"]
    /\ lock     = None
    /\ lpc      = [l \in Loader |-> "idle"]
    /\ spec     = [l \in Loader |-> None]
    /\ built    = [l \in Loader |-> None]
    /\ answer   = None
    /\ holding  = [k \in Client |-> None]
    /\ disk     \in [Path -> Digest]

-----------------------------------------------------------------------------
(* Reference counts.                                                       *)

Registered(i) == \E n \in Name : registry[n] = i
Held(i) == \E k \in Client : holding[k] = i
Spawning(i) == \E l \in Loader : lpc[l] = "spawned" /\ built[l] = i

\* unload and LoadedModel::drop fire the shutdown token of running workers.
Stop(gone) ==
    worker' = [i \in Instance |-> IF i \in gone /\ worker[i] = "running"
                                  THEN "stopping" ELSE worker[i]]

\* The last reference to a model goes.
Forget(gone) ==
    manifest' = [i \in Instance |-> IF i \in gone THEN None ELSE manifest[i]]

-----------------------------------------------------------------------------
(* load_spec_with.                                                         *)

\* Mutation: the prompt and parameter policy is not compared.
MatchesIgnoringPolicy(m, s) ==
    /\ m.path = s.path
    /\ s.expected = None => m.anchor = s.anchor
    /\ s.expected # None => m.digest = s.expected
\* validate_existing: the loaded model is what the spec asks for.
Matches(m, s) ==
    /\ m.path = s.path
    /\ s.expected = None => m.anchor = s.anchor
    /\ s.expected # None => m.digest = s.expected
    /\ m.policy = s.policy

Returns(l) ==
    /\ lpc'   = [lpc   EXCEPT ![l] = "idle"]
    /\ spec'  = [spec  EXCEPT ![l] = None]
    /\ built' = [built EXCEPT ![l] = None]

Succeeds(s, m) == answer' = [spec |-> s, manifest |-> m]

\* The name is taken: answer from the entry, or refuse.
Existing(s) ==
    LET m == manifest[registry[s.name]]
    IN IF Matches(m, s) THEN Succeeds(s, m) ELSE UNCHANGED answer

\* The first look, under the read lock only.
StartLoad(l, s) ==
    /\ lpc[l] = "idle"
    /\ IF registry[s.name] # None
       THEN Existing(s) /\ UNCHANGED <<lpc, spec>>
       ELSE /\ lpc'  = [lpc  EXCEPT ![l] = "waiting"]
            /\ spec' = [spec EXCEPT ![l] = s]
            /\ UNCHANGED answer
    /\ UNCHANGED <<registry, manifest, worker, lock, built, holding, disk>>

AcquireLock(l) ==
    /\ lpc[l] = "waiting" /\ lock = None
    /\ lock' = l
    /\ lpc'  = [lpc EXCEPT ![l] = "locked"]
    /\ UNCHANGED <<registry, manifest, worker, spec, built, answer, holding, disk>>

\* Mutation: no second look once the lock is held.
CheckAgainNever(l) ==
    /\ lpc[l] = "locked"
    /\ lpc' = [lpc EXCEPT ![l] = "loading"]
    /\ UNCHANGED <<registry, manifest, worker, lock, spec, built, answer, holding, disk>>

\* The second look.
CheckAgain(l) ==
    /\ lpc[l] = "locked"
    /\ IF registry[spec[l].name] # None
       THEN /\ Existing(spec[l])
            /\ Returns(l) /\ lock' = None
       ELSE /\ lpc' = [lpc EXCEPT ![l] = "loading"]
            /\ UNCHANGED <<lock, spec, built, answer>>
    /\ UNCHANGED <<registry, manifest, worker, holding, disk>>

\* The blocking thread reads and verifies the directory as it is now.
LoadArtifacts(l) ==
    /\ lpc[l] = "loading"
    /\ LET s == spec[l]
       IN /\ s.anchor # None => s.anchor = disk[s.path]
          /\ built' = [built EXCEPT ![l] = disk[s.path]]
    /\ lpc' = [lpc EXCEPT ![l] = "loaded"]
    /\ UNCHANGED <<registry, manifest, worker, lock, spec, answer, holding, disk>>

\* The checkpoint does not open or verify, or its task fails.
LoadFails(l) ==
    /\ lpc[l] = "loading"
    /\ Returns(l) /\ lock' = None
    /\ UNCHANGED <<registry, manifest, worker, answer, holding, disk>>

\* The caller gives up at one of the two awaits; the lock guard goes with it.
AbandonLoad(l) ==
    /\ lpc[l] \in {"waiting", "loading"}
    /\ Returns(l)
    /\ lock' = IF lock = l THEN None ELSE lock
    /\ UNCHANGED <<registry, manifest, worker, answer, holding, disk>>

\* The digest the manifest promised is what was read.
AsExpected(l) == spec[l].expected \in {None, built[l]}

\* IntegrityCheckFailed, or the batch cannot be created.
SpawnFails(l) ==
    /\ lpc[l] = "loaded"
    /\ Returns(l) /\ lock' = None
    /\ UNCHANGED <<registry, manifest, worker, answer, holding, disk>>

\* The digest is what was asked for: spawn the worker.
Spawn(l) ==
    /\ lpc[l] = "loaded" /\ AsExpected(l)
    /\ \E i \in Instance :
          /\ manifest[i] = None /\ worker[i] # "stopping"
          /\ manifest' = [manifest EXCEPT ![i] =
                [name |-> spec[l].name, path |-> spec[l].path, anchor |-> spec[l].anchor,
                 digest |-> built[l], policy |-> spec[l].policy]]
          /\ worker'   = [worker EXCEPT ![i] = "running"]
          /\ built'    = [built EXCEPT ![l] = i]
    /\ lpc' = [lpc EXCEPT ![l] = "spawned"]
    /\ UNCHANGED <<registry, lock, spec, answer, holding, disk>>

\* Insert under the write lock; a replaced model is dropped with its last reference.
Insert(l) ==
    /\ lpc[l] = "spawned"
    /\ LET n == spec[l].name
       IN /\ registry' = [registry EXCEPT ![n] = built[l]]
          /\ Stop({i \in {registry[n]} : ~Held(i)})
          /\ Forget({i \in {registry[n]} : ~Held(i)})
    /\ Succeeds(spec[l], manifest[built[l]])
    /\ Returns(l) /\ lock' = None
    /\ UNCHANGED <<holding, disk>>

-----------------------------------------------------------------------------
(* Unloads, requests, workers and the directories.                         *)

\* unload: one write-locked removal; no load lock.
Unload(n) ==
    /\ registry[n] # None
    /\ registry' = [registry EXCEPT ![n] = None]
    /\ Stop({registry[n]})
    /\ Forget({i \in {registry[n]} : ~Held(i)})
    /\ UNCHANGED <<lock, lpc, spec, built, answer, holding, disk>>

\* chat and complete: loaded_model clones the entry.
Lookup(k, n) ==
    /\ holding[k] = None /\ registry[n] # None
    /\ holding' = [holding EXCEPT ![k] = registry[n]]
    /\ UNCHANGED <<registry, manifest, worker, lock, lpc, spec, built, answer, disk>>

\* The request was submitted or refused; the last reference drops the model.
Release(k) ==
    /\ holding[k] # None
    /\ holding' = [holding EXCEPT ![k] = None]
    /\ LET last == {i \in {holding[k]} : ~Registered(i) /\ \A o \in Client \ {k} : holding[o] # i}
       IN Stop(last) /\ Forget(last)
    /\ UNCHANGED <<registry, lock, lpc, spec, built, answer, disk>>

\* run_worker leaves its loop.
WorkerExits(i) ==
    /\ worker[i] = "stopping"
    /\ worker' = [worker EXCEPT ![i] = "none"]
    /\ UNCHANGED <<registry, manifest, lock, lpc, spec, built, answer, holding, disk>>

\* An operator replaces a checkpoint directory.
Replace(p) ==
    /\ \E d \in Digest \ {disk[p]} : disk' = [disk EXCEPT ![p] = d]
    /\ UNCHANGED <<registry, manifest, worker, lock, lpc, spec, built, answer, holding>>

-----------------------------------------------------------------------------
Load(l) == \/ \E s \in Specs : StartLoad(l, s)
           \/ AcquireLock(l) \/ CheckAgain(l) \/ LoadArtifacts(l) \/ LoadFails(l)
           \/ AbandonLoad(l) \/ SpawnFails(l) \/ Spawn(l) \/ Insert(l)

Next == \/ \E l \in Loader : Load(l)
        \/ \E n \in Name : Unload(n) \/ \E k \in Client : Lookup(k, n)
        \/ \E k \in Client : Release(k)
        \/ \E i \in Instance : WorkerExits(i)
        \/ \E p \in Path : Replace(p)

Spec == Init /\ [][Next]_vars

-----------------------------------------------------------------------------
(* Properties.                                                             *)

TypeOK ==
    /\ registry \in [Name -> Instance \cup {None}]
    /\ manifest \in [Instance -> Manifests \cup {None}]
    /\ worker   \in [Instance -> Workers]
    /\ lock     \in Loader \cup {None}
    /\ lpc      \in [Loader -> Points]
    /\ spec     \in [Loader -> Specs \cup {None}]
    /\ built    \in [Loader -> Digest \cup Instance \cup {None}]
    /\ answer   \in [spec : Specs, manifest : Manifests] \cup {None}
    /\ holding  \in [Client -> Instance \cup {None}]
    /\ disk     \in [Path -> Digest]

\* No worker runs on unnoticed: a running worker can still be reached, and
\* stopped, through the registry, and what the registry serves is running.
NoOrphanWorker ==
    /\ \A i \in Instance : worker[i] = "running" => Registered(i) \/ Spawning(i)
    /\ \A n \in Name : registry[n] # None => worker[registry[n]] = "running"

\* Two loads that both missed the name do not replace each other's model: a
\* name changes its model only through an unload.
NeverReplaced ==
    [][\A n \in Name : registry[n] # None => registry'[n] \in {registry[n], None}]_vars

\* A load that succeeds, on whichever of its three paths and however long it
\* waited, answers with a model of the path, digest and policy it asked for.
LoadHonest ==
    answer # None =>
        LET s == answer.spec
            m == answer.manifest
        IN /\ m.name = s.name /\ m.path = s.path /\ m.policy = s.policy
           /\ s.expected # None => m.digest = s.expected
           /\ s.anchor # None => m.digest = s.anchor

=============================================================================
