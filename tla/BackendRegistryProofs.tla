-------------------------- MODULE BackendRegistryProofs --------------------------
(***************************************************************************)
(* Proofs about BackendRegistry, for any number of names, loads, requests, *)
(* directories, contents and policies.                                     *)
(***************************************************************************)
EXTENDS BackendRegistry, TLAPS

InLock == {"locked", "loading", "loaded", "spawned"}

\* Who may be inserting: the load lock is held from the second look on, and
\* what that look saw stays true although unloads do not take the lock.
LockInv ==
    /\ \A l \in Loader : lpc[l] \in InLock => lock = l
    /\ \A l \in Loader : lpc[l] # "idle" => spec[l] \in Specs
    /\ \A l \in Loader : lpc[l] \in {"loading", "loaded", "spawned"} => registry[spec[l].name] = None

\* What the artifacts in hand are.
BuiltInv ==
    /\ \A l \in Loader : lpc[l] = "loaded" =>
          built[l] \in Digest /\ (spec[l].anchor # None => built[l] = spec[l].anchor)
    /\ \A l \in Loader : lpc[l] = "spawned" =>
          /\ built[l] \in Instance /\ worker[built[l]] = "running"
          /\ manifest[built[l]] # None
          /\ manifest[built[l]].name = spec[l].name
          /\ manifest[built[l]].path = spec[l].path
          /\ manifest[built[l]].policy = spec[l].policy
          /\ manifest[built[l]].anchor = spec[l].anchor
          /\ spec[l].expected # None => manifest[built[l]].digest = spec[l].expected
          /\ ~Registered(built[l]) /\ ~Held(built[l])

\* Registered models: one name each, alive, and authentic.
ModelInv ==
    /\ \A n \in Name : registry[n] # None =>
          /\ worker[registry[n]] = "running"
          /\ manifest[registry[n]] # None
          /\ manifest[registry[n]].name = n
    /\ \A i \in Instance : worker[i] = "running" => Registered(i) \/ Spawning(i)
    /\ \A k \in Client : holding[k] # None => manifest[holding[k]] # None
    /\ \A i \in Instance : manifest[i] # None /\ manifest[i].anchor # None =>
          manifest[i].digest = manifest[i].anchor

RegistryInv == TypeOK /\ LockInv /\ BuiltInv /\ ModelInv /\ LoadHonest

\* A registry without models and loads is in the invariant.
LEMMA InitRegistry == Init => RegistryInv
BY RegistryAssumption DEF Init, RegistryInv, TypeOK, LockInv, BuiltInv, ModelInv, LoadHonest, Workers,
   Points, InLock, Registered, Spawning

\* An entry that matches a spec is what the spec asks for.
LEMMA ExistingHonest ==
    ASSUME RegistryInv, NEW s \in Specs, registry[s.name] # None, Existing(s)
    PROVE  /\ answer' \in [spec : Specs, manifest : Manifests] \cup {None}
           /\ LoadHonest'
<1> DEFINE i == registry[s.name]
<1>1. s.name \in Name
  BY DEF Specs
<1>2. PICK m \in Manifests : m = manifest[i]
  BY <1>1 DEF RegistryInv, TypeOK, ModelInv
<1>3. m.name = s.name /\ (m.anchor # None => m.digest = m.anchor)
  BY <1>1, <1>2, RegistryAssumption DEF RegistryInv, TypeOK, ModelInv
<1>4. CASE UNCHANGED answer
  BY <1>4 DEF RegistryInv, TypeOK, LoadHonest
<1>5. CASE Matches(m, s) /\ answer' = [spec |-> s, manifest |-> m]
  <2>1. s.anchor # None => s.expected = None
    BY DEF Specs
  <2>2. QED  BY <1>2, <1>3, <1>5, <2>1 DEF Matches, LoadHonest
<1>6. QED  BY <1>2, <1>4, <1>5 DEF Existing, Succeeds

\* A call that returns early leaves nothing behind.
LEMMA ReturnKeeps ==
    ASSUME RegistryInv, NEW l \in Loader, Returns(l), lpc[l] # "spawned",
           lock' = IF lock = l THEN None ELSE lock,
           answer' \in [spec : Specs, manifest : Manifests] \cup {None}, LoadHonest',
           UNCHANGED <<registry, manifest, worker, holding, disk>>
    PROVE  RegistryInv'
<1> USE DEF RegistryInv, Returns
<1>1. TypeOK'
  BY DEF TypeOK, Points
<1>2. \A o \in Loader \ {l} : lpc'[o] = lpc[o] /\ spec'[o] = spec[o] /\ built'[o] = built[o]
  BY DEF TypeOK
<1>3. lpc'[l] = "idle"
  BY DEF TypeOK
<1>4. LockInv'
  BY <1>2, <1>3, RegistryAssumption DEF LockInv, InLock
<1>5. BuiltInv'
  BY <1>2, <1>3 DEF BuiltInv, Registered, Held
<1>6. ModelInv'
  BY <1>2, <1>3 DEF ModelInv, Registered, Spawning
<1>7. QED  BY <1>1, <1>4, <1>5, <1>6

\* The steps of a load.
LEMMA LoadKeeps ==
    ASSUME RegistryInv, NEW l \in Loader, Load(l)
    PROVE  RegistryInv'
<1> USE DEF RegistryInv
<1>1. ASSUME NEW s \in Specs, StartLoad(l, s) PROVE RegistryInv'
  <2>1. CASE registry[s.name] # None
    <3>1. UNCHANGED <<registry, manifest, worker, lock, lpc, spec, built, holding, disk>> /\ Existing(s)
      BY <1>1, <2>1 DEF StartLoad
    <3>2. LoadHonest' /\ answer' \in [spec : Specs, manifest : Manifests] \cup {None}
      BY <2>1, <3>1, ExistingHonest
    <3>3. TypeOK' /\ LockInv' /\ BuiltInv' /\ ModelInv'
      BY <3>1, <3>2 DEF TypeOK, LockInv, BuiltInv, ModelInv, Registered, Held, Spawning
    <3>4. QED  BY <3>2, <3>3
  <2>2. CASE registry[s.name] = None
    <3>1. /\ lpc[l] = "idle"
          /\ lpc' = [lpc EXCEPT ![l] = "waiting"] /\ spec' = [spec EXCEPT ![l] = s]
          /\ UNCHANGED <<registry, manifest, worker, lock, built, answer, holding, disk>>
      BY <1>1, <2>2 DEF StartLoad
    <3>2. TypeOK'
      BY <3>1 DEF TypeOK, Points
    <3>3. \A o \in Loader \ {l} : lpc'[o] = lpc[o] /\ spec'[o] = spec[o]
      BY <3>1 DEF TypeOK
    <3>4. lpc'[l] = "waiting" /\ spec'[l] = s
      BY <3>1 DEF TypeOK
    <3>5. LockInv' /\ BuiltInv'
      BY <3>1, <3>3, <3>4 DEF LockInv, BuiltInv, InLock, Registered, Held
    <3>6. ModelInv' /\ LoadHonest'
      BY <3>1, <3>3, <3>4 DEF ModelInv, LoadHonest, Registered, Spawning
    <3>7. QED  BY <3>2, <3>5, <3>6
  <2>3. QED  BY <2>1, <2>2
<1>2. CASE AcquireLock(l)
  <2>1. /\ lpc[l] = "waiting" /\ lock = None /\ lock' = l
        /\ lpc' = [lpc EXCEPT ![l] = "locked"]
        /\ UNCHANGED <<registry, manifest, worker, spec, built, answer, holding, disk>>
    BY <1>2 DEF AcquireLock
  <2>2. TypeOK'
    BY <2>1 DEF TypeOK, Points
  <2>3. \A o \in Loader \ {l} : lpc'[o] = lpc[o] /\ lpc[o] \notin InLock
    BY <2>1, RegistryAssumption DEF TypeOK, LockInv
  <2>4. lpc'[l] = "locked"
    BY <2>1 DEF TypeOK
  <2>5. LockInv' /\ BuiltInv'
    BY <2>1, <2>3, <2>4 DEF LockInv, BuiltInv, InLock
  <2>6. ModelInv' /\ LoadHonest'
    BY <2>1, <2>3, <2>4 DEF ModelInv, LoadHonest, Registered, Spawning, InLock
  <2>7. QED  BY <2>2, <2>5, <2>6
<1>3. CASE CheckAgain(l)
  <2>1. lpc[l] = "locked" /\ lock = l /\ spec[l] \in Specs
    BY <1>3 DEF CheckAgain, LockInv, InLock
  <2>2. CASE registry[spec[l].name] # None
    <3>1. /\ Existing(spec[l]) /\ Returns(l) /\ lock' = None
          /\ UNCHANGED <<registry, manifest, worker, holding, disk>>
      BY <1>3, <2>2 DEF CheckAgain
    <3>2. LoadHonest' /\ answer' \in [spec : Specs, manifest : Manifests] \cup {None}
      BY <2>1, <2>2, <3>1, ExistingHonest
    <3>3. QED  BY <2>1, <3>1, <3>2, ReturnKeeps
  <2>3. CASE registry[spec[l].name] = None
    <3>1. /\ lpc' = [lpc EXCEPT ![l] = "loading"]
          /\ UNCHANGED <<registry, manifest, worker, lock, spec, built, answer, holding, disk>>
      BY <1>3, <2>3 DEF CheckAgain
    <3>2. TypeOK'
      BY <3>1 DEF TypeOK, Points
    <3>3. /\ \A o \in Loader \ {l} : lpc'[o] = lpc[o]
          /\ lpc'[l] = "loading"
      BY <3>1 DEF TypeOK
    <3>4. LockInv' /\ BuiltInv'
      BY <2>1, <2>3, <3>1, <3>3 DEF LockInv, BuiltInv, InLock, Registered, Held
    <3>5. ModelInv' /\ LoadHonest'
      BY <2>1, <3>1, <3>3 DEF ModelInv, LoadHonest, Registered, Spawning
    <3>6. QED  BY <3>2, <3>4, <3>5
  <2>4. QED  BY <2>2, <2>3
<1>4. CASE LoadArtifacts(l)
  <2>1. /\ lpc[l] = "loading" /\ spec[l] \in Specs /\ lock = l
        /\ spec[l].anchor # None => spec[l].anchor = disk[spec[l].path]
        /\ built' = [built EXCEPT ![l] = disk[spec[l].path]]
        /\ lpc' = [lpc EXCEPT ![l] = "loaded"]
        /\ UNCHANGED <<registry, manifest, worker, lock, spec, answer, holding, disk>>
    BY <1>4 DEF LoadArtifacts, LockInv, InLock
  <2>2. disk[spec[l].path] \in Digest
    BY <2>1 DEF TypeOK, Specs
  <2>3. TypeOK'
    BY <2>1, <2>2 DEF TypeOK, Points
  <2>4. /\ \A o \in Loader \ {l} : lpc'[o] = lpc[o] /\ built'[o] = built[o]
        /\ lpc'[l] = "loaded" /\ built'[l] = disk[spec[l].path]
    BY <2>1 DEF TypeOK
  <2>5. LockInv' /\ BuiltInv'
    BY <2>1, <2>2, <2>4 DEF LockInv, BuiltInv, InLock, Registered, Held
  <2>6. ModelInv' /\ LoadHonest'
    BY <2>1, <2>4 DEF ModelInv, LoadHonest, Registered, Spawning
  <2>7. QED  BY <2>3, <2>5, <2>6
<1>5. CASE LoadFails(l) \/ SpawnFails(l)
  <2>1. /\ lpc[l] \in {"loading", "loaded"} /\ Returns(l) /\ lock' = None
        /\ UNCHANGED <<registry, manifest, worker, answer, holding, disk>>
    BY <1>5 DEF LoadFails, SpawnFails
  <2>2. lock = l
    BY <2>1 DEF LockInv, InLock
  <2>3. LoadHonest' /\ answer' \in [spec : Specs, manifest : Manifests] \cup {None}
    BY <2>1 DEF TypeOK, LoadHonest
  <2>4. QED  BY <2>1, <2>2, <2>3, ReturnKeeps
<1>6. CASE AbandonLoad(l)
  <2>1. LoadHonest' /\ answer' \in [spec : Specs, manifest : Manifests] \cup {None}
    BY <1>6 DEF AbandonLoad, TypeOK, LoadHonest
  <2>2. QED  BY <1>6, <2>1, ReturnKeeps DEF AbandonLoad
<1>7. CASE Spawn(l)
  <2>1. PICK i \in Instance :
          /\ manifest[i] = None /\ worker[i] # "stopping"
          /\ manifest' = [manifest EXCEPT ![i] =
                [name |-> spec[l].name, path |-> spec[l].path, anchor |-> spec[l].anchor,
                 digest |-> built[l], policy |-> spec[l].policy]]
          /\ worker' = [worker EXCEPT ![i] = "running"]
          /\ built'  = [built EXCEPT ![l] = i]
    BY <1>7 DEF Spawn
  <2>2. /\ lpc[l] = "loaded" /\ spec[l] \in Specs /\ lock = l /\ AsExpected(l)
        /\ registry[spec[l].name] = None
        /\ built[l] \in Digest /\ (spec[l].anchor # None => built[l] = spec[l].anchor)
        /\ lpc' = [lpc EXCEPT ![l] = "spawned"]
        /\ UNCHANGED <<registry, lock, spec, answer, holding, disk>>
    BY <1>7 DEF Spawn, LockInv, BuiltInv, InLock
  <2>3. PICK new \in Manifests :
          new = [name |-> spec[l].name, path |-> spec[l].path, anchor |-> spec[l].anchor,
                 digest |-> built[l], policy |-> spec[l].policy]
    BY <2>2 DEF Specs, Manifests
  <2>4. TypeOK'
    BY <2>1, <2>2, <2>3 DEF TypeOK, Points, Workers
  <2>5. /\ \A o \in Loader \ {l} : lpc'[o] = lpc[o] /\ built'[o] = built[o] /\ lpc[o] \notin InLock
        /\ lpc'[l] = "spawned" /\ built'[l] = i
    BY <2>1, <2>2 DEF TypeOK, LockInv
  <2>6. /\ \A j \in Instance \ {i} : manifest'[j] = manifest[j] /\ worker'[j] = worker[j]
        /\ manifest'[i] = new /\ worker'[i] = "running"
    BY <2>1, <2>3 DEF TypeOK
  <2>7. new # None /\ ~Registered(i) /\ ~Held(i)
    BY <2>1, <2>3, RegistryAssumption DEF ModelInv, Registered, Held, TypeOK
  <2>8. /\ new.name = spec[l].name /\ new.path = spec[l].path /\ new.policy = spec[l].policy
        /\ new.anchor = spec[l].anchor /\ new.digest = built[l]
    BY <2>3
  <2>9. LockInv'
    BY <2>2, <2>5 DEF LockInv, InLock
  <2>10. BuiltInv'
    BY <2>2, <2>5, <2>6, <2>7, <2>8 DEF BuiltInv, InLock, Registered, Held, AsExpected
  <2>11. ModelInv'
    <3>1. (\A n \in Name : registry[n] # None =>
              /\ worker[registry[n]] = "running"
              /\ manifest[registry[n]] # None
              /\ manifest[registry[n]].name = n)'
      BY <2>2, <2>6, <2>7 DEF ModelInv, Registered, TypeOK
    <3>2. (\A j \in Instance : worker[j] = "running" => Registered(j) \/ Spawning(j))'
      BY <2>2, <2>5, <2>6 DEF ModelInv, Registered, Spawning, InLock
    <3>3. (\A k \in Client : holding[k] # None => manifest[holding[k]] # None)'
      BY <2>2, <2>6, <2>7 DEF ModelInv, TypeOK
    <3>4. (\A j \in Instance : manifest[j] # None /\ manifest[j].anchor # None =>
              manifest[j].digest = manifest[j].anchor)'
      BY <2>2, <2>6, <2>8 DEF ModelInv
    <3>5. QED  BY <3>1, <3>2, <3>3, <3>4 DEF ModelInv
  <2>12. LoadHonest'
    BY <2>2 DEF LoadHonest
  <2>13. QED  BY <2>4, <2>9, <2>10, <2>11, <2>12
<1>8. CASE Insert(l)
  <2> DEFINE i == built[l]
             n == spec[l].name
  <2>1. /\ lpc[l] = "spawned" /\ spec[l] \in Specs /\ lock = l
        /\ registry[n] = None /\ n \in Name
        /\ i \in Instance /\ worker[i] = "running" /\ manifest[i] # None
        /\ manifest[i].name = n
        /\ manifest[i].path = spec[l].path /\ manifest[i].policy = spec[l].policy
        /\ manifest[i].anchor = spec[l].anchor
        /\ spec[l].expected # None => manifest[i].digest = spec[l].expected
        /\ ~Registered(i) /\ ~Held(i)
    BY <1>8 DEF Insert, LockInv, BuiltInv, InLock, Specs
  <2>2. /\ registry' = [registry EXCEPT ![n] = i]
        /\ answer' = [spec |-> spec[l], manifest |-> manifest[i]]
        /\ Returns(l) /\ lock' = None
        /\ UNCHANGED <<holding, disk>>
    BY <1>8 DEF Insert, Succeeds
  <2>3. UNCHANGED <<worker, manifest>>
    BY <1>8, <2>1, RegistryAssumption DEF Insert, Stop, Forget, TypeOK
  <2>4. manifest[i] \in Manifests
    BY <2>1 DEF TypeOK
  <2>5. TypeOK'
    BY <2>1, <2>2, <2>3, <2>4 DEF TypeOK, Returns, Points
  <2>6. /\ \A o \in Loader \ {l} : lpc'[o] = lpc[o] /\ spec'[o] = spec[o] /\ built'[o] = built[o]
                                   /\ lpc[o] \notin InLock
        /\ lpc'[l] = "idle"
    BY <2>1, <2>2 DEF TypeOK, Returns, LockInv
  <2>7. /\ \A x \in Name : x # n => registry'[x] = registry[x]
        /\ registry'[n] = i
    BY <2>1, <2>2 DEF TypeOK
  <2>8. LockInv' /\ BuiltInv'
    BY <2>6 DEF LockInv, BuiltInv, InLock
  <2>9. ModelInv'
    <3>1. (\A x \in Name : registry[x] # None =>
              /\ worker[registry[x]] = "running"
              /\ manifest[registry[x]] # None
              /\ manifest[registry[x]].name = x)'
      BY <2>1, <2>3, <2>7 DEF ModelInv
    <3>2. (\A j \in Instance : worker[j] = "running" => Registered(j) \/ Spawning(j))'
      <4> SUFFICES ASSUME NEW j \in Instance, worker[j] = "running" PROVE Registered(j)'
        BY <2>3 DEF Registered
      <4>1. CASE j = i
        BY <2>1, <2>7, <4>1 DEF Registered
      <4>2. CASE j # i
        <5>1. ~Spawning(j)
          BY <2>6, <4>2 DEF Spawning, InLock
        <5>2. PICK x \in Name : registry[x] = j
          BY <5>1 DEF ModelInv, Registered
        <5>3. x # n
          BY <2>1, <5>2, RegistryAssumption
        <5>4. QED  BY <2>7, <5>2, <5>3 DEF Registered
      <4>3. QED  BY <4>1, <4>2
    <3>3. QED  BY <2>2, <2>3, <3>1, <3>2 DEF ModelInv
  <2>10. LoadHonest'
    <3>1. answer'.spec = spec[l] /\ answer'.manifest = manifest[i]
      BY <2>2
    <3>2. spec[l].anchor # None => manifest[i].digest = spec[l].anchor
      BY <2>1 DEF ModelInv
    <3>3. QED  BY <2>1, <3>1, <3>2 DEF LoadHonest
  <2>11. QED  BY <2>5, <2>8, <2>9, <2>10
<1>9. QED
  BY <1>1, <1>2, <1>3, <1>4, <1>5, <1>6, <1>7, <1>8 DEF Load

\* unload() needs no load lock: it never touches the model a load is about to insert.
LEMMA UnloadKeeps ==
    ASSUME RegistryInv, NEW n \in Name, Unload(n)
    PROVE  RegistryInv'
<1> USE DEF RegistryInv
<1>1. PICK i \in Instance : i = registry[n]
  BY DEF Unload, TypeOK
<1>2. /\ registry[n] = i /\ registry' = [registry EXCEPT ![n] = None]
      /\ UNCHANGED <<lock, lpc, spec, built, answer, holding, disk>>
      /\ i # None
  BY <1>1 DEF Unload
<1>3. /\ \A j \in Instance \ {i} : worker'[j] = worker[j] /\ manifest'[j] = manifest[j]
      /\ worker'[i] = "stopping"
      /\ manifest'[i] = IF Held(i) THEN manifest[i] ELSE None
  BY <1>1, <1>2 DEF Unload, Stop, Forget, ModelInv
<1>4. TypeOK'
  BY <1>1, <1>2 DEF Unload, Stop, Forget, TypeOK, Workers
<1>5. /\ \A x \in Name \ {n} : registry'[x] = registry[x] /\ registry[x] # i
      /\ registry'[n] = None
  <2>1. \A x \in Name \ {n} : registry'[x] = registry[x]
    BY <1>2 DEF TypeOK
  <2>2. \A x \in Name \ {n} : registry[x] # i
    BY <1>2 DEF ModelInv
  <2>3. QED  BY <1>2, <2>1, <2>2 DEF TypeOK
<1>6. LockInv'
  BY <1>2, <1>5 DEF LockInv, Specs
<1>7. BuiltInv'
  <2>1. \A l \in Loader : lpc[l] = "spawned" => built[l] # i
    BY <1>2 DEF BuiltInv, Registered
  <2>2. \A j \in Instance : ~Registered(j) => ~Registered(j)'
    BY <1>5, <1>2, RegistryAssumption DEF Registered
  <2>3. QED  BY <1>2, <1>3, <2>1, <2>2 DEF BuiltInv, Held
<1>8. ModelInv'
  <2>1. (\A x \in Name : registry[x] # None =>
            /\ worker[registry[x]] = "running"
            /\ manifest[registry[x]] # None
            /\ manifest[registry[x]].name = x)'
    BY <1>3, <1>5 DEF ModelInv, TypeOK
  <2>2. (\A j \in Instance : worker[j] = "running" => Registered(j) \/ Spawning(j))'
    <3> SUFFICES ASSUME NEW j \in Instance \ {i}, worker[j] = "running"
                 PROVE (Registered(j) \/ Spawning(j))'
      BY <1>3
    <3>1. CASE Registered(j)
      BY <1>2, <1>5, <3>1 DEF Registered
    <3>2. CASE Spawning(j)
      BY <1>2, <3>2 DEF Spawning
    <3>3. QED  BY <3>1, <3>2 DEF ModelInv
  <2>3. (\A k \in Client : holding[k] # None => manifest[holding[k]] # None)'
    BY <1>2, <1>3 DEF ModelInv, TypeOK, Held
  <2>4. (\A j \in Instance : manifest[j] # None /\ manifest[j].anchor # None =>
            manifest[j].digest = manifest[j].anchor)'
    BY <1>3 DEF ModelInv
  <2>5. QED  BY <2>1, <2>2, <2>3, <2>4 DEF ModelInv
<1>9. LoadHonest'
  BY <1>2 DEF LoadHonest
<1>10. QED  BY <1>4, <1>6, <1>7, <1>8, <1>9

\* Requests, exiting workers and replaced directories.
LEMMA OtherKeeps ==
    ASSUME RegistryInv,
           \/ \E n \in Name : \E k \in Client : Lookup(k, n)
           \/ \E k \in Client : Release(k)
           \/ \E i \in Instance : WorkerExits(i)
           \/ \E p \in Path : Replace(p)
           \/ UNCHANGED vars
    PROVE  RegistryInv'
<1> USE DEF RegistryInv
<1>1. ASSUME NEW n \in Name, NEW k \in Client, Lookup(k, n) PROVE RegistryInv'
  <2>1. /\ registry[n] \in Instance
        /\ holding' = [holding EXCEPT ![k] = registry[n]]
        /\ UNCHANGED <<registry, manifest, worker, lock, lpc, spec, built, answer, disk>>
    BY <1>1 DEF Lookup, TypeOK
  <2>2. TypeOK' /\ LockInv' /\ LoadHonest'
    BY <2>1 DEF TypeOK, LockInv, LoadHonest
  <2>3. \A o \in Client : holding'[o] \in {holding[o], registry[n]}
    BY <2>1 DEF TypeOK
  <2>4. BuiltInv'
    BY <2>1, <2>3 DEF BuiltInv, Registered, Held
  <2>5. ModelInv'
    BY <2>1, <2>3 DEF ModelInv, Registered, Spawning
  <2>6. QED  BY <2>2, <2>4, <2>5
<1>2. ASSUME NEW k \in Client, Release(k) PROVE RegistryInv'
  <2>1. PICK i \in Instance : i = holding[k]
    BY <1>2 DEF Release, TypeOK
  <2>2. /\ holding[k] = i /\ i # None
        /\ holding' = [holding EXCEPT ![k] = None]
        /\ UNCHANGED <<registry, lock, lpc, spec, built, answer, disk>>
    BY <1>2, <2>1 DEF Release
  <2>3. /\ \A o \in Client \ {k} : holding'[o] = holding[o]
        /\ holding'[k] = None
    BY <2>2 DEF TypeOK
  <2>4. \A j \in Instance : \/ UNCHANGED <<worker[j], manifest[j]>>
                            \/ j = i /\ ~Registered(i) /\ worker'[i] # "running" /\ ~Held(i)'
    <3>1. CASE ~Registered(i) /\ \A o \in Client \ {k} : holding[o] # i
      <4>1. ~Held(i)'
        BY <2>2, <2>3, <3>1 DEF Held
      <4>2. QED  BY <1>2, <2>2, <3>1, <4>1 DEF Release, Stop, Forget, TypeOK
    <3>2. CASE Registered(i) \/ \E o \in Client \ {k} : holding[o] = i
      BY <1>2, <2>2, <3>2 DEF Release, Stop, Forget, TypeOK
    <3>3. QED  BY <3>1, <3>2
  <2>5. TypeOK'
    BY <1>2, <2>2 DEF Release, Stop, Forget, TypeOK, Workers
  <2>6. LockInv' /\ LoadHonest'
    BY <2>2 DEF LockInv, LoadHonest
  <2>7. BuiltInv'
    <3>1. \A l \in Loader : lpc[l] = "spawned" => built[l] # i
      BY <2>2 DEF BuiltInv, Held
    <3>2. \A j \in Instance : ~Held(j) => ~Held(j)'
      BY <2>3, RegistryAssumption DEF Held
    <3>3. QED  BY <2>2, <2>4, <3>1, <3>2 DEF BuiltInv, Registered
  <2>8. ModelInv'
    <3>1. (\A x \in Name : registry[x] # None =>
              /\ worker[registry[x]] = "running"
              /\ manifest[registry[x]] # None
              /\ manifest[registry[x]].name = x)'
      BY <2>2, <2>4 DEF ModelInv, TypeOK, Registered
    <3>2. (\A j \in Instance : worker[j] = "running" => Registered(j) \/ Spawning(j))'
      BY <2>2, <2>4 DEF ModelInv, Registered, Spawning
    <3>3. (\A o \in Client : holding[o] # None => manifest[holding[o]] # None)'
      BY <2>3, <2>4 DEF ModelInv, TypeOK, Held
    <3>4. (\A j \in Instance : manifest[j] # None /\ manifest[j].anchor # None =>
              manifest[j].digest = manifest[j].anchor)'
      <4>1. manifest' = [j \in Instance |-> IF j = i /\ ~Registered(i) /\ \A o \in Client \ {k} : holding[o] # i
                                            THEN None ELSE manifest[j]]
        BY <1>2, <2>2 DEF Release, Forget
      <4>2. QED  BY <4>1 DEF ModelInv
    <3>5. QED  BY <3>1, <3>2, <3>3, <3>4 DEF ModelInv
  <2>9. QED  BY <2>5, <2>6, <2>7, <2>8
<1>3. ASSUME NEW i \in Instance, WorkerExits(i) PROVE RegistryInv'
  <2>1. /\ worker[i] = "stopping" /\ worker' = [worker EXCEPT ![i] = "none"]
        /\ UNCHANGED <<registry, manifest, lock, lpc, spec, built, answer, holding, disk>>
    BY <1>3 DEF WorkerExits
  <2>2. TypeOK' /\ LockInv' /\ LoadHonest'
    BY <2>1 DEF TypeOK, LockInv, LoadHonest, Workers
  <2>3. \A j \in Instance : worker'[j] = "running" <=> worker[j] = "running"
    BY <2>1 DEF TypeOK
  <2>4. BuiltInv'
    BY <2>1, <2>3 DEF BuiltInv, Registered, Held
  <2>5. ModelInv'
    BY <2>1, <2>3 DEF ModelInv, Registered, Spawning, TypeOK
  <2>6. QED  BY <2>2, <2>4, <2>5
<1>4. ASSUME NEW p \in Path, Replace(p) PROVE RegistryInv'
  BY <1>4 DEF Replace, TypeOK, LockInv, BuiltInv, ModelInv, LoadHonest, Registered, Held, Spawning
<1>5. CASE UNCHANGED vars
  BY <1>5 DEF vars, TypeOK, LockInv, BuiltInv, ModelInv, LoadHonest, Registered, Held, Spawning
<1>6. QED  BY <1>1, <1>2, <1>3, <1>4, <1>5

\* Every step of a load, an unload, a request or a worker keeps the invariant.
LEMMA RegistryStep == RegistryInv /\ [Next]_vars => RegistryInv'
BY LoadKeeps, UnloadKeeps, OtherKeeps DEF Next

\* The inductive invariant of the registry: who holds its locks, and what each load
\* knows of the name it loads at each of its awaits.
THEOREM RegistryCorrect == Spec => []RegistryInv
BY InitRegistry, RegistryStep, PTL DEF Spec

\* Every running worker is reachable through the registry and every registered
\* model has a running worker.
THEOREM WorkersReachable == Spec => []NoOrphanWorker
<1>1. RegistryInv => NoOrphanWorker
  BY DEF RegistryInv, ModelInv, NoOrphanWorker
<1>2. QED  BY RegistryCorrect, <1>1, PTL

\* A load that succeeds answers with what it asked for.
THEOREM LoadsHonest == Spec => []LoadHonest
<1>1. RegistryInv => LoadHonest
  BY DEF RegistryInv
<1>2. QED  BY RegistryCorrect, <1>1, PTL

\* A model under a name is never replaced by another load.
THEOREM ModelsNotReplaced == Spec => NeverReplaced
<1>1. RegistryInv /\ [Next]_vars =>
        [\A n \in Name : registry[n] # None => registry'[n] \in {registry[n], None}]_vars
  <2> SUFFICES ASSUME RegistryInv, Next, NEW n \in Name, registry[n] # None
               PROVE  registry'[n] \in {registry[n], None}
    OBVIOUS
  <2>1. ASSUME NEW l \in Loader, Insert(l) PROVE registry'[n] \in {registry[n], None}
    BY <2>1 DEF Insert, RegistryInv, LockInv, TypeOK
  <2>2. ASSUME NEW x \in Name, Unload(x) PROVE registry'[n] \in {registry[n], None}
    BY <2>2 DEF Unload, RegistryInv, TypeOK
  <2>3. ASSUME ~(\E l \in Loader : Insert(l)), ~(\E x \in Name : Unload(x))
        PROVE  UNCHANGED registry
    BY <2>3 DEF Next, Load, StartLoad, AcquireLock, CheckAgain, LoadArtifacts, LoadFails, AbandonLoad,
       SpawnFails, Spawn, Lookup, Release, WorkerExits, Replace
  <2>4. QED  BY <2>1, <2>2, <2>3
<1>2. QED  BY RegistryCorrect, <1>1, PTL DEF Spec, NeverReplaced

=============================================================================
