--------------------------- MODULE ApigwSyncProofs ---------------------------
(***************************************************************************)
(* Proofs about ApigwSync, for any number of deployments, stages and       *)
(* faults.  What a deployment may rely on depends on how far its run has   *)
(* come: each call establishes a fact that the later ones need and that no *)
(* other deployment takes away without leaving a trace of itself.          *)
(***************************************************************************)
EXTENDS ApigwSync, TLAPS

HasBackend == {"resources", "grant", "create", "release", "ok"}
HasResources == {"grant", "create"}
HasVersion == {"release", "ok"}

Ran(e) == run[e] # "none"

(* Another deployment that deletes what it does not declare may have taken *)
(* r away from d.                                                          *)
MayBeDeleted(d, r) == \E e \in DeleteUnknown \ {d} : r \notin Declared[e] /\ Ran(e)

Alone(d) == \A e \in Deployments \ {d} : ~Ran(e)

ConfiguredInv == \A d \in Deployments : run[d] \notin {"none", "failed"} => Configured(d)

BackendInv ==
  \A d \in Deployments : run[d] \in HasBackend =>
    \E e \in Deployments : /\ StageName(e) = StageName(d)
                           /\ Configured(e) /\ Ran(e)
                           /\ backends[StageName(d)] = StageBackend(e)

ResourcesInv ==
  \A d \in Deployments : run[d] \in HasResources =>
    \A r \in Declared[d] : /\ resources[r] # Null \/ MayBeDeleted(d, r)
                           /\ Alone(d) => resources[r] = d

VersionInv ==
  \A d \in Deployments : run[d] \in HasVersion =>
    \E x \in versions :
      /\ x.name = version[d]
      /\ \A r \in Declared[d] : /\ x.content[r] # Null \/ MayBeDeleted(d, r)
                                /\ Alone(d) => x.content[r] = d

ReleaseInv ==
  \A d \in Deployments : run[d] = "ok" /\ d \notin SkipRelease =>
    /\ \E x \in versions : x.name = released[StageName(d)]
    /\ \/ released[StageName(d)] = version[d]
       \/ \E e \in Deployments \ {d} : StageName(e) = StageName(d) /\ Ran(e)

(* A version is never replaced: its name stands for one set of resources.  *)
VersionsAreNamed == \A x, y \in versions : x.name = y.name => x = y

SyncInv ==
  /\ SyncTypeOK
  /\ ConfiguredInv
  /\ BackendInv
  /\ ResourcesInv
  /\ VersionInv
  /\ ReleaseInv
  /\ VersionsAreNamed
-----------------------------------------------------------------------------
(* What a step of d can do to the gateway, and what d's run claims of it   *)
(* afterwards.                                                             *)
Effect(d) ==
  /\ run[d] # "ok" /\ Ran(d)'
  /\ \E pc : Goto(d, pc)
  /\ run[d] \in {"none", "failed"} /\ run'[d] \notin {"none", "failed"} => Configured(d)
  /\ \/ UNCHANGED backends /\ (run'[d] \in HasBackend => run[d] \in HasBackend)
     \/ SetBackend(d) /\ run[d] = "stages"
  /\ \/ UNCHANGED resources /\ (run'[d] \in HasResources => run[d] \in HasResources)
     \/ SyncResources(d) /\ UNCHANGED versions /\ run'[d] \notin HasVersion
  /\ \/ UNCHANGED <<version, versions>>
        /\ (run'[d] \in HasVersion => run[d] \in HasVersion)
     \/ /\ run[d] = "create" /\ run'[d] = "failed"
        /\ UNCHANGED versions
        /\ version' = [version EXCEPT ![d] = ReleaseVersion(d)]
     \/ /\ run[d] = "create" /\ ~Created(ReleaseVersion(d))
        /\ CreateVersion(ReleaseVersion(d))
        /\ version' = [version EXCEPT ![d] = ReleaseVersion(d)]
  /\ \/ UNCHANGED released /\ (run'[d] = "ok" => d \in SkipRelease)
     \/ /\ run[d] = "release" /\ UNCHANGED <<version, versions>>
        /\ released' = [released EXCEPT ![StageName(d)] = version[d]]

SyncAction(d) ==
  \/ Start(d) \/ SyncStep(d) \/ Rerun(d)
  \/ BeginFails(d) \/ CallFails(d)

(* Every step of a deployment has such an effect. *)
LEMMA ActionEffect ==
  ASSUME SyncTypeOK, NEW d \in Deployments, SyncAction(d)
  PROVE  Effect(d)
<1>. USE DEF SyncTypeOK, Effect, Ran, HasBackend, HasResources, HasVersion, gateway, Goto
<1>1. CASE Start(d) \/ Rerun(d)
  BY <1>1 DEF Start, Rerun, Begin
<1>2. CASE SyncConfig(d)
  BY <1>2 DEF SyncConfig
<1>3. CASE SyncStagesConfig(d)
  BY <1>3 DEF SyncStagesConfig
<1>4. CASE SyncResourcesConfig(d)
  BY <1>4 DEF SyncResourcesConfig
<1>5. CASE CreateResourceVersion(d)
  BY <1>5 DEF CreateResourceVersion
<1>6. CASE Release(d)
  BY <1>6 DEF Release
<1>7. CASE CallFails(d)
  BY <1>7 DEF CallFails, Calls
<1>8. CASE BeginFails(d)
  BY <1>8 DEF BeginFails
<1>. QED BY <1>1, <1>2, <1>3, <1>4, <1>5, <1>6, <1>7, <1>8
         DEF SyncAction, SyncStep

(* What a deployment derives from its settings. *)
LEMMA SettingsTypes ==
  ASSUME NEW d \in Deployments, clock \in 0..MaxClock
  PROVE  /\ StageName(d) \in Stages
         /\ ReleaseVersion(d) \in VersionNames \ {Null}
<1>1. StageName(d) \in Stages
  BY SyncAssumption DEF StageName
<1>2. ReleaseVersion(d) \in VersionNames \ {Null}
  BY SyncAssumption DEF ReleaseVersion, VersionNames
<1>. QED BY <1>1, <1>2

(* Every variable stays well typed. *)
LEMMA SyncTypeStep ==
  ASSUME SyncTypeOK, [SyncNext]_syncVars
  PROVE  SyncTypeOK'
<1>. USE DEF SyncTypeOK
<1>1. ASSUME NEW d \in Deployments, SyncAction(d) PROVE SyncTypeOK'
  <2>1. Effect(d)
    BY <1>1, ActionEffect
  <2>2. /\ StageName(d) \in Stages
        /\ ReleaseVersion(d) \in VersionNames \ {Null}
    BY SettingsTypes
  <2>3. run' \in [Deployments -> Calls \cup {"none", "ok", "failed"}]
    <3>1. \E pc \in Calls \cup {"none", "ok", "failed"} : Goto(d, pc)
      BY <1>1 DEF SyncAction, SyncStep, Start, Rerun, Begin, BeginFails, SyncConfig,
                  SyncStagesConfig, SyncResourcesConfig,
                  CreateResourceVersion, Release, CallFails, Calls
    <3>. QED BY <3>1 DEF Goto
  <2>4. version' \in [Deployments -> VersionNames]
    BY <2>1, <2>2 DEF Effect
  <2>5. resources' \in [Resources -> Deployments \cup {Null}]
    BY <2>1 DEF Effect, SyncResources
  <2>6. versions' \subseteq [name    : VersionNames \ {Null},
                             content : [Resources -> Deployments \cup {Null}]]
    BY <2>1, <2>2 DEF Effect, CreateVersion
  <2>7. released' \in [Stages -> VersionNames]
    BY <2>1, <2>2 DEF Effect
  <2>8. backends' \in [Stages -> {StageBackend(e) : e \in Deployments} \cup {Null}]
    BY <2>1, <2>2 DEF Effect, SetBackend
  <2>9. clock' = clock
    BY <1>1 DEF SyncAction, SyncStep, Start, Rerun, Begin, BeginFails, SyncConfig,
                SyncStagesConfig, SyncResourcesConfig,
                CreateResourceVersion, Release, CallFails
  <2>10. faults' \in 0..MaxFaults
    <3>1. faults' = faults \/ (faults < MaxFaults /\ faults' = faults + 1)
      BY <1>1 DEF SyncAction, SyncStep, Start, Rerun, Begin, BeginFails, SyncConfig,
                  SyncStagesConfig, SyncResourcesConfig,
                  CreateResourceVersion, Release, CallFails
    <3>. QED BY <3>1, SyncAssumption
  <2>11. VersionNames' = VersionNames
    BY DEF VersionNames
  <2>. QED BY <2>3, <2>4, <2>5, <2>6, <2>7, <2>8, <2>9, <2>10, <2>11
<1>2. CASE Tick
  BY <1>2, SyncAssumption DEF Tick, gateway, VersionNames
<1>3. CASE UNCHANGED syncVars
  BY <1>3 DEF syncVars, VersionNames
<1>. QED BY <1>1, <1>2, <1>3 DEF SyncNext, SyncAction

(* A deployment that has run has run for good, and is then not overlooked. *)
LEMMA RanStays ==
  ASSUME SyncTypeOK, NEW d \in Deployments, Effect(d)
  PROVE  /\ \A e \in Deployments \ {d} : run'[e] = run[e]
         /\ \A e \in Deployments : Ran(e) => Ran(e)'
         /\ \A e \in Deployments : \A r : MayBeDeleted(e, r) => MayBeDeleted(e, r)'
         /\ \A e \in Deployments : Alone(e)' => Alone(e) /\ e = d
<1>1. \A e \in Deployments \ {d} : run'[e] = run[e]
  BY DEF Effect, Goto, SyncTypeOK
<1>2. \A e \in Deployments : Ran(e) => Ran(e)'
  BY <1>1 DEF Effect, Ran
<1>3. \A e \in Deployments : \A r : MayBeDeleted(e, r) => MayBeDeleted(e, r)'
  BY <1>2, SyncAssumption DEF MayBeDeleted
<1>4. \A e \in Deployments : Alone(e)' => Alone(e) /\ e = d
  BY <1>2 DEF Alone, Effect
<1>. QED BY <1>1, <1>2, <1>3, <1>4

(* A deployment past its first call has what it needs to be configured,    *)
(* and its stage the backend of a deployment to it.                        *)
LEMMA BackendStep ==
  ASSUME SyncTypeOK, ConfiguredInv, BackendInv, NEW d \in Deployments, Effect(d)
  PROVE  ConfiguredInv' /\ BackendInv'
<1>1. ConfiguredInv'
  BY RanStays DEF ConfiguredInv, Effect
<1>2. ASSUME NEW e \in Deployments, run'[e] \in HasBackend
      PROVE  \E f \in Deployments : /\ StageName(f) = StageName(e)
                                    /\ Configured(f) /\ Ran(f)'
                                    /\ backends'[StageName(e)] = StageBackend(f)
  <2>1. StageName(d) \in Stages /\ StageName(e) \in Stages
    BY SettingsTypes DEF SyncTypeOK
  <2>2. CASE UNCHANGED backends /\ (run'[d] \in HasBackend => run[d] \in HasBackend)
    <3>1. run[e] \in HasBackend
      BY <1>2, <2>2, RanStays
    <3>. QED BY <2>2, <3>1, RanStays DEF BackendInv
  <2>3. CASE SetBackend(d) /\ run[d] = "stages" /\ StageName(e) = StageName(d)
    <3>1. Configured(d)
      BY <2>3 DEF ConfiguredInv
    <3>2. backends'[StageName(e)] = StageBackend(d)
      BY <2>1, <2>3 DEF SetBackend, SyncTypeOK
    <3>. QED BY <2>3, <3>1, <3>2 DEF Effect
  <2>4. CASE SetBackend(d) /\ StageName(e) # StageName(d)
    <3>1. backends'[StageName(e)] = backends[StageName(e)]
      BY <2>1, <2>4 DEF SetBackend, SyncTypeOK
    <3>2. run[e] \in HasBackend
      BY <1>2, <2>4, RanStays
    <3>. QED BY <3>1, <3>2, RanStays DEF BackendInv
  <2>. QED BY <2>2, <2>3, <2>4 DEF Effect
<1>3. BackendInv'
  BY <1>2 DEF BackendInv
<1>. QED BY <1>1, <1>3

(* What was synced last is there, unless another deployment deleted it. *)
LEMMA ResourcesStep ==
  ASSUME SyncTypeOK, ResourcesInv, NEW d \in Deployments, Effect(d)
  PROVE  ResourcesInv'
<1>1. ASSUME NEW e \in Deployments, run'[e] \in HasResources, NEW r \in Declared[e]
      PROVE  /\ resources'[r] # Null \/ MayBeDeleted(e, r)'
             /\ Alone(e)' => resources'[r] = e
  <2>1. r \in Resources /\ d # Null
    BY SyncAssumption
  <2>2. CASE UNCHANGED resources /\ (run'[d] \in HasResources => run[d] \in HasResources)
    <3>1. run[e] \in HasResources
      BY <1>1, <2>2, RanStays
    <3>. QED BY <2>2, <3>1, RanStays DEF ResourcesInv
  <2>3. CASE SyncResources(d) /\ r \in Declared[d]
    BY <2>1, <2>3, RanStays DEF SyncResources
  <2>4. CASE SyncResources(d) /\ r \notin Declared[d]
    <3>1. e # d /\ ~Alone(e)' /\ run[e] \in HasResources
      BY <1>1, <2>4, RanStays
    <3>2. CASE d \in DeleteUnknown
      BY <2>4, <3>1, <3>2 DEF MayBeDeleted, Effect
    <3>3. CASE d \notin DeleteUnknown
      <4>1. resources'[r] = resources[r]
        BY <2>1, <2>4, <3>3 DEF SyncResources
      <4>. QED BY <3>1, <4>1, RanStays DEF ResourcesInv
    <3>. QED BY <3>2, <3>3
  <2>. QED BY <2>2, <2>3, <2>4 DEF Effect
<1>. QED BY <1>1 DEF ResourcesInv
(* A version is created from what was synced, under a name of its own, and *)
(* is there for good.                                                      *)
LEMMA VersionStep ==
  ASSUME SyncTypeOK, ResourcesInv, VersionInv, VersionsAreNamed,
         NEW d \in Deployments, Effect(d)
  PROVE  VersionInv' /\ VersionsAreNamed'
<1>1. CASE /\ UNCHANGED <<version, versions>>
           /\ run'[d] \in HasVersion => run[d] \in HasVersion
  <2>1. \A e \in Deployments : run'[e] \in HasVersion => run[e] \in HasVersion
    BY <1>1, RanStays
  <2>. QED BY <1>1, <2>1, RanStays DEF VersionInv, VersionsAreNamed
<1>2. CASE /\ run[d] = "create" /\ run'[d] = "failed"
           /\ UNCHANGED versions
           /\ version' = [version EXCEPT ![d] = ReleaseVersion(d)]
  <2>1. \A e \in Deployments : run'[e] \in HasVersion =>
          e # d /\ run[e] \in HasVersion /\ version'[e] = version[e]
    BY <1>2, RanStays DEF HasVersion, SyncTypeOK
  <2>. QED BY <1>2, <2>1, RanStays DEF VersionInv, VersionsAreNamed
<1>3. CASE /\ run[d] = "create" /\ ~Created(ReleaseVersion(d))
           /\ CreateVersion(ReleaseVersion(d))
           /\ version' = [version EXCEPT ![d] = ReleaseVersion(d)]
  <2>. DEFINE new == [name |-> ReleaseVersion(d), content |-> resources]
  <2>1. versions' = versions \cup {new} /\ version'[d] = new.name
    BY <1>3 DEF CreateVersion, SyncTypeOK
  <2>2. VersionsAreNamed'
    BY <1>3, <2>1 DEF VersionsAreNamed, Created
  <2>3. ASSUME NEW e \in Deployments, run'[e] \in HasVersion
        PROVE  \E x \in versions' :
                 /\ x.name = version'[e]
                 /\ \A r \in Declared[e] :
                      /\ x.content[r] # Null \/ MayBeDeleted(e, r)'
                      /\ Alone(e)' => x.content[r] = e
    <3>1. CASE e = d
      <4>1. \A r \in Declared[d] : /\ new.content[r] # Null \/ MayBeDeleted(d, r)'
                                   /\ Alone(d)' => new.content[r] = d
        BY <1>3, RanStays DEF ResourcesInv, HasResources
      <4>. QED BY <2>1, <3>1, <4>1
    <3>2. CASE e # d
      <4>1. run[e] \in HasVersion /\ version'[e] = version[e]
        BY <1>3, <2>3, <3>2, RanStays DEF SyncTypeOK
      <4>. QED BY <2>1, <4>1, RanStays DEF VersionInv
    <3>. QED BY <3>1, <3>2
  <2>. QED BY <2>2, <2>3 DEF VersionInv
<1>. QED BY <1>1, <1>2, <1>3 DEF Effect

(* A stage serves a version that exists: that of the deployment that       *)
(* succeeded, or of another one to the stage.                              *)
LEMMA ReleaseStep ==
  ASSUME SyncTypeOK, VersionInv, ReleaseInv, NEW d \in Deployments, Effect(d)
  PROVE  ReleaseInv'
<1>1. ASSUME NEW e \in Deployments, run'[e] = "ok", e \notin SkipRelease
      PROVE  /\ \E x \in versions' : x.name = released'[StageName(e)]
             /\ \/ released'[StageName(e)] = version'[e]
                \/ \E f \in Deployments \ {e} : StageName(f) = StageName(e) /\ Ran(f)'
  <2>1. StageName(d) \in Stages /\ StageName(e) \in Stages
    BY SettingsTypes DEF SyncTypeOK
  <2>2. \A x \in versions : x \in versions'
    BY DEF Effect, CreateVersion
  <2>3. CASE /\ run[d] = "release" /\ UNCHANGED <<version, versions>>
             /\ released' = [released EXCEPT ![StageName(d)] = version[d]]
             /\ StageName(e) = StageName(d)
    <3>1. released'[StageName(e)] = version'[d]
      BY <2>1, <2>3 DEF SyncTypeOK
    <3>2. \E x \in versions' : x.name = version'[d]
      BY <2>3 DEF VersionInv, HasVersion
    <3>. QED BY <2>3, <3>1, <3>2 DEF Effect
  <2>4. CASE released'[StageName(e)] = released[StageName(e)] /\ e # d
    <3>1. run[e] = "ok" /\ version'[e] = version[e]
      BY <1>1, <2>4, RanStays DEF Effect, SyncTypeOK
    <3>. QED BY <1>1, <2>2, <2>4, <3>1, RanStays DEF ReleaseInv
  <2>5. CASE UNCHANGED released /\ (run'[d] = "ok" => d \in SkipRelease)
    BY <1>1, <2>4, <2>5
  <2>6. CASE /\ run[d] = "release" /\ UNCHANGED <<version, versions>>
             /\ released' = [released EXCEPT ![StageName(d)] = version[d]]
             /\ StageName(e) # StageName(d)
    BY <2>1, <2>4, <2>6 DEF SyncTypeOK
  <2>. QED BY <2>3, <2>5, <2>6 DEF Effect
<1>. QED BY <1>1 DEF ReleaseInv

(* The invariant, at the start and across every step. *)
LEMMA SyncInvariant == SyncSpec => []SyncInv
<1>1. SyncInit => SyncInv
  <2>. SUFFICES ASSUME SyncInit PROVE SyncInv
    OBVIOUS
  <2>1. SyncTypeOK
    BY SyncAssumption DEF SyncInit, SyncTypeOK, VersionNames
  <2>. QED BY <2>1 DEF SyncInit, SyncInv, ConfiguredInv, BackendInv, ResourcesInv,
                       VersionInv, ReleaseInv, VersionsAreNamed, HasBackend,
                       HasResources, HasVersion
<1>2. SyncInv /\ [SyncNext]_syncVars => SyncInv'
  <2>. SUFFICES ASSUME SyncInv, [SyncNext]_syncVars PROVE SyncInv'
    OBVIOUS
  <2>1. SyncTypeOK'
    BY SyncTypeStep DEF SyncInv
  <2>2. ASSUME NEW d \in Deployments, SyncAction(d) PROVE SyncInv'
    <3>1. Effect(d)
      BY <2>2, ActionEffect DEF SyncInv
    <3>2. ConfiguredInv' /\ BackendInv'
      BY <3>1, BackendStep DEF SyncInv
    <3>3. ResourcesInv'
      BY <3>1, ResourcesStep DEF SyncInv
    <3>4. VersionInv' /\ VersionsAreNamed'
      BY <3>1, VersionStep DEF SyncInv
    <3>5. ReleaseInv'
      BY <3>1, ReleaseStep DEF SyncInv
    <3>. QED BY <2>1, <3>2, <3>3, <3>4, <3>5 DEF SyncInv
  <2>3. CASE Tick \/ UNCHANGED syncVars
    <3>1. UNCHANGED <<run, version, resources, versions, released, backends>>
      BY <2>3 DEF Tick, syncVars, gateway
    <3>2. ConfiguredInv' /\ BackendInv'
      BY <3>1 DEF SyncInv, ConfiguredInv, BackendInv, Ran
    <3>3. ResourcesInv' /\ VersionInv'
      BY <3>1 DEF SyncInv, ResourcesInv, VersionInv, Alone, MayBeDeleted, Ran
    <3>4. ReleaseInv' /\ VersionsAreNamed'
      BY <3>1 DEF SyncInv, ReleaseInv, VersionsAreNamed, Ran
    <3>. QED BY <2>1, <3>2, <3>3, <3>4 DEF SyncInv
  <2>. QED BY <2>2, <2>3 DEF SyncNext, SyncAction
<1>. QED BY <1>1, <1>2, PTL DEF SyncSpec

-----------------------------------------------------------------------------
(* Types: run, versions and the stages' releases and backends.             *)
THEOREM SyncTypesCorrect == SyncSpec => []SyncTypeOK
<1>1. SyncInv => SyncTypeOK
  BY DEF SyncInv
<1>. QED BY <1>1, SyncInvariant, PTL

(* A reported success was published (sync.go:109-158).                     *)
THEOREM SuccessesArePublished == SyncSpec => []SuccessIsPublished
<1>1. SyncInv => SuccessIsPublished
  <2>. SUFFICES ASSUME SyncInv, NEW d \in Deployments, run[d] = "ok"
                PROVE  LET others == {e \in Deployments \ {d} : StageName(e) = StageName(d)}
    IN  /\ \E x \in versions :
             /\ x.name = version[d]
             /\ \A r \in Declared[d] :
                  \/ x.content[r] # Null
                  \/ \E e \in DeleteUnknown \ {d} : r \notin Declared[e] /\ run[e] # "none"
        /\ d \notin SkipRelease =>
             /\ \E x \in versions : x.name = released[StageName(d)]
             /\ \/ released[StageName(d)] = version[d]
                \/ \E e \in others : run[e] # "none"
        /\ \E e \in {d} \cup others :
             Configured(e) /\ run[e] # "none" /\ backends[StageName(d)] = StageBackend(e)
    BY DEF SuccessIsPublished
  <2>1. run[d] \in HasVersion /\ run[d] \in HasBackend
    BY DEF HasVersion, HasBackend
  <2>. QED BY <2>1 DEF SyncInv, VersionInv, BackendInv, ReleaseInv, MayBeDeleted, Ran
<1>. QED BY <1>1, SyncInvariant, PTL

(* A deployment that runs alone serves what it synced in this very run     *)
(* (sync.go:119-158), however often it failed before.                      *)
THEOREM LoneDeploymentsServeTheirOwn == SyncSpec => []AloneServesOwn
<1>1. SyncInv => AloneServesOwn
  <2>. SUFFICES ASSUME SyncInv, NEW d \in Deployments,
                       run[d] = "ok", d \notin SkipRelease,
                       \A e \in Deployments \ {d} : run[e] = "none"
                PROVE  \E x \in versions : /\ x.name = released[StageName(d)]
                                           /\ \A r \in Declared[d] : x.content[r] = d
    BY DEF AloneServesOwn
  <2>1. Alone(d) /\ run[d] \in HasVersion
    BY DEF Alone, Ran, HasVersion
  <2>2. released[StageName(d)] = version[d]
    BY <2>1 DEF SyncInv, ReleaseInv, Alone
  <2>. QED BY <2>1, <2>2 DEF SyncInv, VersionInv
<1>. QED BY <1>1, SyncInvariant, PTL

(* No version is made twice: a release names one set of resources.         *)
THEOREM VersionsAreUnique == SyncSpec => []VersionsAreNamed
<1>1. SyncInv => VersionsAreNamed
  BY DEF SyncInv
<1>. QED BY <1>1, SyncInvariant, PTL
=============================================================================
