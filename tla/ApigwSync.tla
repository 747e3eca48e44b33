------------------------------ MODULE ApigwSync ------------------------------
(***************************************************************************)
(* Publishing a plugin's resources to the API gateway at deployment        *)
(* (internal/apigwsync/sync.go).  Sync is a sequence of calls that stops   *)
(* at the first failing one; nothing is undone, and the platform may run   *)
(* it again.  Deployments of the same plugin, to one stage or to several,  *)
(* share the gateway and may run at the same time.                         *)
(*                                                                         *)
(* The gateway is not part of this repository; it is modelled by what Sync *)
(* relies on: it keeps resources, numbered versions of them that are never *)
(* replaced, the version each stage serves and the backend it calls.       *)
(***************************************************************************)
EXTENDS Naturals, Sequences

CONSTANTS
  Deployments,
  Stages, Stag, Prod,
  Environments, Dev,
  Settings,     \* Settings[d]: what d is configured with
  Resources,
  Declared,     \* Declared[d]: the resources of d's rendered resources.yaml
  Pinned,       \* Pinned[d]: a version given with build metadata, or Null
  SkipRelease,    \* deployments run with --skip-release
  DeleteUnknown,  \* deployments run with --delete-unknown
  Null,         \* no value, an empty or unset variable
  Spaces,       \* a value of blanks only
  MaxClock,     \* bound: seconds
  MaxFaults     \* bound: failing calls

ASSUME SyncAssumption ==
  /\ {Stag, Prod} \subseteq Stages /\ Dev \in Environments
  /\ \A d \in Deployments :
       /\ Settings[d].stage \in Stages \cup {Null}
       /\ Settings[d].environment \in Environments \cup {Null}
       /\ Null \notin {Settings[d].urls[e] : e \in DOMAIN Settings[d].urls}
  /\ Declared \in [Deployments -> SUBSET Resources]
  /\ SkipRelease \subseteq Deployments /\ DeleteUnknown \subseteq Deployments
  /\ MaxClock \in Nat /\ MaxFaults \in Nat
  /\ Null \notin Deployments /\ Null \notin 0..MaxClock

VARIABLES
  run,        \* run[d]: the call d makes next
  version,    \* version[d]: the version d created or is creating
  resources,  \* resources[r]: the deployment r was last synced by, or Null
  versions,   \* the versions created, each with its resources
  released,   \* released[s]: the version stage s serves, or Null
  backends,   \* backends[s]: the address stage s calls, or Null
  clock,      \* the time, in seconds
  faults

syncVars == <<run, version, resources, versions, released, backends, clock,
              faults>>

gateway == <<resources, versions, released, backends>>

Calls == {"basic", "stages", "resources", "grant", "create", "release"}

Created(v) == \E x \in versions : x.name = v

Goto(d, pc) == run' = [run EXCEPT ![d] = pc]

-----------------------------------------------------------------------------
(* Configuration.                                                          *)
Trimmed(v) == IF v = Spaces THEN Null ELSE v

(* resolveAPIName: the name given, else the first variable with one.       *)
ApiName(d) ==
  LET named == SelectSeq(Settings[d].names, LAMBDA v : Trimmed(v) # Null)
  IN  IF Settings[d].name # Null THEN Trimmed(Settings[d].name)
      ELSE IF named # <<>> THEN Head(named) ELSE Null

Environment(d) ==
  IF Settings[d].environment # Null THEN Settings[d].environment ELSE Dev

StageName_Environment(d) ==
  IF Environment(d) \in Stages THEN Environment(d) ELSE Prod

(* buildSettings: an environment other than staging is production.         *)
StageName(d) ==
  IF Settings[d].stage # Null THEN Settings[d].stage
  ELSE IF Environment(d) = Stag THEN Stag ELSE Prod

(* parseStageBackend: the host in the address preallocated for the         *)
(* environment; none of a variable that is unset or cannot be read.  An    *)
(* address that names no host gives "http://", a host to every test.       *)
StageBackend(d) ==
  IF Environment(d) \in DOMAIN Settings[d].urls
  THEN Settings[d].urls[Environment(d)] ELSE Null

Configured(d) == ApiName(d) # Null /\ StageBackend(d) # Null

-----------------------------------------------------------------------------
(* A deployment without a name or a backend ends before the first call.    *)
Begin(d) ==
  /\ Goto(d, IF Configured(d) THEN "basic" ELSE "failed")
  /\ UNCHANGED <<version, gateway, clock, faults>>

Start(d) == run[d] = "none" /\ Begin(d)

(* A template cannot be rendered or the client not be built: this, too,    *)
(* before the first call.                                                  *)
BeginFails(d) ==
  /\ run[d] \in {"none", "failed"}
  /\ faults < MaxFaults
  /\ faults' = faults + 1
  /\ Goto(d, "failed")
  /\ UNCHANGED <<version, gateway, clock>>

(* SyncBasicInfo and GrantPermissions concern gateway data no later call   *)
(* reads; a grant namespace that is not declared is no error.              *)
SyncConfig(d) ==
  /\ \/ run[d] = "basic" /\ Goto(d, "stages")
     \/ run[d] = "grant" /\ Goto(d, "create")
  /\ UNCHANGED <<version, gateway, clock, faults>>

SetBackend(d) == backends' = [backends EXCEPT ![StageName(d)] = StageBackend(d)]

SyncStagesConfig(d) ==
  /\ run[d] = "stages"
  /\ SetBackend(d)
  /\ Goto(d, "resources")
  /\ UNCHANGED <<version, resources, versions, released, clock, faults>>

SyncResources_Nothing(d) == UNCHANGED resources

(* What d declares becomes what d declares; the rest stays, or is deleted. *)
SyncResources(d) ==
  resources' = [r \in Resources |->
                  IF r \in Declared[d] THEN d
                  ELSE IF d \in DeleteUnknown THEN Null ELSE resources[r]]

SyncResourcesConfig(d) ==
  /\ run[d] = "resources"
  /\ SyncResources(d)
  /\ Goto(d, "grant")
  /\ UNCHANGED <<version, versions, released, backends, clock, faults>>

ReleaseVersion_AsGiven(d) == Pinned[d]

ReleaseVersion_PerStage(d) == IF Pinned[d] # Null THEN Pinned[d] ELSE 0

(* resolveReleaseVersion: as given, or stamped with the current second.    *)
ReleaseVersion(d) == IF Pinned[d] # Null THEN Pinned[d] ELSE clock

CreateVersion(v) == versions' = versions \cup {[name |-> v, content |-> resources]}

CreateResourceVersion_ExistsIsFine(d) ==
  LET v == ReleaseVersion(d)
  IN  /\ run[d] = "create"
      /\ version' = [version EXCEPT ![d] = v]
      /\ IF Created(v) THEN UNCHANGED versions ELSE CreateVersion(v)
      /\ Goto(d, IF d \in SkipRelease THEN "ok" ELSE "release")
      /\ UNCHANGED <<resources, released, backends, clock, faults>>

(* CreateResourceVersion is refused for a version that exists.             *)
CreateResourceVersion(d) ==
  LET v == ReleaseVersion(d)
  IN  /\ run[d] = "create"
      /\ version' = [version EXCEPT ![d] = v]
      /\ IF Created(v)
         THEN Goto(d, "failed") /\ UNCHANGED versions
         ELSE /\ CreateVersion(v)
              /\ Goto(d, IF d \in SkipRelease THEN "ok" ELSE "release")
      /\ UNCHANGED <<resources, released, backends, clock, faults>>

Release(d) ==
  /\ run[d] = "release"
  /\ released' = [released EXCEPT ![StageName(d)] = version[d]]
  /\ Goto(d, "ok")
  /\ UNCHANGED <<version, resources, versions, backends, clock, faults>>

(* A call fails, before or after the gateway carried it out, and Sync with *)
(* it.  Calls do not fail in the last second, so that the bound on time is *)
(* not taken for a collision of versions.                                  *)
CallFails(d) ==
  /\ run[d] \in Calls
  /\ faults < MaxFaults
  /\ clock < MaxClock
  /\ faults' = faults + 1
  /\ Goto(d, "failed")
  /\ \/ UNCHANGED <<version, gateway>>
     \/ /\ run[d] = "stages"
        /\ SetBackend(d)
        /\ UNCHANGED <<version, resources, versions, released>>
     \/ /\ run[d] = "resources"
        /\ SyncResources(d)
        /\ UNCHANGED <<version, versions, released, backends>>
     \/ /\ run[d] = "create"
        /\ ~Created(ReleaseVersion(d))
        /\ CreateVersion(ReleaseVersion(d))
        /\ version' = [version EXCEPT ![d] = ReleaseVersion(d)]
        /\ UNCHANGED <<resources, released, backends>>
     \/ /\ run[d] = "release"
        /\ released' = [released EXCEPT ![StageName(d)] = version[d]]
        /\ UNCHANGED <<version, resources, versions, backends>>
  /\ UNCHANGED clock

(* The platform runs a failed deployment's hook again.                     *)
Rerun(d) == run[d] = "failed" /\ Begin(d)

Tick ==
  /\ clock < MaxClock
  /\ clock' = clock + 1
  /\ UNCHANGED <<run, version, gateway, faults>>

SyncStep(d) ==
  \/ SyncConfig(d) \/ SyncStagesConfig(d) \/ SyncResourcesConfig(d)
  \/ CreateResourceVersion(d) \/ Release(d)

SyncInit ==
  /\ run = [d \in Deployments |-> "none"]
  /\ version = [d \in Deployments |-> Null]
  /\ resources = [r \in Resources |-> Null]
  /\ versions = {}
  /\ released = [s \in Stages |-> Null]
  /\ backends = [s \in Stages |-> Null]
  /\ clock = 0
  /\ faults = 0

SyncNext ==
  \/ \E d \in Deployments : \/ Start(d) \/ SyncStep(d) \/ Rerun(d)
                           \/ BeginFails(d) \/ CallFails(d)
  \/ Tick

SyncSpec == SyncInit /\ [][SyncNext]_syncVars

(* Time passes, a running hook goes on, and the platform repeats a failed  *)
(* one.                                                                    *)
FairSyncSpec ==
  /\ SyncSpec
  /\ WF_syncVars(Tick)
  /\ \A d \in Deployments : WF_syncVars(SyncStep(d)) /\ WF_syncVars(Rerun(d))

-----------------------------------------------------------------------------
(* Properties                                                              *)

VersionNames == (0..MaxClock) \cup {Pinned[d] : d \in Deployments} \cup {Null}

(* Every variable is well typed.                                           *)
SyncTypeOK ==
  /\ run \in [Deployments -> Calls \cup {"none", "ok", "failed"}]
  /\ version \in [Deployments -> VersionNames]
  /\ resources \in [Resources -> Deployments \cup {Null}]
  /\ versions \subseteq [name    : VersionNames \ {Null},
                         content : [Resources -> Deployments \cup {Null}]]
  /\ released \in [Stages -> VersionNames]
  /\ backends \in [Stages -> {StageBackend(d) : d \in Deployments} \cup {Null}]
  /\ clock \in 0..MaxClock
  /\ faults \in 0..MaxFaults

(* A deployment reports success only for a version that holds everything   *)
(* it declared, be it in the form another deployment gave it meanwhile, or *)
(* without what another deleted; its stage serves that version or one      *)
(* another deployment published, and calls its backend or that of another  *)
(* deployment to the stage, never none.                                    *)
SuccessIsPublished ==
  \A d \in Deployments : run[d] = "ok" =>
    LET others == {e \in Deployments \ {d} : StageName(e) = StageName(d)}
    IN  /\ \E x \in versions :
             /\ x.name = version[d]
             /\ \A r \in Declared[d] :
                  \/ x.content[r] # Null
                  \/ \E e \in DeleteUnknown \ {d} : r \notin Declared[e] /\ run[e] # "none"
        /\ d \notin SkipRelease =>
             /\ \E x \in versions : x.name = released[StageName(d)]
             /\ \/ released[StageName(d)] = version[d]
                \/ \E e \in others : run[e] # "none"
        /\ \E e \in {d} \cup others :
             Configured(e) /\ run[e] # "none" /\ backends[StageName(d)] = StageBackend(e)

(* A deployment that runs alone serves its own resources, whatever failed  *)
(* and was repeated before: no retry publishes a version made from an      *)
(* earlier, half-synced state.                                             *)
AloneServesOwn ==
  \A d \in Deployments :
    /\ run[d] = "ok" /\ d \notin SkipRelease
    /\ \A e \in Deployments \ {d} : run[e] = "none"
    => \E x \in versions : /\ x.name = released[StageName(d)]
                           /\ \A r \in Declared[d] : x.content[r] = d

(* A retried deployment that has a name and a backend gets through unless  *)
(* it was given a version: one stamped with the time does not collide for  *)
(* ever with those of its own failed attempts (sync.go:354-357).           *)
RetriedDeploymentSucceeds ==
  \A d \in Deployments :
    Pinned[d] = Null /\ Configured(d) => (run[d] = "failed" ~> run[d] = "ok")
=============================================================================
