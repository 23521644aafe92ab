--------------------------- MODULE QuadletRuntime ---------------------------
(***************************************************************************)
(* The lifecycle of scripts/quadlet-integration.py: admit the host, stage  *)
(* verified images, install rendered units, start the target and release   *)
(* its one-shots after their inspection, prove the running application,    *)
(* and remove exactly what the instance owns.  The kinds of lifecycle are  *)
(* the complete run, the run with an injected failure, and the two halves  *)
(* of the cloud fixture: prepare and, as another process, cleanup.         *)
(*                                                                         *)
(* systemd and Podman act as the commands ask; any command may fail, a     *)
(* check may find a deviation, other processes take the loopback port,     *)
(* one-shots fail, time out or, the migration, are restarted by somebody   *)
(* at any moment, and a handled signal arrives at any point.               *)
(***************************************************************************)
EXTENDS QuadletContract, Integers

CONSTANTS
  Ports,       \* loopback ports
  NoPort,      \* no port selected
  Kinds,       \* the lifecycles to run
  MaxFaults,   \* bound on failing commands
  MaxReruns    \* bound on restarts of the migration unit by somebody else

ASSUME QuadletAssumption ==
  /\ NoPort \notin Ports
  /\ Kinds \subseteq {"run", "failure", "prepare", "cleanup"}
  /\ MaxFaults \in Nat /\ MaxReruns \in Nat

Resource == {"unit", "container", "network", "volume", "image"}

VARIABLES
  kind, failed,   \* the lifecycle, and the injected failure or "none"
  off, dev,       \* the checks that find a deviation; of the containers, by role
  pc,
  res,            \* Resource -> "none", "own" or "foreign": what has the instance's names
  loaded,         \* systemd knows the generated services
  auto,           \* the port is selected automatically
  port, prev, attempt,
  busy,           \* ports another process holds
  state,          \* Oneshot -> OneshotState
  invoc, record,  \* invocation of the migration unit: current, and recorded (0: none)
  ran,            \* the invocations in which the migration was executed
  inspected,      \* inspected_oneshots
  admitted,       \* runtime_admitted
  fixture,        \* the fixture root exists
  failure,        \* the lifecycle failed
  errors,         \* cleanup reported errors
  signal,         \* "none", "raised", "noted" (during cleanup) or "gap"
  faults, reruns

call    == <<kind, failed, off, dev, auto>>
ports   == <<port, prev, attempt, busy>>
shots   == <<state, ran, invoc, record, inspected>>
status  == <<admitted, failure, errors, signal>>
host    == <<res, loaded, fixture>>
bounds  == <<faults, reruns>>
vars    == <<call, pc, host, ports, shots, status, bounds>>

Local == kind \in {"run", "failure"}
Cloud == kind \in {"prepare", "cleanup"}

-----------------------------------------------------------------------------
(* Failure and interruption.                                               *)

\* An IntegrationError: execute_lifecycle() and execute_expected_failure_lifecycle()
\* clean up; execute_cloud_prepare() ends, its cleanup is another process.
Raise ==
  /\ failure' = TRUE
  /\ pc' = IF Local THEN "cleanup" ELSE "exit"
  /\ UNCHANGED <<admitted, errors, signal>>

\* A command of the lifecycle fails; what it would have done stays undone.
CommandFails ==
  /\ pc \notin {"make", "cleanup", "cleaning", "verify", "remove", "exit"}
  /\ faults < MaxFaults /\ faults' = faults + 1
  /\ Raise
  /\ UNCHANGED <<call, host, ports, shots, reruns>>

\* handle_signal(): during cleanup the signal is noted; elsewhere the active command
\* is terminated and IntegrationInterrupted raised.  Raised after the lifecycle's body
\* and before cleanup() sets cleanup_active it leaves without cleanup.
HandleSignal ==
  /\ signal = "none" /\ pc \notin {"make", "exit"}
  /\ signal' = CASE pc \in {"cleaning", "verify", "remove"} -> "noted"
                 [] pc = "cleanup" -> "gap"
                 [] OTHER -> "raised"
  /\ pc' = IF pc \in {"cleaning", "verify", "remove"} THEN pc
           ELSE IF pc = "cleanup" \/ Cloud THEN "exit" ELSE "cleanup"
  /\ failure' = (failure \/ signal' # "noted")
  /\ UNCHANGED <<call, host, ports, shots, admitted, errors, bounds>>

\* A step of the lifecycle succeeds and the next one follows.
Goto(next) == pc' = next /\ UNCHANGED <<call, status, bounds>>

-----------------------------------------------------------------------------
(* Ownership and removal: cleanup_resources().                             *)

\* _inspect_resource() and _owned_by_instance(): present, with or without the labels
\* of the instance.
OwnedByInstance(k) == res[k] = "own"

\* Mutant: whatever has the name is removed.
AdmitAnyRemoval == TRUE

\* The read-only ownership admission: a same-named resource carries the labels of the
\* instance, or the instance owns the unit that creates it.
AdmitRemoval ==
  /\ res["unit"] # "foreign"
  /\ \A k \in Resource : res[k] # "none" => OwnedByInstance(k) \/ res["unit"] = "own"

\* The removal itself is best effort: a failing command leaves its resource.  A unit
\* that stays is loaded again by the daemon-reload.
Removed(left) == [k \in Resource |-> IF k \in left THEN res[k] ELSE "none"]
CleanupResources(left) ==
  /\ faults + Cardinality(left) <= MaxFaults
  /\ faults' = faults + Cardinality(left)
  /\ res' = Removed(left)
  /\ loaded' = ("unit" \in left /\ loaded)

\* _owned_resource_errors(): nothing of the instance is left, under whatever owner.
OwnedResourceErrors == \E k \in Resource : res'[k] # "none"

-----------------------------------------------------------------------------
(* execute_lifecycle(), step by step.                                      *)

\* main() and prepare_cloud_fixture_directory(): the private fixture root is new; one
\* that exists is left alone, with the rest of the instance.
MakeFixtureRoot ==
  /\ pc = "make"
  /\ IF kind = "cleanup" THEN pc' = "admit" /\ UNCHANGED <<fixture, failure>>
     ELSE /\ fixture' = TRUE
          /\ failure' = fixture
          /\ pc' = IF fixture THEN "exit" ELSE "admit"
  /\ UNCHANGED <<call, res, loaded, ports, shots, admitted, errors, signal, bounds>>

\* validate_repository_and_runtime() up to runtime_admitted.
Admit ==
  /\ pc = "admit" /\ kind # "cleanup"
  /\ ValidateRepositoryAndRuntime(off, Cloud)
  /\ admitted' = TRUE
  /\ pc' = "stale"
  /\ UNCHANGED <<call, host, ports, shots, failure, errors, signal, bounds>>

\* Its end: stale resources of the same instance are removed first.
RemoveStale(left) ==
  /\ pc = "stale" /\ AdmitRemoval
  /\ left \subseteq {k \in Resource : res[k] # "none"}
  /\ CleanupResources(left)
  /\ ~OwnedResourceErrors
  /\ pc' = "products"
  /\ UNCHANGED <<call, fixture, ports, shots, status, reruns>>

\* retrieve_verify_and_stage_images(): the products, the dependencies, the gateway.
StageProducts ==
  /\ pc = "products"
  /\ AnonymousPull(off) /\ VerifyAndStageProduct(off)
  /\ Goto("dependencies")
  /\ UNCHANGED <<host, ports, shots>>

StageDependencies ==
  /\ pc = "dependencies"
  /\ VerifyAndStageDependency(off)
  /\ Goto("gateway")
  /\ UNCHANGED <<host, ports, shots>>

\* podman build: the image carries the labels of the instance.
BuildGateway ==
  /\ pc = "gateway"
  /\ res' = [res EXCEPT !["image"] = "own"]
  /\ Goto("digest")
  /\ UNCHANGED <<loaded, fixture, ports, shots>>

AdmitGateway ==
  /\ pc = "digest"
  /\ Cloud => StageCloudImageAlias(off)
  /\ Goto("port")
  /\ UNCHANGED <<host, ports, shots>>

\* select_port(), of render_and_start_with_port_retries(): free now, and not the last.
SelectPort(p) ==
  /\ pc = "port"
  /\ IF auto THEN p \notin busy /\ p # prev ELSE p = port
  /\ port' = p /\ prev' = p
  /\ Goto("render")
  /\ UNCHANGED <<host, attempt, busy, shots>>

\* render_validate_and_install_units(): render, validate and publish_rendered_units(),
\* then the comparison of the installed files.
InstallUnits ==
  /\ pc = "render"
  /\ res' = [res EXCEPT !["unit"] = "own"]
  /\ Goto("installed")
  /\ UNCHANGED <<loaded, fixture, ports, shots>>

CompareUnits ==
  /\ pc = "installed"
  /\ ValidateInstalled(off)
  /\ Goto(IF Cloud THEN "exit" ELSE "reload")
  /\ UNCHANGED <<host, ports, shots>>

\* Its daemon-reload and the validation of what systemd loaded.
ReloadUnits ==
  /\ pc = "reload"
  /\ loaded' = TRUE
  /\ ValidateLoaded(off)
  /\ Goto("queue")
  /\ UNCHANGED <<res, fixture, ports, shots>>

-----------------------------------------------------------------------------
(* systemd and the one-shots.  The entrypoint of a one-shot's container    *)
(* waits for its release, and only then executes its command.              *)

\* A one-shot without a job; with one that waits for PostgreSQL; its container waiting for
\* the release, released, executing; its command succeeded, failed, or never released.
OneshotState == {"idle", "queued", "waiting", "released", "running", "done", "failed", "timeout"}
Pending == {"queued", "waiting", "released", "running"}

\* What a started target brings up.
Started == [res EXCEPT !["container"] = "own", !["network"] = "own", !["volume"] = "own"]

\* The start of the target gives the units that are not active a job; one that is there
\* already is the same job.
StartUnits ==
  /\ res' = Started
  /\ state' = [o \in Oneshot |-> IF state[o] \in Pending \cup {"done"} THEN state[o]
                                 ELSE IF o = "migrate" THEN "queued" ELSE "waiting"]

\* The units act while the lifecycle goes on, until cleanup() stops them.
Units(o, from, to) ==
  /\ pc \notin {"make", "cleanup", "cleaning", "verify", "remove", "exit"}
  /\ state[o] \in from /\ state' = [state EXCEPT ![o] = to]
  /\ UNCHANGED <<call, pc, host, ports, record, inspected, status, faults>>

\* The migration's container is created when the secrets and PostgreSQL are there ...
ActivateMigration ==
  /\ Units("migrate", {"queued"}, "waiting")
  /\ state["secrets-init"] = "done" /\ "migrate" \notin Blocked(failed)
  /\ invoc' = invoc + 1 /\ UNCHANGED <<ran, reruns>>

\* ... and its job fails with theirs.
DependencyFails ==
  /\ Units("migrate", {"queued"}, "idle")
  /\ \/ state["secrets-init"] \in {"failed", "timeout"}
     \/ state["secrets-init"] = "done" /\ "migrate" \in Blocked(failed)
  /\ UNCHANGED <<invoc, ran, reruns>>

\* quadlet-oneshot-entrypoint.sh: a released container executes its command ...
Execute(o) ==
  /\ Units(o, {"released"}, "running")
  /\ ran' = IF o = "migrate" THEN ran \cup {invoc} ELSE ran
  /\ UNCHANGED <<invoc, reruns>>

\* ... which succeeds or fails; the injected one is /bin/false.
Finish(o, ok) ==
  /\ o = "migrate" /\ failed = "migration" => ~ok
  /\ Units(o, {"running"}, IF ok THEN "done" ELSE "failed")
  /\ UNCHANGED <<invoc, ran, reruns>>

\* A container nobody releases: TimeoutStartSec=180 of its unit, before the 1800 polls of
\* its entrypoint.
ReleaseTimeout(o) ==
  /\ Units(o, {"waiting"}, "timeout")
  /\ UNCHANGED <<invoc, ran, reruns>>

\* Somebody restarts the migration unit: its container is replaced by a new one.
RestartMigration ==
  /\ reruns < MaxReruns /\ reruns' = reruns + 1
  /\ Units("migrate", OneshotState \ {"idle", "queued"}, "waiting")
  /\ invoc' = invoc + 1 /\ UNCHANGED ran

-----------------------------------------------------------------------------
(* Starting: start_target() and start_expected_failure().                  *)

\* The one-shots a lifecycle inspects and releases, in this order.
Releases == IF failed = "dependency" THEN {"secrets-init"} ELSE Oneshot
NextOneshot == IF "secrets-init" \notin inspected THEN "secrets-init" ELSE "migrate"
LastOneshot == IF "migrate" \in inspected THEN "migrate" ELSE "secrets-init"
AfterReleases == IF failed = "health" THEN "await" ELSE "start"

\* The target is queued with --no-block.  An attempt after a port collision finds
\* inspected one-shots; start_target() then goes on to the blocking start.
QueueTarget ==
  /\ pc = "queue"
  /\ IF inspected = {} \/ kind = "failure" THEN StartUnits ELSE UNCHANGED <<res, state>>
  /\ Goto(IF inspected = {} THEN "inspect" ELSE AfterReleases)
  /\ UNCHANGED <<loaded, fixture, ports, ran, invoc, record, inspected>>

\* _wait_for_oneshot_container() and _validate_effective_container(): the container that
\* has the one-shot's name is running and as it should be.
InspectOneshot(o) ==
  /\ pc = "inspect" /\ o = NextOneshot
  /\ state[o] = "waiting" /\ ValidateEffectiveContainer(o, failed, dev)
  /\ inspected' = inspected \cup {o}
  /\ Goto("release")
  /\ UNCHANGED <<host, ports, state, ran, invoc, record>>

\* Mutant: a one-shot that was restarted is released like the first one.
ReleaseAgain(o) ==
  /\ \/ pc = "release" /\ o = LastOneshot
     \/ pc = "starting" /\ o \in inspected
  /\ state[o] = "waiting" /\ state' = [state EXCEPT ![o] = "released"]
  /\ Goto(IF pc = "starting" THEN "starting" ELSE IF inspected = Releases THEN AfterReleases ELSE "inspect")
  /\ UNCHANGED <<host, ports, ran, invoc, record, inspected>>

\* podman exec writes the release file into the container that has the name now.
Release(o) ==
  /\ pc = "release" /\ o = LastOneshot
  /\ state[o] = "waiting" /\ state' = [state EXCEPT ![o] = "released"]
  /\ Goto(IF inspected = Releases THEN AfterReleases ELSE "inspect")
  /\ UNCHANGED <<host, ports, ran, invoc, record, inspected>>

\* oneshot_invocation() and validate_oneshot_state(): active, exited, successful and
\* never restarted.
OneshotSucceeded(o) == state[o] = "done"
Completed == \A o \in Oneshot : OneshotSucceeded(o)

\* The migration succeeded in the recorded invocation, or in the one to be recorded.
MigrationRecorded == OneshotSucceeded("migrate") /\ record \in {0, invoc}

\* The blocking start of the target.
BlockOnTarget ==
  /\ pc = "start"
  /\ StartUnits
  /\ Goto("starting")
  /\ UNCHANGED <<loaded, fixture, ports, ran, invoc, record, inspected>>

\* The start of a complete run succeeds: every role is up.
StartTarget ==
  /\ pc = "starting" /\ failed = "none"
  /\ Completed /\ port \notin busy
  /\ Goto("oneshots")
  /\ UNCHANGED <<host, ports, shots>>

\* _gateway_port_collision(): the journal of this invocation of the gateway names the
\* bind failure.  The health profile meets it while it waits for the health check.
PortCollision ==
  /\ pc = IF failed = "health" THEN "health" ELSE "starting"
  /\ failed \in {"none", "health"}
  /\ Completed /\ port \in busy
  /\ IF auto /\ attempt < 3 THEN Goto("retry") ELSE Raise /\ UNCHANGED <<call, bounds>>
  /\ UNCHANGED <<host, ports, shots>>

\* prepare_port_retry(): the migration has completed, in one invocation; only the
\* roles whose configuration holds the port are stopped, ignoring dependencies.
PrepareRetry ==
  /\ pc = "retry" /\ inspected = Oneshot
  /\ MigrationRecorded
  /\ record' = invoc
  /\ attempt' = attempt + 1 /\ port' = NoPort
  /\ Goto("port")
  /\ UNCHANGED <<host, prev, busy, state, ran, invoc, inspected>>

-----------------------------------------------------------------------------
(* The expected failure.                                                   *)

\* _wait_for_oneshot_success(), before the health check is awaited.
AwaitMigration ==
  /\ pc = "await"
  /\ MigrationRecorded
  /\ record' = invoc
  /\ Goto("health")
  /\ UNCHANGED <<host, ports, state, ran, invoc, inspected>>

\* _wait_for_injected_health_failure(): of one and the same validated container.
HealthFailureObserved ==
  /\ "gateway replaced" \notin off
  /\ ValidateEffectiveContainer("gateway", failed, dev)
  /\ HasInjectedHealthFailure(off) \/ HasInjectedUnhealthyEvent(off)

AwaitHealthFailure ==
  /\ pc = "health" /\ port \notin busy
  /\ HealthFailureObserved
  /\ Goto("start")
  /\ UNCHANGED <<host, ports, shots>>

\* The blocking start ends when no one-shot is pending; the target is not green.
ObserveFailure ==
  /\ pc = "starting" /\ failed # "none"
  /\ \A o \in Oneshot : state[o] \notin Pending
  /\ "green target" \notin off
  /\ Goto("failed")
  /\ UNCHANGED <<host, ports, shots>>

\* Mutant: whatever kept the migration from completing is the injected failure.
AnyFailureIsInjected ==
  CASE failed = "migration"  -> state["migrate"] # "done"
    [] failed = "dependency" -> state["migrate"] = "idle"
    [] failed = "health"     -> record # 0

\* The injected role failed with the injected result, exit-code and status 1, and the
\* blocked one-shot has no container; a health failure followed a recorded migration.
InjectedFailure ==
  CASE failed = "migration"  -> state["migrate"] = "failed"
    [] failed = "dependency" -> state["migrate"] = "idle"
    [] failed = "health"     -> record # 0

\* prove_expected_failure(); other causes are those of PostgreSQL and the gateway.
ProveExpectedFailure ==
  /\ pc = "failed"
  /\ InjectedFailure /\ off \cap {"other cause", "dependent ran"} = {}
  /\ Goto("cleanup")
  /\ UNCHANGED <<host, ports, shots>>

-----------------------------------------------------------------------------
(* prove_runtime() and collect_resource_evidence().                        *)

\* Both one-shots were inspected and completed; the migration in one invocation.
ProveOneshots ==
  /\ pc = "oneshots" /\ inspected = Oneshot
  /\ Completed /\ MigrationRecorded
  /\ record' = invoc
  /\ Goto("containers")
  /\ UNCHANGED <<host, ports, state, ran, invoc, inspected>>

ProveContainers ==
  /\ pc = "containers"
  /\ \A r \in LongRunning : ValidateEffectiveContainer(r, failed, dev)
  /\ Goto("application")
  /\ UNCHANGED <<host, ports, shots>>

ProveApplication ==
  /\ pc = "application"
  /\ ValidateNetworkBoundary(off)
  /\ ValidateExternalBehavior(off)
  /\ ValidateRuntimeProbes(off)
  /\ Goto("restart")
  /\ UNCHANGED <<host, ports, shots>>

\* restart_application(): only the api is restarted, ignoring dependencies; the
\* migration must still be the recorded invocation and the private file still there.
RestartApplication ==
  /\ pc = "restart"
  /\ OneshotSucceeded("migrate") /\ invoc = record
  /\ ValidatePrivateStorage(off)
  /\ Goto("final")
  /\ UNCHANGED <<host, ports, shots>>

FinishProof ==
  /\ pc = "final"
  /\ ValidateLongRunningRoles(off)
  /\ Goto("evidence")
  /\ UNCHANGED <<host, ports, shots>>

\* collect_resource_evidence(): what cannot be read is recorded as unavailable; only
\* writing the file can fail.
CollectEvidence ==
  /\ pc = "evidence"
  /\ Goto("cleanup")
  /\ UNCHANGED <<host, ports, shots>>

-----------------------------------------------------------------------------
(* A check that finds its deviation.                                       *)

Rejects ==
  \/ pc = "admit" /\ kind # "cleanup" /\ ~ValidateRepositoryAndRuntime(off, Cloud)
  \/ pc = "admit" /\ kind = "cleanup" /\ ~ValidateCloudCleanupRuntime(off)
  \/ pc = "stale" /\ ~AdmitRemoval
  \/ pc = "products" /\ ~(AnonymousPull(off) /\ VerifyAndStageProduct(off))
  \/ pc = "dependencies" /\ ~VerifyAndStageDependency(off)
  \/ pc = "digest" /\ Cloud /\ ~StageCloudImageAlias(off)
  \/ pc = "installed" /\ ~ValidateInstalled(off)
  \/ pc = "reload" /\ ~ValidateLoaded(off)
  \/ pc = "inspect" /\ (state[NextOneshot] # "waiting" \/ ~ValidateEffectiveContainer(NextOneshot, failed, dev))
  \/ pc = "release" /\ state[LastOneshot] # "waiting"
  \/ pc = "starting" /\ failed = "none" /\ ~Completed /\ \A o \in Oneshot : state[o] \notin Pending
  \/ pc = "starting" /\ failed # "none" /\ "green target" \in off
  \/ pc \in {"retry", "await"} /\ ~MigrationRecorded
  \/ pc = "health" /\ ~HealthFailureObserved
  \/ pc = "failed" /\ (~InjectedFailure \/ off \cap {"other cause", "dependent ran"} # {})
  \/ pc = "oneshots" /\ ~(Completed /\ MigrationRecorded)
  \/ pc = "containers" /\ \E r \in LongRunning : ~ValidateEffectiveContainer(r, failed, dev)
  \/ pc = "application" /\ ~(ValidateNetworkBoundary(off) /\ ValidateExternalBehavior(off) /\ ValidateRuntimeProbes(off))
  \/ pc = "restart" /\ ~(OneshotSucceeded("migrate") /\ invoc = record /\ ValidatePrivateStorage(off))
  \/ pc = "final" /\ ~ValidateLongRunningRoles(off)

\* The check raises an IntegrationError.
Reject ==
  /\ Rejects
  /\ Raise
  /\ UNCHANGED <<call, host, ports, shots, bounds>>

-----------------------------------------------------------------------------
(* cleanup().                                                              *)

\* execute_cloud_cleanup(): the other process reconstructs the fixture.
AdmitCleanup ==
  /\ pc = "admit" /\ kind = "cleanup"
  /\ ValidateCloudCleanupRuntime(off)
  /\ admitted' = TRUE
  /\ pc' = "cleanup"
  /\ UNCHANGED <<call, host, ports, shots, failure, errors, signal, bounds>>

\* cleanup_active is set and the active command reaped.
BeginCleanup ==
  /\ pc = "cleanup"
  /\ Goto(IF admitted THEN "cleaning" ELSE "remove")
  /\ UNCHANGED <<host, ports, shots>>

\* cleanup_resources(): nothing is touched when the admission refuses.
CleanResources(left) ==
  /\ pc = "cleaning"
  /\ left \subseteq {k \in Resource : res[k] # "none"}
  /\ IF AdmitRemoval THEN CleanupResources(left) /\ errors' = errors
     ELSE left = {} /\ errors' = TRUE /\ UNCHANGED <<res, loaded, faults>>
  /\ pc' = "verify"
  /\ UNCHANGED <<call, fixture, ports, shots, admitted, failure, signal, reruns>>

\* Mutant: a cleanup whose commands all ran is believed.
VerifyNothing ==
  /\ pc = "verify"
  /\ pc' = "remove"
  /\ UNCHANGED <<call, host, ports, shots, status, bounds>>

\* snapshot_unrelated_resources() was taken by this process: the separate cloud cleanup
\* has none.
Snapshot == kind # "cleanup"

\* _verify_unrelated_resources(): everything in the snapshot still exists.
UnrelatedErrors == Snapshot /\ "unrelated removed" \in off

\* The verification: _owned_resource_errors() and the unrelated resources.
VerifyCleanup ==
  /\ pc = "verify"
  /\ errors' = (errors \/ loaded \/ UnrelatedErrors
                  \/ \E k \in Resource : res[k] # "none")
  /\ pc' = "remove"
  /\ UNCHANGED <<call, host, ports, shots, admitted, failure, signal, bounds>>

\* The fixture root is removed in any case, and errors are raised at the end.
RemoveFixtureRoot(gone) ==
  /\ pc = "remove"
  /\ gone \/ faults < MaxFaults
  /\ faults' = IF gone THEN faults ELSE faults + 1
  /\ fixture' = ~gone
  /\ errors' = (errors \/ ~gone)
  /\ failure' = (failure \/ errors')
  /\ pc' = "exit"
  /\ UNCHANGED <<call, res, loaded, ports, shots, admitted, signal, reruns>>

-----------------------------------------------------------------------------
(* The environment.                                                        *)

\* Another process takes the selected port between its selection and the start.
TakePort ==
  /\ pc \in {"render", "installed", "reload", "queue", "inspect", "release", "await", "start"} /\ port \in Ports \ busy
  /\ busy' = {port}
  /\ UNCHANGED <<call, pc, host, port, prev, attempt, shots, status, bounds>>

-----------------------------------------------------------------------------
\* main() has parsed the arguments; names of the instance may be in use by a stale
\* fixture or by something else.
Init ==
  /\ kind \in Kinds
  /\ failed \in IF kind = "failure" THEN {"migration", "dependency", "health"} ELSE {"none"}
  /\ \/ off \in {{}, {"state record", "event record"}} \cup {{c} : c \in Check} /\ dev = {}
     \/ off = {} /\ dev \in {{d} : d \in Role \X ContainerCheck}
  /\ pc = "make"
  /\ res \in IF off = {} /\ dev = {}
             THEN [Resource -> {"none", "own", "foreign"}] ELSE [Resource -> {"none"}]
  /\ loaded = (res["unit"] = "own")
  /\ auto \in IF Cloud THEN {FALSE} ELSE BOOLEAN
  /\ port \in IF auto THEN {NoPort} ELSE Ports
  /\ prev = NoPort /\ attempt = 1 /\ busy = {}
  /\ state = [o \in Oneshot |-> "idle"] /\ ran = {} /\ invoc = 0 /\ record = 0
  /\ inspected = {}
  /\ admitted = FALSE /\ fixture \in BOOLEAN /\ failure = FALSE /\ errors = FALSE /\ signal = "none"
  /\ faults = 0 /\ reruns = 0

Prepare ==
  \/ MakeFixtureRoot \/ Admit \/ \E left \in SUBSET Resource : RemoveStale(left)
  \/ StageProducts \/ StageDependencies \/ BuildGateway \/ AdmitGateway
  \/ \E p \in Ports : SelectPort(p)
  \/ InstallUnits \/ CompareUnits \/ ReloadUnits

UnitsAct ==
  \/ ActivateMigration \/ DependencyFails \/ RestartMigration
  \/ \E o \in Oneshot : Execute(o) \/ ReleaseTimeout(o) \/ \E ok \in BOOLEAN : Finish(o, ok)

Start ==
  \/ QueueTarget \/ BlockOnTarget \/ StartTarget \/ PortCollision \/ PrepareRetry
  \/ \E o \in Oneshot : InspectOneshot(o) \/ Release(o)

Prove ==
  \/ AwaitMigration \/ AwaitHealthFailure \/ ObserveFailure \/ ProveExpectedFailure
  \/ ProveOneshots \/ ProveContainers \/ ProveApplication \/ RestartApplication \/ FinishProof
  \/ CollectEvidence

Cleanup ==
  \/ AdmitCleanup \/ BeginCleanup \/ VerifyCleanup
  \/ \E left \in SUBSET Resource : CleanResources(left)
  \/ \E gone \in BOOLEAN : RemoveFixtureRoot(gone)

\* main() has returned.
Terminated == pc = "exit" /\ UNCHANGED vars

Next ==
  \/ Terminated
  \/ Prepare \/ Start \/ Prove \/ Cleanup
  \/ Reject \/ CommandFails \/ HandleSignal
  \/ TakePort \/ UnitsAct

Spec == Init /\ [][Next]_vars

-----------------------------------------------------------------------------
(* Properties.                                                             *)

\* Every variable has its type, and a selected port is one of the two known ones.
TypeOK ==
  /\ res \in [Resource -> {"none", "own", "foreign"}]
  /\ state \in [Oneshot -> OneshotState]
  /\ port \in Ports \cup {NoPort} /\ attempt \in 1 .. 3
  /\ record \in 0 .. invoc /\ ran \subseteq 1 .. invoc /\ inspected \subseteq Oneshot
  /\ faults \in 0 .. MaxFaults /\ reruns \in 0 .. MaxReruns

\* The result of the lifecycle: main() returns 0.
Passed == pc = "exit" /\ ~failure /\ signal = "none"

\* "the migration invocation" is preserved: one lifecycle executes the migration at
\* most once, whatever is retried, restarted by somebody or started again by the target,
\* and a passed run has executed it, in the invocation whose success it recorded.
MigratesOnce ==
  /\ \A v, w \in ran : v = w
  /\ Passed /\ kind = "run" => ran = {record}

\* prove_expected_failure(): "evidence requires the exact /bin/false exit result".  A
\* passed failure profile saw the failure it injected: the injected migration was
\* executed, and not kept waiting; that of a failed PostgreSQL never was; and an
\* unhealthy gateway comes after the one migration that was recorded.
FailureIsInjected ==
  Passed /\ kind = "failure" =>
    ran = CASE failed = "migration"  -> {invoc}
            [] failed = "dependency" -> {}
            [] failed = "health"     -> {record}

\* "It never prunes": what has the instance's name and is not its own is not removed,
\* unless the instance's own unit made it.
ForeignIsKept ==
  [][\A k \in Resource : res[k] = "foreign" /\ res'[k] # "foreign" => res["unit"] = "own"]_res

\* A lifecycle that was admitted and ended without reporting an incomplete cleanup
\* has left nothing behind: no resource of the instance, no loaded unit and no
\* fixture root, whichever step failed or was interrupted.  The exception is a signal
\* in the gap before cleanup() marks itself active.
NothingIsLeft ==
  pc = "exit" /\ kind # "prepare" /\ admitted /\ ~errors /\ signal # "gap" =>
    res = [k \in Resource |-> "none"] /\ ~loaded /\ ~fixture
=============================================================================
