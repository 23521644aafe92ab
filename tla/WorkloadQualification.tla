----------------------- MODULE WorkloadQualification -----------------------
(***************************************************************************)
(* One qualification of a target commit on a disposable host:              *)
(* scripts/ci-cloud/run-rocky-workload-qualification.py runs the untrusted *)
(* target, which installs and removes its units through QuadletFixture,    *)
(* and around it the trusted collector (baseline, live, post-cleanup       *)
(* observations and the two normalizations of the user manager);           *)
(* assemble-evidence.py and validate-evidence.py decide from the           *)
(* observations.  Everything on the host can change between two steps.     *)
(***************************************************************************)
EXTENDS QuadletFixture, WorkloadContract, IdMaps

CONSTANTS Instance,      \* the instance of the target commit
          Roles,         \* the roles whose containers can deviate
          PodmanMap,     \* Podman's own id map on this host
          User,          \* the id of the examined role
          DeviationCost  \* what a deviation takes of MaxFaults

ASSUME QualificationAssumption ==
  /\ Instance \in Instances /\ Roles \subseteq Role /\ User \in Id /\ PodmanMap \in Seq(IdRange)
  /\ DeviationCost \in Nat \ {0}

VARIABLES phase,       \* the phase of run_phases() and the steps it has left
          todo,
          status,      \* of every phase: not run, ok, failed
          diagnostic,  \* what each normalization printed
          obs,         \* the three observations
          off,         \* the deviations on the host at this moment
          owned,       \* what the workload has on the host
          online,      \* podman's network-online unit was activated
          loaded,      \* the manager has loaded the workload's units
          migrations,  \* invocations of the migration in the journal
          controls,    \* generation of the unrelated control network and volume
          namespace,   \* the user namespace of the examined container
          signalled,
          evidence,    \* the result in the evidence document, and what validation said
          verdict,
          stood,       \* deviations present throughout each window
          met          \* deviations present at some moment of each window

hostVars == <<off, owned, online, loaded, migrations, controls, namespace>>
runVars == <<phase, todo, status, diagnostic, obs, signalled, evidence, verdict>>
vars == <<fixtureVars, hostVars, runVars, stood, met>>

-----------------------------------------------------------------------------

Owned == {"units", "auxiliary", "containers", "networks", "volumes", "processes", "helpers"}
StoppedWith == Owned \ {"networks", "volumes"}
ForeignKind == {"unit", "job", "process", "container", "network", "volume", "api"}
Foreign == {"foreign"} \X ForeignKind
Deviation == LiveFlaw(Roles) \cup ActivationFlaw
MaxNamespaceRanges == 2

CollectorMap == <<Range3(0, 0, MaxId)>>
Default == [options |-> "none", configured |-> <<>>, effective |-> PodmanMap,
            podman |-> PodmanMap, collector |-> CollectorMap, running |-> TRUE]

\* The maps a container can be configured with or run under; one that has exited runs under none.
SomeMap == {m \in UNION {[1 .. n -> IdRange] : n \in 1 .. MaxNamespaceRanges} : IdMapIsBounded(m, FALSE)}
Namespaces ==
  {n \in [options : {"none", "auto"}, configured : SomeMap \cup {<<>>}, effective : SomeMap \cup {<<>>},
          podman : {PodmanMap}, collector : {CollectorMap}, running : BOOLEAN] :
     n.running <=> n.effective # <<>>}

\* user_namespace_contract_matches(), of a running or of an exited container.
NamespaceMatches(n) ==
  IF n.running THEN UserNamespaceMatches(n, User, IdFromHost(n.effective, IdToHost(n.effective, User)))
  ELSE ExitedNamespaceMatches(n, User)

Nothing == [complete |-> FALSE, inventory |-> {}, controls |-> 0, migrations |-> 0, api |-> TRUE,
            units |-> {}, jobs |-> {}, processes |-> {}, firstWork |-> {}, firstProcesses |-> {}, seen |-> {}, left |-> {}]

\* incomplete_observation(): what stands for a phase that has no usable document.
IncompleteObservation == Nothing

PhaseOrder == <<"baseline", "prepare", "normalize live", "live", "cleanup", "normalize cleanup", "post">>
Phases == {PhaseOrder[i] : i \in DOMAIN PhaseOrder}

Steps(p) ==
  CASE p = "baseline" -> <<"context", "inventory", "controls", "lifecycle", "work", "processes">>
    [] p = "prepare" -> <<"call", "wait">>
    [] p = "normalize live" ->
         <<"context", "stop", "generator", "replace", "prepared", "reload", "observed", "target",
           "services", "start", "activated", "search path">>
    [] p = "live" ->
         <<"context", "work first", "processes first", "units", "generated", "runtime", "containers",
           "bindings", "networks", "inventory", "lifecycle", "controls", "work", "processes",
           "search path">>
    [] p = "cleanup" -> <<"resources", "call", "wait">>
    [] p = "normalize cleanup" -> <<"context", "generator", "replace", "prepared", "reload",
                                    "observed", "search path">>
    [] p = "post" -> <<"context", "work first", "controls", "lifecycle", "processes first",
                       "owned units", "artifacts", "inventory", "work", "processes">>

Init ==
  /\ FixtureInit
  /\ phase = "host" /\ todo = <<>>
  /\ status = [p \in Phases |-> "not run"]
  /\ diagnostic = [m \in {"normalize live", "normalize cleanup"} |-> "none"]
  /\ obs = [p \in {"baseline", "live", "post"} |-> IncompleteObservation]
  /\ off = {"manager"} \X ManagerFlaw
  /\ owned = {} /\ online = FALSE /\ loaded = FALSE /\ migrations = 0 /\ controls = 0
  /\ namespace = Default
  /\ signalled = FALSE
  /\ evidence = "none" /\ verdict = "none"
  /\ stood = [w \in {"baseline", "activation", "live", "post"} |-> {}]
  /\ met = [w \in {"baseline", "activation", "live", "post"} |-> {}]

-----------------------------------------------------------------------------
(* run_phases().                                                           *)

At(p, s) == phase = p /\ todo # <<>> /\ Head(todo) = s
AtStep(s) == todo # <<>> /\ Head(todo) = s

Begin(p) == phase' = p /\ todo' = IF p = "assemble" THEN <<>> ELSE Steps(p)

NextPhase(p) ==
  CASE p = "baseline" -> "prepare" [] p = "prepare" -> "normalize live"
    [] p = "normalize live" -> "live" [] p = "live" -> "cleanup"
    [] p = "cleanup" -> "normalize cleanup" [] p = "normalize cleanup" -> "post"
    [] p = "post" -> "assemble"

\* Without a baseline there is no workload to start; the cleanup is attempted all the same.
Ended(outcome) ==
  /\ status' = [status EXCEPT ![phase] = outcome]
  /\ Begin(IF phase = "baseline" /\ outcome # "ok" THEN "cleanup" ELSE NextPhase(phase))

Advance == IF Len(todo) = 1 THEN Ended("ok")
           ELSE phase' = phase /\ todo' = Tail(todo) /\ UNCHANGED status

\* main() and prepare(): the invocation, a prepared host without credentials, no account,
\* checkout or generator of an earlier run; then the account, the generator, the fixture
\* installer, the checkout and the unrelated control resources are created.
PrepareHost ==
  /\ phase = "host"
  /\ \/ /\ controls' = 1 /\ Begin("baseline") /\ UNCHANGED <<verdict, faults>>
     \/ /\ faults < MaxFaults /\ faults' = faults + 1
        /\ controls' \in {0, 1} /\ verdict' = "refused"
        /\ phase' = "done" /\ todo' = <<>>
  /\ UNCHANGED <<status, diagnostic, obs, signalled, evidence, off, owned, online, loaded,
                 migrations, namespace>>
  /\ UNCHANGED <<request, trigger, fired, service, lock, active, files, temps, changed, result,
                 client, calls>>

\* A signal: the phase is abandoned, the cleanup phases that are left are attempted,
\* and there is no document.
Interrupted ==
  /\ phase \in Phases /\ faults < MaxFaults
  /\ faults' = faults + 1 /\ signalled' = TRUE
  /\ Begin(CASE phase = "cleanup" -> "normalize cleanup"
             [] phase = "normalize cleanup" -> "post"
             [] phase = "post" -> "assemble"
             [] OTHER -> "cleanup")
  /\ client' = IdleClient
  /\ UNCHANGED <<status, diagnostic, obs, evidence, verdict, hostVars>>
  /\ UNCHANGED <<request, trigger, fired, service, lock, active, files, temps, changed, result, calls>>

\* The collector or a command fails: of the phase nothing remains, or an observation that
\* is not complete.  A normalization may have printed its document before it was killed.
PhaseFails ==
  /\ phase \in Phases \ {"prepare", "cleanup"} /\ faults < MaxFaults
  /\ faults' = faults + 1
  /\ IF phase \in DOMAIN obs
     THEN obs' = [obs EXCEPT ![phase] = IncompleteObservation] /\ UNCHANGED diagnostic
     ELSE (\E d \in {"none", "failed", "complete"} : diagnostic' = [diagnostic EXCEPT ![phase] = d])
            /\ UNCHANGED obs
  /\ Ended("failed")
  /\ UNCHANGED <<signalled, evidence, verdict, hostVars>>
  /\ UNCHANGED <<request, trigger, fired, service, lock, active, files, temps, changed, result, client, calls>>

\* What only the phases themselves change: the host and the fixture stay as they are.
Trusted == UNCHANGED <<signalled, evidence, verdict, fixtureVars>>

-----------------------------------------------------------------------------
(* normalize_quadlet_runtime().                                            *)

NormalizationRejects ==
  /\ Ended("failed")
  /\ diagnostic' = [diagnostic EXCEPT ![phase] = "failed"]

NormalizationGoesOn ==
  /\ Advance
  /\ diagnostic' = IF Len(todo) = 1 THEN [diagnostic EXCEPT ![phase] = "complete"] ELSE diagnostic

\* A step that reads: rejected, or on to the next one.
Admit(admitted) == IF admitted THEN NormalizationGoesOn ELSE NormalizationRejects

NormalizationReads ==
  /\ phase \in DOMAIN diagnostic
  /\ CASE AtStep("context") -> Admit(AdmitCollectionContext(off))
       [] AtStep("generator") -> Admit(EnvironmentGenerator(off))
       [] AtStep("prepared") -> Admit(ManagerEnvironment(off))
       [] AtStep("observed") -> Admit(ManagerEnvironment(off))
       [] AtStep("activated") -> Admit(ManagerEnvironment(off))
       [] AtStep("target") -> Admit(loaded /\ TargetActivation(off))
       [] AtStep("services") -> Admit(loaded /\ ServiceActivation(off))
       [] AtStep("search path") -> Admit(SearchPaths(off))
       [] OTHER -> FALSE
  /\ UNCHANGED <<obs, hostVars>> /\ Trusted

\* Units that are already loaded are admitted before they are stopped.
StopExistingUnits ==
  /\ At("normalize live", "stop")
  /\ IF loaded
     THEN IF TargetActivation(off) /\ \A k \in Kind : UnitActivation(k, off)
          THEN NormalizationGoesOn /\ owned' = owned \ StoppedWith
          ELSE NormalizationRejects /\ UNCHANGED owned
     ELSE NormalizationGoesOn /\ UNCHANGED owned
  /\ UNCHANGED <<obs, off, online, loaded, migrations, controls, namespace>> /\ Trusted

ReplaceManagerEnvironment ==
  /\ phase \in DOMAIN diagnostic /\ AtStep("replace")
  /\ NormalizationGoesOn
  /\ off' = off \ ({"manager"} \X ManagerFlaw)
  /\ UNCHANGED <<obs, owned, online, loaded, migrations, controls, namespace>> /\ Trusted

\* daemon-reload runs the generators: that of the units, and those of the environment.
DaemonReload ==
  /\ phase \in DOMAIN diagnostic /\ AtStep("reload")
  /\ NormalizationGoesOn
  /\ loaded' = (files # {})
  /\ off' = IF EnvironmentGenerator(off) THEN off ELSE off \cup {<<"manager", "environment">>}
  /\ UNCHANGED <<obs, owned, online, migrations, controls, namespace>> /\ Trusted

StartTarget ==
  /\ At("normalize live", "start")
  /\ \/ NormalizationGoesOn /\ UNCHANGED faults
     \/ faults < MaxFaults /\ faults' = faults + 1 /\ NormalizationRejects
  /\ owned' = Owned /\ online' = TRUE /\ migrations' = migrations + 1
  /\ UNCHANGED <<obs, off, loaded, controls, namespace, signalled, evidence, verdict>>
  /\ UNCHANGED <<request, trigger, fired, service, lock, active, files, temps, changed, result, client, calls>>

-----------------------------------------------------------------------------
(* collect_baseline(), collect_live(), collect_post_cleanup().             *)

Fixture(k) == <<"fixture", k>>
There(k) == IF <<"foreign", k>> \in off THEN {<<"foreign", k>>} ELSE {}

\* Mutant: an inventory of nothing but the fixture's own names.
InventoryOfFixture == {Fixture(k) : k \in owned \cap {"containers", "networks", "volumes"}}

\* resource_inventory()
Inventory ==
  There("container") \cup There("network") \cup There("volume")
    \cup {Fixture(k) : k \in owned \cap {"containers", "networks", "volumes"}}
\* user_work_facts(): active units and jobs.
ActiveUnits == There("unit") \cup (IF online THEN {Fixture("online")} ELSE {})
            \cup {Fixture(k) : k \in owned \cap {"units", "auxiliary"}}
Jobs == There("job")
\* user_process_facts()
Processes == There("process") \cup {Fixture(k) : k \in owned \cap {"processes", "helpers"}}

SeenOf(subjects) == {d \in off : d[1] \in subjects}

ReadInventory(o) == [o EXCEPT !.inventory = Inventory]
\* control_resource_facts(): an absent control resource has no identity to record.
ReadControls(o) == [o EXCEPT !.controls = controls, !.complete = @ /\ controls # 0]
\* lifecycle_guard_facts()
ReadLifecycle(o) == [o EXCEPT !.migrations = migrations, !.api = PodmanApi(off),
                              !.complete = @ /\ CSockets(off)]
\* Work and processes are read twice, and the two readings must not differ.
ReadWorkFirst(o) == [o EXCEPT !.firstWork = ActiveUnits \cup Jobs, !.complete = @ /\ CWork(off, online)]
ReadProcessesFirst(o) == [o EXCEPT !.firstProcesses = Processes, !.complete = @ /\ CProcesses(off)]
ReadWork(o, twice) ==
  [o EXCEPT !.units = ActiveUnits, !.jobs = Jobs, !.seen = @ \cup SeenOf({"timers"}),
            !.complete = @ /\ CWork(off, online) /\ (twice => o.firstWork = ActiveUnits \cup Jobs)]
ReadProcesses(o, twice) ==
  [o EXCEPT !.processes = Processes, !.seen = @ \cup SeenOf({"processes"}),
            !.complete = @ /\ CProcesses(off) /\ (twice => o.firstProcesses = Processes)]

\* The facts only the live observation has.
ReadUnits(o) == [o EXCEPT !.seen = @ \cup SeenOf({"unit"}), !.complete = @ /\ CUnits(off) /\ Of(Instance) = files]
ReadGenerated(o) == [o EXCEPT !.seen = @ \cup SeenOf(Kind), !.complete = @ /\ loaded /\ CServices(off)]
\* podman_runtime_facts() and podman_outer_id_maps()
ReadRuntime(o) == [o EXCEPT !.seen = @ \cup SeenOf({"runtime"}), !.complete = @ /\ CRuntime(off)]
ReadContainers(o) ==
  [o EXCEPT !.seen = @ \cup SeenOf(Role)
                       \cup (IF NamespaceMatches(namespace) THEN {} ELSE {<<"api", "user namespace">>}),
            !.complete = @ /\ \A r \in Role : CContainer(r, off)]
ReadBindings(o) == [o EXCEPT !.complete = @ /\ \A r \in Role : CBinding(r, off)]
\* workload_network_metadata() and aardvark_configuration_matches_workload()
ReadNetworks(o) == [o EXCEPT !.complete = @ /\ CNetworks(off) /\ CAardvark(off)]
ReadSearchPath(o) == [o EXCEPT !.seen = @ \cup SeenOf({"manager"})]

\* The facts only the last observation has: what is left of the fixture on disk.
ReadOwnedUnits(o) == [o EXCEPT !.left = @ \cup (IF files = {} THEN {} ELSE {"units"})]
\* generated_cleanup_artifacts()
ReadArtifacts(o) == [o EXCEPT !.left = @ \cup (IF loaded THEN {"artifacts"} ELSE {})]

Reading(o) ==
  CASE AtStep("inventory") -> ReadInventory(o)
    [] AtStep("controls") -> ReadControls(o)
    [] AtStep("lifecycle") -> ReadLifecycle(o)
    [] AtStep("work first") -> ReadWorkFirst(o)
    [] AtStep("processes first") -> ReadProcessesFirst(o)
    [] AtStep("work") -> ReadWork(o, phase # "baseline")
    [] AtStep("processes") -> ReadProcesses(o, phase # "baseline")
    [] AtStep("units") -> ReadUnits(o)
    [] AtStep("generated") -> ReadGenerated(o)
    [] AtStep("runtime") -> ReadRuntime(o)
    [] AtStep("containers") -> ReadContainers(o)
    [] AtStep("bindings") -> ReadBindings(o)
    [] AtStep("networks") -> ReadNetworks(o)
    [] AtStep("search path") -> ReadSearchPath(o)
    [] AtStep("owned units") -> ReadOwnedUnits(o)
    [] AtStep("artifacts") -> ReadArtifacts(o)

\* main(): a collector that does not admit its context leaves no observation.
Collect ==
  /\ phase \in DOMAIN obs
  /\ IF AtStep("context")
     THEN IF AdmitCollectionContext(off)
          THEN Advance /\ obs' = [obs EXCEPT ![phase] = [Nothing EXCEPT !.complete = TRUE]]
          ELSE Ended("failed") /\ UNCHANGED obs
     ELSE Advance /\ obs' = [obs EXCEPT ![phase] = Reading(@)]
  /\ UNCHANGED <<diagnostic, hostVars>> /\ Trusted

-----------------------------------------------------------------------------
(* The target, which is not trusted: target-conformance.sh runs the phases *)
(* of quadlet-integration.py, and execute() waits for it.                  *)

\* The cleanup stops the workload and removes its resources; it can forget one.
TargetRemovesResources ==
  /\ At("cleanup", "resources")
  /\ Advance
  /\ \/ owned' = {} /\ UNCHANGED faults
     \/ /\ faults < MaxFaults /\ faults' = faults + 1
        /\ \E k \in owned : owned' = {k}
  /\ UNCHANGED <<diagnostic, obs, signalled, evidence, verdict, off, online, loaded, migrations,
                 controls, namespace>>
  /\ UNCHANGED <<request, trigger, fired, service, lock, active, files, temps, changed, result, client, calls>>

TargetCalls ==
  /\ \/ At("prepare", "call") /\ \E f \in {{}, {"content"}} : StageRequest("install", Instance, f)
     \/ At("cleanup", "call") /\ StageRequest("remove", Instance, {})
     \/ At("prepare", "call") /\ StageFails("install", Instance)
  /\ Advance
  /\ UNCHANGED <<diagnostic, obs, signalled, evidence, verdict, hostVars>>

\* Its status is the client's answer, or what it likes.
TargetReturns ==
  /\ phase \in {"prepare", "cleanup"} /\ AtStep("wait")
  /\ client.pc \in {"accepted", "refused"}
  /\ client' = IdleClient
  /\ \/ /\ Ended(IF client.pc = "accepted" THEN "ok" ELSE "failed") /\ UNCHANGED faults
     \/ /\ client.pc = "refused" /\ faults < MaxFaults /\ faults' = faults + 1 /\ Ended("ok")
  /\ UNCHANGED <<diagnostic, obs, signalled, evidence, verdict, hostVars>>
  /\ UNCHANGED <<request, trigger, fired, service, lock, active, files, temps, changed, result, calls>>

\* It ends early, killed by its timeout or of its own, and says what it likes.
TargetEnds ==
  /\ phase \in {"prepare", "cleanup"} /\ faults < MaxFaults
  /\ faults' = faults + 1 /\ client' = IdleClient
  /\ \E outcome \in {"ok", "failed"} : Ended(outcome)
  /\ UNCHANGED <<diagnostic, obs, signalled, evidence, verdict, hostVars>>
  /\ UNCHANGED <<request, trigger, fired, service, lock, active, files, temps, changed, result, calls>>

\* It starts the workload itself, before the environment has been normalized.
TargetActivates ==
  /\ At("prepare", "wait") /\ client.pc = "accepted" /\ faults < MaxFaults
  /\ files # {} /\ ~loaded
  /\ faults' = faults + 1
  /\ loaded' = TRUE /\ owned' = Owned /\ online' = TRUE /\ migrations' = migrations + 1
  /\ UNCHANGED <<runVars, off, controls, namespace>>
  /\ UNCHANGED <<request, trigger, fired, service, lock, active, files, temps, changed, result, client, calls>>

Installing ==
  /\ phase # "done"
  /\ ServiceStep \/ ClientStep
  /\ UNCHANGED <<hostVars, runVars>>

-----------------------------------------------------------------------------
(* The host changes at any time, as MaxFaults allows.  The user            *)
(* namespace of a container is made when it is started.                    *)

Deviate ==
  /\ phase \in Phases /\ faults + DeviationCost <= MaxFaults
  /\ faults' = faults + DeviationCost
  /\ \/ /\ \E d \in (Deviation \cup Foreign) \ off : off' = off \cup {d}
        /\ UNCHANGED <<controls, namespace>>
     \/ /\ controls' = controls + 1 /\ UNCHANGED <<off, namespace>>
     \/ /\ At("normalize live", "start") /\ namespace' \in Namespaces
        /\ UNCHANGED <<off, controls>>
  /\ UNCHANGED <<runVars, owned, online, loaded, migrations>>
  /\ UNCHANGED <<request, trigger, fired, service, lock, active, files, temps, changed, result, client, calls>>

Mend ==
  /\ phase \in Phases
  /\ \E d \in off \ ({"manager"} \X ManagerFlaw) : off' = off \ {d}
  /\ UNCHANGED <<runVars, owned, online, loaded, migrations, controls, namespace, fixtureVars>>

-----------------------------------------------------------------------------
(* workload_admission_failures(), assemble() and validate_document().      *)

AdmitsWork(b, l, c) ==
  /\ Fixture("online") \notin b.units
  /\ c.units = b.units \cup {Fixture("online")} /\ c.jobs = b.jobs
  /\ l.units = b.units \cup {Fixture("units"), Fixture("auxiliary"), Fixture("online")}
  /\ l.jobs = b.jobs
  /\ AWork(l.seen)

AdmitsProcesses(b, l, c) ==
  /\ c.processes = b.processes
  /\ b.processes \subseteq l.processes
  /\ l.processes \ b.processes \subseteq {Fixture("processes"), Fixture("helpers")}
  /\ Fixture("helpers") \in l.processes \ b.processes
  /\ AProcesses(l.seen)

AdmitsResources(b, l, c) ==
  LET added == {Fixture("containers"), Fixture("networks"), Fixture("volumes")} IN
  /\ b.inventory \cap added = {}
  /\ l.inventory = b.inventory \cup added
  /\ c.inventory = b.inventory
  /\ c.left = {}
  /\ b.controls # 0 /\ l.controls = b.controls /\ c.controls = b.controls

\* Mutant: a check for a migration that does not count.
AdmitsAnyMigration(b, c) == b.migrations = 0 /\ c.migrations > 0
AdmitsMigration(b, c) == b.migrations = 0 /\ c.migrations = 1

AdmitsFacts(l) ==
  /\ AUnits(l.seen) /\ SearchPaths(l.seen) /\ ARuntime(l.seen) /\ AServices(l.seen)
  /\ \A r \in Role : AContainer(r, l.seen)

WorkloadAdmission(o) ==
  LET b == o["baseline"]  l == o["live"]  c == o["post"] IN
  /\ b.complete /\ l.complete /\ c.complete
  /\ ~b.api /\ ~l.api /\ ~c.api
  /\ AdmitsFacts(l) /\ AdmitsWork(b, l, c) /\ AdmitsProcesses(b, l, c)
  /\ AdmitsResources(b, l, c) /\ AdmitsMigration(b, c)

AllOk == \A p \in Phases : status[p] = "ok"

\* read_normalization_diagnostic(): it must agree with the status of its phase.
DiagnosticAgrees(m) ==
  IF status[m] = "ok" THEN diagnostic[m] = "complete" ELSE diagnostic[m] # "complete"

\* read_observation() for every phase: without status 0 there is no observation.
ReadObservations == [p \in DOMAIN obs |-> IF status[p] = "ok" THEN obs[p] ELSE IncompleteObservation]

Result(o) == IF WorkloadAdmission(o) /\ AllOk THEN "passed" ELSE "failed"

\* No document after a signal; contradictory diagnostics are refused.
Assemble ==
  /\ phase = "assemble"
  /\ IF ~signalled /\ \A m \in DOMAIN diagnostic : DiagnosticAgrees(m)
     THEN evidence' = Result(ReadObservations) /\ phase' = "validate" /\ UNCHANGED verdict
     ELSE verdict' = "refused" /\ phase' = "done" /\ UNCHANGED evidence
  /\ UNCHANGED <<todo, status, diagnostic, obs, signalled, hostVars, fixtureVars>>

\* What validate_document() rejects in a document whatever its result: sensitive texts,
\* inexact keys, another schema, a claim beyond the fixture, contradictory diagnostics,
\* facts that are not exact, another commit, malformed statuses.
DocumentFlaw == {"sensitive", "keys", "version", "diagnostic", "claim", "fact keys",
                 "other commit", "malformed status"}
DocumentIsExact(document) == document \notin DocumentFlaw

\* The document is a file between two commands.
AlterEvidence ==
  /\ phase = "validate" /\ faults < MaxFaults
  /\ faults' = faults + 1 /\ evidence' \in {"passed"} \cup DocumentFlaw
  /\ UNCHANGED <<phase, todo, status, diagnostic, obs, signalled, verdict, hostVars>>
  /\ UNCHANGED <<request, trigger, fired, service, lock, active, files, temps, changed, result, client, calls>>

\* recompute_admission() from the observations in the document.
Recomputed == Result(ReadObservations)
ValidateEvidence ==
  /\ phase = "validate"
  /\ verdict' = IF DocumentIsExact(evidence) /\ evidence = Recomputed THEN evidence ELSE "refused"
  /\ phase' = "done"
  /\ UNCHANGED <<todo, status, diagnostic, obs, signalled, evidence, hostVars, fixtureVars>>

-----------------------------------------------------------------------------

InWindow(w) ==
  IF w = "activation" THEN phase = "normalize live" /\ Len(todo) \in 3 .. 10 ELSE phase = w

\* What stood throughout a window, and what was met in it.
Remember ==
  /\ stood' = [w \in DOMAIN stood |->
                 IF InWindow(w)' THEN (IF InWindow(w) THEN stood[w] \cap off' ELSE off') ELSE stood[w]]
  /\ met' = [w \in DOMAIN met |-> IF InWindow(w)' THEN met[w] \cup (off' \cap Foreign) ELSE met[w]]

Next ==
  \/ PrepareHost /\ Remember
  \/ Interrupted /\ Remember
  \/ PhaseFails /\ Remember
  \/ NormalizationReads /\ Remember
  \/ StopExistingUnits /\ Remember
  \/ ReplaceManagerEnvironment /\ Remember
  \/ DaemonReload /\ Remember
  \/ StartTarget /\ Remember
  \/ Collect /\ Remember
  \/ TargetRemovesResources /\ Remember
  \/ TargetCalls /\ Remember
  \/ TargetReturns /\ Remember
  \/ TargetEnds /\ Remember
  \/ TargetActivates /\ Remember
  \/ Installing /\ Remember
  \/ Deviate /\ Remember
  \/ Mend /\ Remember
  \/ Assemble /\ Remember
  \/ AlterEvidence /\ Remember
  \/ ValidateEvidence /\ Remember

Spec == Init /\ [][Next]_vars

-----------------------------------------------------------------------------
Passed == verdict = "passed"

(* A commit passes only if the workload was started from the reviewed      *)
(* units, under the reviewed environment and generators, and ran as        *)
(* reviewed: no deviation stood throughout the activation or throughout    *)
(* the live observation, whichever of the separate reads would show it.    *)
AdmittedIsReviewed ==
  Passed => /\ stood["activation"] \cap ActivationFlaw = {}
            /\ stood["live"] \cap LiveFlaw(Roles) = {}

(* What belonged to others before is there during and after the run, and   *)
(* nothing else came to stay: the resources that stood in one observation  *)
(* are met in the others, and the control resources are the same ones.     *)
OthersAreKept ==
  Passed => /\ controls = obs["baseline"].controls \/ obs["post"].controls = obs["baseline"].controls
            /\ \A v, w \in {"baseline", "live", "post"} : stood[v] \cap Foreign \subseteq met[w]

(* A commit that passed has migrated exactly once, and nothing of it is    *)
(* left: no unit, no interrupted write, no resource; of the installer's    *)
(* record at most that of an interrupted installation or removal.          *)
(* Whatever the target did or said.                                        *)
PassedLeavesNothing ==
  Passed => /\ migrations = 1
            /\ files = {} /\ temps = {} /\ active.state # "active"
            /\ owned = {} /\ ~loaded

(* A passed container with configured maps runs where these maps, through  *)
(* Podman's own, put it: every id, across the ends of ranges.              *)
MapsCompose ==
  Passed /\ namespace.running /\ namespace.configured # <<>> =>
    \A i \in Id :
      LET inner == IdToHost(namespace.configured, i) IN
      IdToHost(namespace.effective, i) =
        IF inner = Unmapped THEN Unmapped ELSE IdToHost(namespace.podman, inner)
=============================================================================
