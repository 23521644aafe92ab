------------------------ MODULE QuadletRuntimeProofs ------------------------
(***************************************************************************)
(* Proofs about QuadletRuntime for every set of ports, every choice of     *)
(* lifecycles and every number of failing commands and of restarts of the  *)
(* migration.                                                              *)
(***************************************************************************)
EXTENDS QuadletRuntime, FiniteSetTheorems, TLAPS

-----------------------------------------------------------------------------
(* The inductive invariant.                                                *)

\* The steps of a lifecycle, in their order; those after Admitting work on an admitted
\* host, those of Ending are the same for every lifecycle.
Admitting == {"make", "admit"}
Staging == {"stale", "products", "dependencies", "gateway", "digest"}
Installing == {"port", "render", "installed"}
Starting == {"reload", "queue", "inspect", "release", "start", "starting", "retry"}
Proving == {"oneshots", "containers", "application", "restart", "final", "evidence"}
Failing == {"await", "health", "failed"}
Ending == {"cleanup", "cleaning", "verify", "remove", "exit"}

Types ==
  /\ kind \in Kinds
  /\ failed \in {"none", "migration", "dependency", "health"}
  /\ failed # "none" <=> kind = "failure"
  /\ res \in [Resource -> {"none", "own", "foreign"}]
  /\ state \in [Oneshot -> OneshotState]
  /\ invoc \in Nat /\ record \in 0 .. invoc /\ ran \subseteq 1 .. invoc
  /\ inspected \subseteq Releases
  /\ admitted \in BOOLEAN /\ failure \in BOOLEAN /\ errors \in BOOLEAN
  /\ loaded \in BOOLEAN /\ fixture \in BOOLEAN
  /\ signal \in {"none", "raised", "noted", "gap"}

\* Which steps a lifecycle has, and in which order it inspects the one-shots.
Flow ==
  /\ kind = "run" => pc \in Admitting \cup Staging \cup Installing \cup Starting \cup Proving \cup Ending
  /\ kind = "failure" =>
       pc \in Admitting \cup Staging \cup Installing \cup Starting \cup Failing \cup Ending
  /\ kind = "prepare" => pc \in Admitting \cup Staging \cup Installing \cup {"exit"}
  /\ kind = "cleanup" => pc \in Admitting \cup Ending
  /\ pc \in Admitting => ~admitted
  /\ pc \notin Admitting /\ ~failure => admitted
  /\ errors => pc \in {"verify", "remove", "exit"}
  /\ errors /\ pc = "exit" => failure
  /\ "migrate" \in inspected => "secrets-init" \in inspected
  /\ pc = "inspect" => inspected # Releases

\* Between the removal of stale resources and the cleanup nothing of somebody else has
\* the names of the instance.
NoForeign ==
  pc \in (Staging \ {"stale"}) \cup Installing \cup Starting \cup Proving \cup Failing =>
    \A k \in Resource : res[k] # "foreign"

\* What the end of a cleanup has seen.
Cleaned ==
  /\ pc \in {"remove", "exit"} /\ kind # "prepare" /\ admitted /\ ~errors /\ signal # "gap" =>
       res = [k \in Resource |-> "none"] /\ ~loaded
  /\ pc = "exit" /\ kind # "prepare" /\ admitted /\ ~errors /\ signal # "gap" => ~fixture
  /\ signal = "gap" => pc = "exit"

\* The migration has not been released, however often its unit was restarted.
Unreleased == "migrate" \notin inspected \/ pc = "release"

\* What was executed: nothing before the release, and after it only the container that
\* was released; a recorded invocation is the one that was executed.
Migration ==
  /\ Unreleased => ran = {} /\ state["migrate"] \notin {"released", "running", "done", "failed"}
  /\ state["migrate"] = "released" => ran = {}
  /\ state["migrate"] \in {"running", "done", "failed"} => ran = {invoc}
  /\ \A v, w \in ran : v = w
  /\ record # 0 => ran = {record}
  /\ state["migrate"] \notin {"idle", "queued"} => invoc # 0

\* What a lifecycle that has not failed ends with.
Outcome ==
  /\ pc \in Proving \ {"oneshots"} => record # 0
  /\ kind = "run" /\ pc \in Ending /\ ~failure => record # 0
  /\ kind = "failure" /\ pc \in Ending /\ ~failure => InjectedFailure

IInv ==
  /\ Types
  /\ Flow
  /\ NoForeign
  /\ Cleaned
  /\ Migration
  /\ Outcome

-----------------------------------------------------------------------------
(* Lemmas.                                                                 *)

USE DEF Admitting, Staging, Installing, Starting, Proving, Failing, Ending

LEMMA OneshotNames == "migrate" \in Oneshot /\ "secrets-init" \in Oneshot
BY DEF Oneshot

\* The kind of lifecycle and the injected failure stay.
LEMMA CallFrame ==
  ASSUME UNCHANGED call
  PROVE  kind' = kind /\ failed' = failed /\ Local' = Local /\ Cloud' = Cloud /\ Releases' = Releases
BY DEF call, Local, Cloud, Releases

\* A step that leaves the one-shots alone and does not release one.
LEMMA ShotsStay ==
  ASSUME IInv, UNCHANGED <<call, shots>>, pc' # "release"
  PROVE  Migration'
<1>1. UNCHANGED <<state, ran, invoc, record, inspected>>
  BY DEF shots
<1>2. Unreleased' => Unreleased
  BY <1>1 DEF Unreleased
<1> QED BY <1>1, <1>2 DEF IInv, Migration

\* A step to the end of a lifecycle that fails.
LEMMA FailKeeps ==
  ASSUME IInv, pc \notin Ending \cup {"make"}, failure', pc' = IF Local THEN "cleanup" ELSE "exit",
         UNCHANGED <<call, host, shots, admitted, errors>>,
         signal' \in {signal, "raised"}
  PROVE  IInv'
<1>1. Types /\ Flow /\ NoForeign /\ Cleaned
  BY DEF IInv
<1>2. kind' = kind /\ Local' = Local /\ Releases' = Releases /\ failed' = failed
  BY CallFrame
<1>3. UNCHANGED <<kind, res, loaded, fixture, state, ran, invoc, record, inspected>> /\ failure' = TRUE
  BY <1>2 DEF host, shots
<1>4. Types'
  BY <1>1, <1>2, <1>3 DEF Types
<1>5. Flow' /\ Cleaned'
  BY <1>1, <1>2, <1>3, QuadletAssumption DEF Types, Flow, Cleaned, Local
<1>6. NoForeign' /\ Outcome'
  BY <1>3 DEF NoForeign, Outcome
<1>7. Migration'
  BY ShotsStay
<1> QED BY <1>4, <1>5, <1>6, <1>7 DEF IInv

LEMMA MakeKeeps == ASSUME IInv, MakeFixtureRoot PROVE IInv'
<1>1. Types /\ Flow
  BY DEF IInv
<1>2. kind' = kind /\ Releases' = Releases /\ failed' = failed
  BY CallFrame DEF MakeFixtureRoot
<1>3. /\ UNCHANGED <<kind, failed, res, loaded, state, ran, invoc, record, inspected, admitted, errors, signal>>
      /\ pc = "make" /\ failure' \in BOOLEAN /\ fixture' \in BOOLEAN
      /\ pc' = "admit" \/ (pc' = "exit" /\ failure' = TRUE /\ kind # "cleanup")
  BY <1>1, <1>2 DEF MakeFixtureRoot, shots, Types
<1>4. Types' /\ Flow'
  BY <1>1, <1>2, <1>3 DEF Types, Flow
<1>5. NoForeign' /\ Cleaned' /\ Outcome'
  BY <1>1, <1>3 DEF NoForeign, Outcome, Cleaned, Flow, IInv
<1>6. Migration'
  BY <1>3, ShotsStay DEF MakeFixtureRoot
<1> QED BY <1>4, <1>5, <1>6 DEF IInv

\* The admission of the host, and of the separate cleanup.
LEMMA AdmitKeeps == ASSUME IInv, Admit \/ AdmitCleanup PROVE IInv'
<1>1. Types /\ Flow
  BY DEF IInv
<1>2. kind' = kind /\ Releases' = Releases /\ failed' = failed
  BY CallFrame DEF Admit, AdmitCleanup
<1>3. /\ UNCHANGED <<kind, failed, res, loaded, fixture, state, ran, invoc, record, inspected, failure,
                     errors, signal>>
      /\ pc = "admit" /\ admitted' = TRUE
      /\ (pc' = "stale" /\ kind # "cleanup") \/ (pc' = "cleanup" /\ kind = "cleanup")
  BY <1>2 DEF Admit, AdmitCleanup, shots, host
<1>4. Types' /\ Flow'
  BY <1>1, <1>2, <1>3 DEF Types, Flow
<1>5. NoForeign' /\ Cleaned' /\ Outcome'
  BY <1>1, <1>3 DEF NoForeign, Cleaned, Outcome, Flow, IInv
<1>6. Migration'
  BY <1>3, ShotsStay DEF Admit, AdmitCleanup
<1> QED BY <1>4, <1>5, <1>6 DEF IInv

LEMMA RemoveStaleKeeps ==
  ASSUME IInv, NEW left \in SUBSET Resource, RemoveStale(left)
  PROVE  IInv'
<1>1. Types /\ Flow
  BY DEF IInv
<1>2. kind' = kind /\ Releases' = Releases /\ failed' = failed
  BY CallFrame DEF RemoveStale
<1>3. /\ UNCHANGED <<kind, failed, fixture, state, ran, invoc, record, inspected, failure, admitted, errors, signal>>
      /\ pc = "stale" /\ pc' = "products"
  BY <1>2 DEF RemoveStale, shots, status
<1>4. /\ res' \in [Resource -> {"none", "own", "foreign"}] /\ loaded' \in BOOLEAN
      /\ \A k \in Resource : res'[k] # "foreign"
  BY <1>1 DEF RemoveStale, CleanupResources, Removed, OwnedResourceErrors, Types
<1>5. Types' /\ Flow'
  BY <1>1, <1>2, <1>3, <1>4 DEF Types, Flow
<1>6. NoForeign' /\ Cleaned' /\ Outcome'
  BY <1>3, <1>4 DEF NoForeign, Cleaned, Outcome, IInv
<1>7. Migration'
  BY <1>3, ShotsStay DEF RemoveStale
<1> QED BY <1>5, <1>6, <1>7 DEF IInv

\* The steps that change neither the one-shots nor the end: staging, installation,
\* the end of the health wait and the return from a port collision.
LEMMA StepKeeps ==
  ASSUME IInv, UNCHANGED <<call, status, shots>>,
         \/ pc = "products" /\ pc' = "dependencies" /\ UNCHANGED host
         \/ pc = "dependencies" /\ pc' = "gateway" /\ UNCHANGED host
         \/ pc = "gateway" /\ pc' = "digest" /\ res' = [res EXCEPT !["image"] = "own"] /\ UNCHANGED <<loaded, fixture>>
         \/ pc = "digest" /\ pc' = "port" /\ UNCHANGED host
         \/ pc = "port" /\ pc' = "render" /\ UNCHANGED host
         \/ pc = "render" /\ pc' = "installed" /\ res' = [res EXCEPT !["unit"] = "own"] /\ UNCHANGED <<loaded, fixture>>
         \/ pc = "installed" /\ pc' = (IF Cloud THEN "exit" ELSE "reload") /\ UNCHANGED host
         \/ pc = "reload" /\ pc' = "queue" /\ loaded' = TRUE /\ UNCHANGED <<res, fixture>>
         \/ pc = "starting" /\ pc' = "oneshots" /\ failed = "none" /\ UNCHANGED host
         \/ pc \in {"starting", "health"} /\ pc' = "retry" /\ UNCHANGED host
         \/ pc = "health" /\ pc' = "start" /\ UNCHANGED host
         \/ pc = "starting" /\ pc' = "failed" /\ failed # "none" /\ UNCHANGED host
  PROVE  IInv'
<1>1. Types /\ Flow /\ NoForeign
  BY DEF IInv
<1>2. kind' = kind /\ Releases' = Releases /\ failed' = failed
  BY CallFrame
<1>3. UNCHANGED <<kind, failed, fixture, state, ran, invoc, record, inspected, failure, admitted, errors, signal>>
  BY <1>2 DEF shots, status, host
<1>4. /\ res' \in [Resource -> {"none", "own", "foreign"}] /\ loaded' \in BOOLEAN
      /\ \A k \in Resource : res'[k] \in {res[k], "own"}
  BY <1>1 DEF Types, host
<1>5. Types'
  BY <1>1, <1>2, <1>3, <1>4 DEF Types
<1>6. Flow' /\ Cleaned'
  <2>1. kind \in {"run", "failure", "prepare"} /\ ~errors /\ signal # "gap"
    BY <1>1, QuadletAssumption DEF IInv, Types, Flow, Cleaned
  <2>2. CASE kind = "run"
    BY <1>1, <1>3, <2>1, <2>2 DEF Types, Flow, Cleaned, Cloud
  <2>3. CASE kind = "failure"
    BY <1>1, <1>3, <2>1, <2>3 DEF Types, Flow, Cleaned, Cloud
  <2>4. CASE kind = "prepare"
    BY <1>1, <1>3, <2>1, <2>4 DEF Types, Flow, Cleaned, Cloud
  <2> QED BY <2>1, <2>2, <2>3, <2>4
<1>7. NoForeign'
  BY <1>1, <1>3, <1>4 DEF NoForeign
<1>8. Outcome'
  BY <1>1, <1>2, <1>3, QuadletAssumption DEF Outcome, Cloud, Types, Flow
<1>9. Migration'
  BY ShotsStay
<1> QED BY <1>5, <1>6, <1>7, <1>8, <1>9 DEF IInv

LEMMA StageKeeps ==
  ASSUME IInv, \/ StageProducts \/ StageDependencies \/ BuildGateway \/ AdmitGateway \/ CompareUnits
               \/ \E p \in Ports : SelectPort(p)
               \/ InstallUnits \/ ReloadUnits
               \/ StartTarget \/ AwaitHealthFailure \/ ObserveFailure \/ (PortCollision /\ Goto("retry"))
  PROVE  IInv'
BY StepKeeps DEF StageProducts, StageDependencies, BuildGateway, AdmitGateway, CompareUnits, SelectPort,
   InstallUnits, ReloadUnits, StartTarget, AwaitHealthFailure, ObserveFailure, PortCollision, Goto, host, shots

\* The target is started, without waiting or waiting.
LEMMA TargetKeeps == ASSUME IInv, QueueTarget \/ BlockOnTarget PROVE IInv'
<1>1. Types /\ Flow /\ NoForeign /\ Migration
  BY DEF IInv
<1>2. kind' = kind /\ Releases' = Releases /\ failed' = failed
  BY CallFrame DEF QueueTarget, BlockOnTarget, Goto
<1>3. /\ UNCHANGED <<kind, failed, loaded, fixture, ran, invoc, record, inspected, failure, admitted, errors, signal>>
      /\ \/ pc = "queue" /\ inspected = {} /\ pc' = "inspect"
         \/ pc = "queue" /\ failed = "health" /\ pc' = "await"
         \/ pc = "queue" /\ pc' = "start"
         \/ pc = "start" /\ pc' = "starting"
  BY <1>2 DEF QueueTarget, BlockOnTarget, AfterReleases, Goto, status
<1>4. /\ res' \in [Resource -> {"none", "own", "foreign"}]
      /\ \A k \in Resource : res'[k] \in {res[k], "own"}
  BY <1>1 DEF QueueTarget, BlockOnTarget, StartUnits, Started, Types
<1>5. /\ state' \in [Oneshot -> OneshotState]
      /\ state'["migrate"] \in {state["migrate"], "queued"}
  BY <1>1, OneshotNames DEF QueueTarget, BlockOnTarget, StartUnits, Types, OneshotState
<1>6. Types'
  BY <1>1, <1>2, <1>3, <1>4, <1>5 DEF Types
<1>7. Flow'
  BY <1>1, <1>2, <1>3, QuadletAssumption DEF Types, Flow, Releases, Oneshot
<1>8. NoForeign' /\ Cleaned' /\ Outcome'
  BY <1>1, <1>3, <1>4 DEF NoForeign, Cleaned, Outcome, IInv
<1>9. Migration'
  BY <1>1, <1>3, <1>5 DEF Migration, Unreleased
<1> QED BY <1>6, <1>7, <1>8, <1>9 DEF IInv

LEMMA InspectKeeps == ASSUME IInv, NEW o \in Oneshot, InspectOneshot(o) PROVE IInv'
<1>1. Types /\ Flow /\ NoForeign /\ Migration
  BY DEF IInv
<1>2. kind' = kind /\ Releases' = Releases /\ failed' = failed
  BY CallFrame DEF InspectOneshot, Goto
<1>3. /\ UNCHANGED <<kind, failed, res, loaded, fixture, state, ran, invoc, record, failure, admitted, errors, signal>>
      /\ pc = "inspect" /\ pc' = "release" /\ o = NextOneshot /\ inspected' = inspected \cup {o}
  BY <1>2 DEF InspectOneshot, Goto, status, host
<1>4. o \in Releases /\ "migrate" \notin inspected /\ ("migrate" = o => "secrets-init" \in inspected)
  BY <1>1, <1>3 DEF Types, Flow, NextOneshot, Releases, Oneshot
<1>5. Types' /\ Flow'
  BY <1>1, <1>2, <1>3, <1>4 DEF Types, Flow
<1>6. NoForeign' /\ Cleaned' /\ Outcome'
  BY <1>1, <1>3 DEF NoForeign, Cleaned, Outcome, IInv
<1>7. Migration'
  BY <1>1, <1>3, <1>4 DEF Migration, Unreleased
<1> QED BY <1>5, <1>6, <1>7 DEF IInv

LEMMA ReleaseKeeps == ASSUME IInv, NEW o \in Oneshot, Release(o) PROVE IInv'
<1>1. Types /\ Flow /\ NoForeign /\ Migration
  BY DEF IInv
<1>2. kind' = kind /\ Releases' = Releases /\ failed' = failed
  BY CallFrame DEF Release, Goto
<1>3. /\ UNCHANGED <<kind, failed, res, loaded, fixture, ran, invoc, record, inspected, failure, admitted, errors, signal>>
      /\ pc = "release" /\ o = LastOneshot /\ state[o] = "waiting" /\ state' = [state EXCEPT ![o] = "released"]
      /\ \/ pc' = "inspect" /\ inspected # Releases
         \/ pc' = "await" /\ failed = "health"
         \/ pc' = "start"
  BY <1>2 DEF Release, AfterReleases, Goto, status, host
<1>4. state' \in [Oneshot -> OneshotState]
  BY <1>1, <1>3 DEF Types, OneshotState
<1>5. Types'
  BY <1>1, <1>2, <1>3, <1>4 DEF Types
<1>6. Flow'
  BY <1>1, <1>2, <1>3, QuadletAssumption DEF Types, Flow
<1>7. NoForeign' /\ Cleaned' /\ Outcome'
  BY <1>1, <1>3 DEF NoForeign, Cleaned, Outcome, IInv
<1>8. Migration'
  <2>1. Unreleased /\ (Unreleased' <=> "migrate" \notin inspected)
    BY <1>3 DEF Unreleased
  <2>2. CASE "migrate" \in inspected
    <3>1. state'["migrate"] = "released"
      BY <1>1, <1>3, <2>2, OneshotNames DEF LastOneshot, Types
    <3> QED BY <1>1, <1>3, <2>1, <2>2, <3>1 DEF Migration
  <2>3. CASE "migrate" \notin inspected
    <3>1. state'["migrate"] = state["migrate"]
      BY <1>1, <1>3, <2>3, OneshotNames DEF LastOneshot, Types
    <3> QED BY <1>1, <1>3, <2>1, <2>3, <3>1 DEF Migration
  <2> QED BY <2>2, <2>3
<1> QED BY <1>5, <1>6, <1>7, <1>8 DEF IInv

\* A step of the units, at any step of a lifecycle that goes on.
LEMMA UnitFrame ==
  ASSUME IInv, NEW o \in Oneshot, NEW from, NEW to \in OneshotState, Units(o, from, to),
         \/ invoc' = invoc /\ ran' = ran
         \/ invoc' = invoc + 1 /\ ran' = ran
         \/ invoc' = invoc /\ ran' = ran \cup {invoc} /\ invoc # 0
  PROVE  Types' /\ Flow' /\ NoForeign' /\ Cleaned' /\ Outcome'
<1>1. Types /\ Flow /\ NoForeign /\ Cleaned /\ Outcome
  BY DEF IInv
<1>2. kind' = kind /\ Releases' = Releases /\ failed' = failed
  BY CallFrame DEF Units
<1>3. /\ UNCHANGED <<kind, failed, pc, res, loaded, fixture, record, inspected, failure, admitted, errors, signal>>
      /\ pc \notin Ending
  BY <1>2 DEF Units, host, status
<1>4. state' \in [Oneshot -> OneshotState]
  BY <1>1 DEF Units, Types
<1>5. invoc' \in Nat /\ record' \in 0 .. invoc' /\ ran' \subseteq 1 .. invoc'
  <2>1. invoc \in Nat /\ record \in 0 .. invoc /\ ran \subseteq 1 .. invoc /\ record' = record
    BY <1>1, <1>3 DEF Types
  <2>2. CASE invoc' = invoc /\ ran' = ran
    BY <2>1, <2>2
  <2>3. CASE invoc' = invoc + 1 /\ ran' = ran
    BY <2>1, <2>3
  <2>4. CASE invoc' = invoc /\ ran' = ran \cup {invoc} /\ invoc # 0
    BY <2>1, <2>4
  <2> QED BY <2>2, <2>3, <2>4
<1>6. Types'
  BY <1>1, <1>2, <1>3, <1>4, <1>5 DEF Types
<1>7. Flow' /\ NoForeign' /\ Cleaned' /\ Outcome'
  BY <1>1, <1>2, <1>3 DEF Flow, NoForeign, Cleaned, Outcome
<1> QED BY <1>6, <1>7

\* What a step of the units means for the migration.
LEMMA UnitsKeep == ASSUME IInv, UnitsAct PROVE IInv'
<1>1. Types /\ Migration
  BY DEF IInv
<1>2. CASE ActivateMigration \/ RestartMigration
  <2>1. /\ state'["migrate"] = "waiting" /\ UNCHANGED <<pc, record, inspected, ran>>
        /\ (Unreleased' <=> Unreleased)
    BY <1>1, <1>2, OneshotNames DEF ActivateMigration, RestartMigration, Units, Types, Unreleased
  <2>a. invoc' # 0
    BY <1>1, <1>2 DEF ActivateMigration, RestartMigration, Types
  <2>2. Migration'
    BY <1>1, <2>1, <2>a DEF Migration
  <2>3. Types' /\ Flow' /\ NoForeign' /\ Cleaned' /\ Outcome'
    BY <1>2, UnitFrame, OneshotNames DEF ActivateMigration, RestartMigration, OneshotState
  <2> QED BY <2>2, <2>3 DEF IInv
<1>3. CASE DependencyFails
  <2>1. /\ state'["migrate"] = "idle" /\ UNCHANGED <<pc, record, inspected, ran, invoc>>
        /\ (Unreleased' <=> Unreleased)
    BY <1>1, <1>3, OneshotNames DEF DependencyFails, Units, Types, Unreleased
  <2>2. Migration'
    BY <1>1, <2>1 DEF Migration
  <2>3. Types' /\ Flow' /\ NoForeign' /\ Cleaned' /\ Outcome'
    BY <1>3, UnitFrame, OneshotNames DEF DependencyFails, OneshotState
  <2> QED BY <2>2, <2>3 DEF IInv
<1>4. ASSUME NEW o \in Oneshot, Execute(o) PROVE IInv'
  <2>1. /\ UNCHANGED <<pc, record, inspected, invoc>> /\ (Unreleased' <=> Unreleased)
        /\ state[o] = "released" /\ state' = [state EXCEPT ![o] = "running"]
        /\ ran' = IF o = "migrate" THEN ran \cup {invoc} ELSE ran
    BY <1>4 DEF Execute, Units, Unreleased
  <2>2. CASE o = "migrate"
    <3>1. state'["migrate"] = "running" /\ ran = {} /\ ran' = {invoc} /\ ~Unreleased /\ record = 0
      BY <1>1, <2>1, <2>2 DEF Types, Migration
    <3>2. Migration'
      BY <1>1, <2>1, <3>1 DEF Migration
    <3>3. invoc # 0
      BY <1>1, <2>1, <2>2 DEF Migration, Types
    <3>4. Types' /\ Flow' /\ NoForeign' /\ Cleaned' /\ Outcome'
      BY <1>4, <2>1, <3>1, <3>3, UnitFrame DEF Execute, OneshotState
    <3> QED BY <3>2, <3>4 DEF IInv
  <2>3. CASE o # "migrate"
    <3>1. state'["migrate"] = state["migrate"] /\ ran' = ran
      BY <1>1, <2>1, <2>3, OneshotNames DEF Types
    <3>2. Migration'
      BY <1>1, <2>1, <3>1 DEF Migration
    <3>3. Types' /\ Flow' /\ NoForeign' /\ Cleaned' /\ Outcome'
      BY <1>4, <2>1, <3>1, UnitFrame DEF Execute, OneshotState
    <3> QED BY <3>2, <3>3 DEF IInv
  <2> QED BY <2>2, <2>3
<1>5. ASSUME NEW o \in Oneshot, NEW to \in {"done", "failed", "timeout"}, NEW from \in {"running", "waiting"},
             to \in {"done", "failed"} <=> from = "running",
             Units(o, {from}, to), UNCHANGED <<invoc, ran>>
      PROVE  IInv'
  <2>1. /\ UNCHANGED <<pc, record, inspected>> /\ (Unreleased' <=> Unreleased)
        /\ state[o] = from /\ state' = [state EXCEPT ![o] = to]
    BY <1>5 DEF Units, Unreleased
  <2>2. Migration'
    <3>1. CASE o = "migrate"
      <4>1. state'["migrate"] = to
        BY <1>1, <2>1, <3>1 DEF Types
      <4> QED BY <1>1, <1>5, <2>1, <3>1, <4>1 DEF Migration
    <3>2. CASE o # "migrate"
      <4>1. state'["migrate"] = state["migrate"]
        BY <1>1, <2>1, <3>2, OneshotNames DEF Types
      <4> QED BY <1>1, <1>5, <2>1, <4>1 DEF Migration
    <3> QED BY <3>1, <3>2
  <2>3. Types' /\ Flow' /\ NoForeign' /\ Cleaned' /\ Outcome'
    BY <1>5, UnitFrame DEF OneshotState
  <2> QED BY <2>2, <2>3 DEF IInv
<1>6. ASSUME NEW o \in Oneshot, ReleaseTimeout(o) PROVE IInv'
  BY <1>5, <1>6 DEF ReleaseTimeout
<1>7. ASSUME NEW o \in Oneshot, NEW ok \in BOOLEAN, Finish(o, ok) PROVE IInv'
  <2>1. CASE ok
    BY <1>5, <1>7, <2>1 DEF Finish
  <2>2. CASE ~ok
    BY <1>5, <1>7, <2>2 DEF Finish
  <2> QED BY <2>1, <2>2
<1> QED BY <1>2, <1>3, <1>4, <1>6, <1>7 DEF UnitsAct

\* Another process takes the port.
LEMMA PortKeeps == ASSUME IInv, TakePort PROVE IInv'
<1>1. UNCHANGED <<call, shots, pc>> /\ UNCHANGED <<res, loaded, fixture, state, ran, invoc, record, inspected>>
  BY DEF TakePort, shots, host
<1>2. UNCHANGED <<kind, failed, Releases, admitted, failure, errors, signal>>
  BY <1>1, CallFrame DEF TakePort, status
<1>3. Types' /\ Flow'
  BY <1>1, <1>2 DEF IInv, Types, Flow
<1>4. NoForeign' /\ Cleaned' /\ Migration'
  BY <1>1, <1>2 DEF IInv, NoForeign, Cleaned, Migration, Unreleased
<1>5. Outcome'
  <2>1. InjectedFailure' <=> InjectedFailure
    BY <1>1, <1>2 DEF InjectedFailure
  <2> QED BY <1>1, <1>2, <2>1 DEF IInv, Outcome
<1> QED BY <1>3, <1>4, <1>5 DEF IInv

\* The steps that record the invocation of the completed migration.
LEMMA RecordKeeps == ASSUME IInv, PrepareRetry \/ AwaitMigration \/ ProveOneshots PROVE IInv'
<1>1. Types /\ Flow /\ NoForeign /\ Migration
  BY DEF IInv
<1>2. kind' = kind /\ Releases' = Releases /\ failed' = failed
  BY CallFrame DEF PrepareRetry, AwaitMigration, ProveOneshots, Goto
<1>3. /\ UNCHANGED <<kind, failed, res, loaded, fixture, state, ran, invoc, inspected, failure, admitted, errors, signal>>
      /\ record' = invoc /\ state["migrate"] = "done"
      /\ \/ pc = "retry" /\ pc' = "port"
         \/ pc = "await" /\ pc' = "health"
         \/ pc = "oneshots" /\ pc' = "containers"
  BY <1>2 DEF PrepareRetry, AwaitMigration, ProveOneshots, MigrationRecorded, OneshotSucceeded, Goto, status, host
<1>4. ran = {invoc} /\ invoc # 0 /\ ~Unreleased
  BY <1>1, <1>3 DEF Migration, Types
<1>5. Types' /\ Flow'
  BY <1>1, <1>2, <1>3 DEF Types, Flow
<1>6. NoForeign' /\ Cleaned' /\ Outcome'
  BY <1>1, <1>3, <1>4 DEF NoForeign, Cleaned, Outcome, IInv
<1>7. Migration'
  BY <1>1, <1>3, <1>4 DEF Migration, Unreleased
<1> QED BY <1>5, <1>6, <1>7 DEF IInv

\* prove_expected_failure(), and prove_runtime() after the one-shots.
LEMMA ProveKeeps ==
  ASSUME IInv, \/ ProveExpectedFailure \/ ProveContainers \/ ProveApplication
               \/ RestartApplication \/ FinishProof \/ CollectEvidence
  PROVE  IInv'
<1>1. Types /\ Flow /\ NoForeign /\ Outcome
  BY DEF IInv
<1>2. kind' = kind /\ Releases' = Releases /\ failed' = failed
  BY CallFrame DEF ProveExpectedFailure, ProveContainers, ProveApplication, RestartApplication, FinishProof,
                   CollectEvidence, Goto
<1>3. /\ UNCHANGED <<kind, failed, res, loaded, fixture, state, ran, invoc, record, inspected, failure, admitted,
                     errors, signal>>
      /\ \/ pc = "failed" /\ pc' = "cleanup" /\ InjectedFailure
         \/ pc = "containers" /\ pc' = "application"
         \/ pc = "application" /\ pc' = "restart"
         \/ pc = "restart" /\ pc' = "final"
         \/ pc = "final" /\ pc' = "evidence"
         \/ pc = "evidence" /\ pc' = "cleanup"
  BY <1>2 DEF ProveExpectedFailure, ProveContainers, ProveApplication, RestartApplication, FinishProof,
              CollectEvidence, Goto, shots, status, host
<1>4. Types' /\ Flow'
  BY <1>1, <1>2, <1>3, QuadletAssumption DEF Types, Flow
<1>5. NoForeign' /\ Cleaned'
  BY <1>1, <1>3 DEF NoForeign, Cleaned, IInv
<1>6. Outcome'
  BY <1>1, <1>2, <1>3 DEF Outcome, InjectedFailure, Flow
<1>7. Migration'
  BY <1>3, ShotsStay DEF ProveExpectedFailure, ProveContainers, ProveApplication, RestartApplication, FinishProof,
                         CollectEvidence, Goto
<1> QED BY <1>4, <1>5, <1>6, <1>7 DEF IInv

\* A failing command, a check that finds a deviation, a port that stays taken.
LEMMA RaiseKeeps ==
  ASSUME IInv, CommandFails \/ Reject \/ (PortCollision /\ Raise /\ UNCHANGED call)
  PROVE  IInv'
<1>1. pc \notin Ending \cup {"make"}
  BY DEF CommandFails, Reject, Rejects, PortCollision
<1>2. failure' /\ pc' = (IF Local THEN "cleanup" ELSE "exit") /\ UNCHANGED <<call, host, shots, admitted, errors, signal>>
  BY DEF CommandFails, Reject, PortCollision, Raise
<1> QED BY <1>1, <1>2, FailKeeps

\* A signal raises, is noted by a cleanup, or hits the gap before it.
LEMMA SignalKeeps == ASSUME IInv, HandleSignal PROVE IInv'
<1>1. CASE pc \notin Ending
  <2>1. failure' /\ pc' = (IF Local THEN "cleanup" ELSE "exit") /\ signal' = "raised" /\ pc # "make"
    BY <1>1, QuadletAssumption DEF HandleSignal, Local, Cloud, IInv, Types
  <2> QED BY <1>1, <2>1, FailKeeps DEF HandleSignal
<1>2. CASE pc \in Ending
  <2>1. /\ UNCHANGED <<kind, failed, Releases, res, loaded, fixture, state, ran, invoc, record, inspected, admitted, errors>>
        /\ failure' \in BOOLEAN
    BY CallFrame DEF HandleSignal, host, shots
  <2>2. /\ pc # "exit"
        /\ \/ pc = "cleanup" /\ pc' = "exit" /\ failure' = TRUE /\ signal' = "gap"
           \/ pc \in {"cleaning", "verify", "remove"} /\ pc' = pc /\ signal' = "noted" /\ failure' = failure
    BY <1>2 DEF HandleSignal, IInv, Types
  <2>3. Types' /\ Flow' /\ NoForeign' /\ Cleaned'
    BY <2>1, <2>2 DEF IInv, Types, Flow, NoForeign, Cleaned
  <2>4. Outcome'
    <3>1. InjectedFailure' <=> InjectedFailure
      BY <2>1 DEF InjectedFailure
    <3>2. pc' \notin Proving /\ (~failure' => ~failure)
      BY <2>2
    <3> QED BY <1>2, <2>1, <3>1, <3>2 DEF IInv, Outcome
  <2>5. Migration'
    BY <2>2, ShotsStay DEF HandleSignal
  <2> QED BY <2>3, <2>4, <2>5 DEF IInv
<1> QED BY <1>1, <1>2

\* The four steps of cleanup().
LEMMA EndKeeps ==
  ASSUME IInv, UNCHANGED <<call, shots, admitted, signal>>, pc \in Ending, pc' \in Ending,
         failure' \in BOOLEAN, ~failure' => ~failure
  PROVE  Outcome' /\ Migration'
<1>1. UNCHANGED <<kind, failed, state, record>>
  BY CallFrame DEF shots
<1>2. Outcome'
  BY <1>1 DEF IInv, Outcome, InjectedFailure
<1> QED BY <1>2, ShotsStay

LEMMA BeginCleanupKeeps == ASSUME IInv, BeginCleanup PROVE IInv'
<1>1. /\ UNCHANGED <<kind, failed, Releases, res, loaded, fixture, state, ran, invoc, record, inspected, failure,
                     admitted, errors, signal>>
      /\ pc = "cleanup" /\ pc' = IF admitted THEN "cleaning" ELSE "remove"
  BY CallFrame DEF BeginCleanup, Goto, shots, status, host
<1>2. Types' /\ Flow' /\ NoForeign' /\ Cleaned'
  BY <1>1 DEF IInv, Types, Flow, NoForeign, Cleaned
<1>3. Outcome' /\ Migration'
  BY <1>1, EndKeeps DEF BeginCleanup, Goto, IInv, Types
<1> QED BY <1>2, <1>3 DEF IInv

LEMMA CleanResourcesKeeps ==
  ASSUME IInv, NEW left \in SUBSET Resource, CleanResources(left)
  PROVE  IInv'
<1>1. /\ UNCHANGED <<kind, failed, Releases, fixture, state, ran, invoc, record, inspected, failure, admitted, signal>>
      /\ pc = "cleaning" /\ pc' = "verify"
  BY CallFrame DEF CleanResources, shots
<1>2. /\ res' \in [Resource -> {"none", "own", "foreign"}] /\ loaded' \in BOOLEAN
      /\ errors' \in BOOLEAN
  BY DEF CleanResources, CleanupResources, Removed, IInv, Types
<1>3. Types' /\ Flow' /\ NoForeign' /\ Cleaned'
  BY <1>1, <1>2 DEF IInv, Types, Flow, NoForeign, Cleaned
<1>4. Outcome' /\ Migration'
  BY <1>1, EndKeeps DEF CleanResources, IInv, Types
<1> QED BY <1>3, <1>4 DEF IInv

LEMMA VerifyCleanupKeeps == ASSUME IInv, VerifyCleanup PROVE IInv'
<1>1. /\ UNCHANGED <<kind, failed, Releases, res, loaded, fixture, state, ran, invoc, record, inspected, failure,
                     admitted, signal>>
      /\ pc = "verify" /\ pc' = "remove"
  BY CallFrame DEF VerifyCleanup, shots, host
<1>2. errors' \in BOOLEAN /\ (~errors' => ~loaded /\ \A k \in Resource : res[k] = "none")
  BY DEF VerifyCleanup
<1>3. Types' /\ Flow' /\ NoForeign'
  BY <1>1, <1>2 DEF IInv, Types, Flow, NoForeign
<1>4. Cleaned'
  <2>1. ~errors' => res' = [k \in Resource |-> "none"] /\ ~loaded'
    BY <1>1, <1>2 DEF IInv, Types
  <2>2. signal' # "gap"
    BY <1>1 DEF IInv, Cleaned
  <2> QED BY <1>1, <2>1, <2>2 DEF Cleaned
<1>5. Outcome' /\ Migration'
  BY <1>1, EndKeeps DEF VerifyCleanup, IInv, Types
<1> QED BY <1>3, <1>4, <1>5 DEF IInv

LEMMA RemoveFixtureKeeps == ASSUME IInv, NEW gone \in BOOLEAN, RemoveFixtureRoot(gone) PROVE IInv'
<1>1. /\ UNCHANGED <<kind, failed, Releases, res, loaded, state, ran, invoc, record, inspected, admitted, signal>>
      /\ pc = "remove" /\ pc' = "exit"
      /\ failure' \in BOOLEAN /\ errors' \in BOOLEAN /\ fixture' \in BOOLEAN
      /\ (~failure' => ~failure /\ ~errors') /\ (~errors' => ~errors /\ ~fixture')
  BY CallFrame DEF RemoveFixtureRoot, shots
<1>2. Types' /\ Flow' /\ NoForeign'
  BY <1>1 DEF IInv, Types, Flow, NoForeign
<1>3. Cleaned'
  BY <1>1 DEF IInv, Cleaned
<1>4. Outcome' /\ Migration'
  BY <1>1, EndKeeps DEF RemoveFixtureRoot
<1> QED BY <1>2, <1>3, <1>4 DEF IInv

\* A function into a set is one into any larger set.
LEMMA WiderRange ==
  \A S, T, U : T \subseteq U => [S -> T] \subseteq [S -> U]
OBVIOUS

LEMMA InvInit == Init => IInv
<1> SUFFICES ASSUME Init PROVE IInv
  OBVIOUS
<1>1. Types
  <2>1. /\ kind \in Kinds
        /\ failed \in IF kind = "failure" THEN {"migration", "dependency", "health"} ELSE {"none"}
        /\ state = [o \in Oneshot |-> "idle"] /\ ran = {} /\ invoc = 0 /\ record = 0 /\ inspected = {}
        /\ admitted = FALSE /\ fixture \in BOOLEAN /\ failure = FALSE /\ errors = FALSE /\ signal = "none"
    BY DEF Init
  <2>2. res \in [Resource -> {"none", "own", "foreign"}] /\ loaded \in BOOLEAN
    <3>1. [Resource -> {"none"}] \subseteq [Resource -> {"none", "own", "foreign"}]
      BY WiderRange
    <3>2. res \in [Resource -> {"none", "own", "foreign"}]
      BY <3>1, Zenon DEF Init
    <3>3. loaded \in BOOLEAN
      BY Zenon DEF Init
    <3> QED BY <3>2, <3>3
  <2>3. failed \in {"none", "migration", "dependency", "health"} /\ (failed # "none" <=> kind = "failure")
    BY <2>1, SMT
  <2>4. invoc \in Nat /\ record \in 0 .. invoc /\ ran \subseteq 1 .. invoc /\ inspected \subseteq Releases
    BY <2>1, SMT
  <2>5. state \in [Oneshot -> OneshotState]
    BY <2>1 DEF OneshotState
  <2> QED BY <2>1, <2>2, <2>3, <2>4, <2>5, Zenon DEF Types
<1>2. Flow /\ NoForeign /\ Cleaned /\ Outcome
  BY DEF Init, Flow, NoForeign, Cleaned, Outcome
<1>3. Migration
  BY OneshotNames DEF Init, Migration
<1> QED BY <1>1, <1>2, <1>3 DEF IInv

LEMMA InvNext == IInv /\ [Next]_vars => IInv'
<1> SUFFICES ASSUME IInv, [Next]_vars PROVE IInv'
  OBVIOUS
<1>1. CASE UNCHANGED vars
  <2>1. UNCHANGED <<kind, failed, pc, Releases, res, loaded, fixture, state, ran, invoc, record, inspected,
                    admitted, failure, errors, signal>>
    BY <1>1, CallFrame DEF vars, host, shots, status
  <2>2. Types' /\ Flow' /\ NoForeign' /\ Cleaned'
    BY <2>1 DEF IInv, Types, Flow, NoForeign, Cleaned
  <2>3. Migration' /\ Outcome'
    BY <2>1 DEF IInv, Migration, Unreleased, Outcome, InjectedFailure
  <2> QED BY <2>2, <2>3 DEF IInv
<1>2. CASE Prepare
  BY <1>2, MakeKeeps, AdmitKeeps, RemoveStaleKeeps, StageKeeps DEF Prepare
<1>3. CASE Start
  <2>1. CASE PortCollision
    <3>1. Goto("retry") \/ (Raise /\ UNCHANGED call)
      BY <2>1 DEF PortCollision
    <3> QED BY <2>1, <3>1, StageKeeps, RaiseKeeps
  <2> QED BY <1>3, <2>1, TargetKeeps, StageKeeps, InspectKeeps, ReleaseKeeps, RecordKeeps DEF Start
<1>4. CASE Prove
  BY <1>4, StageKeeps, RecordKeeps, ProveKeeps DEF Prove
<1>5. CASE Cleanup
  BY <1>5, AdmitKeeps, BeginCleanupKeeps, CleanResourcesKeeps, VerifyCleanupKeeps, RemoveFixtureKeeps
     DEF Cleanup
<1> QED BY <1>1, <1>2, <1>3, <1>4, <1>5, RaiseKeeps, SignalKeeps, PortKeeps, UnitsKeep DEF Next, Terminated

-----------------------------------------------------------------------------
(* The counters: retries of the port, failing commands, restarts.          *)

\* An attempt that may be repeated is not the third one.
Counters ==
  /\ port \in Ports \cup {NoPort}
  /\ attempt \in 1 .. 3 /\ (pc = "retry" => attempt < 3)
  /\ faults \in 0 .. MaxFaults /\ reruns \in 0 .. MaxReruns

\* How many resources a cleanup leaves is a number.
LEMMA LeftIsCounted == ASSUME NEW left \in SUBSET Resource PROVE Cardinality(left) \in Nat
<1>1. IsFiniteSet({}) /\ IsFiniteSet({"unit"}) /\ IsFiniteSet({"unit", "container"})
  <2>1. IsFiniteSet({})
    BY FS_EmptySet
  <2>2. IsFiniteSet({} \cup {"unit"})
    BY <2>1, FS_AddElement
  <2>3. IsFiniteSet(({} \cup {"unit"}) \cup {"container"})
    BY <2>2, FS_AddElement
  <2>4. {} \cup {"unit"} = {"unit"} /\ {"unit"} \cup {"container"} = {"unit", "container"}
    OBVIOUS
  <2> QED BY <2>1, <2>2, <2>3, <2>4
<1>2. IsFiniteSet({"network"}) /\ IsFiniteSet({"network", "volume"}) /\ IsFiniteSet({"image"})
  <2>1. IsFiniteSet({} \cup {"network"}) /\ IsFiniteSet({} \cup {"image"})
    BY <1>1, FS_AddElement
  <2>2. IsFiniteSet(({} \cup {"network"}) \cup {"volume"})
    BY <2>1, FS_AddElement
  <2>3. /\ {} \cup {"network"} = {"network"} /\ {} \cup {"image"} = {"image"}
        /\ {"network"} \cup {"volume"} = {"network", "volume"}
    OBVIOUS
  <2> QED BY <2>1, <2>2, <2>3
<1>3. IsFiniteSet(({"unit", "container"} \cup {"network", "volume"}) \cup {"image"})
  BY <1>1, <1>2, FS_Union
<1>4. ({"unit", "container"} \cup {"network", "volume"}) \cup {"image"} = Resource
  BY DEF Resource
<1>5. IsFiniteSet(Resource)
  BY <1>3, <1>4
<1>6. IsFiniteSet(left)
  BY <1>5, FS_Subset
<1> QED BY <1>6, FS_CardinalityType

LEMMA CountersInit == ASSUME Init PROVE Counters
<1>1. /\ port \in IF auto THEN {NoPort} ELSE Ports
      /\ attempt = 1 /\ faults = 0 /\ reruns = 0 /\ pc = "make"
  BY DEF Init
<1> QED BY <1>1, QuadletAssumption DEF Counters

\* The counters of a step that leaves the bounds of the environment alone.
LEMMA StepCounts ==
  ASSUME Counters, UNCHANGED bounds,
         port' \in Ports \cup {NoPort},
         \/ attempt' = attempt /\ (pc' = "retry" => pc = "retry" \/ attempt < 3)
         \/ attempt' = attempt + 1 /\ pc = "retry" /\ pc' # "retry"
  PROVE  Counters'
<1>1. attempt' \in 1 .. 3 /\ (pc' = "retry" => attempt' < 3)
  BY DEF Counters
<1>2. faults' \in 0 .. MaxFaults /\ reruns' \in 0 .. MaxReruns
  BY DEF Counters, bounds
<1> QED BY <1>1, <1>2 DEF Counters

LEMMA PrepareCounts == ASSUME Counters, Prepare PROVE Counters'
<1>1. CASE \E left \in SUBSET Resource : RemoveStale(left)
  <2>1. PICK left \in SUBSET Resource : RemoveStale(left)
    BY <1>1
  <2>2. faults' \in 0 .. MaxFaults
    BY <2>1, LeftIsCounted, QuadletAssumption DEF RemoveStale, CleanupResources, Counters
  <2> QED BY <2>1, <2>2 DEF RemoveStale, Counters, ports, shots
<1>2. CASE \E p \in Ports : SelectPort(p)
  BY <1>2, StepCounts DEF SelectPort, Goto, Counters, shots
<1>3. CASE \/ MakeFixtureRoot \/ Admit \/ StageProducts \/ StageDependencies \/ BuildGateway
           \/ AdmitGateway \/ InstallUnits \/ CompareUnits \/ ReloadUnits
  <2>1. UNCHANGED <<ports, shots, bounds>> /\ pc' # "retry"
    BY <1>3 DEF MakeFixtureRoot, Admit, StageProducts, StageDependencies, BuildGateway, AdmitGateway,
                InstallUnits, CompareUnits, ReloadUnits, Goto
  <2> QED BY <2>1 DEF Counters, ports, shots, bounds
<1> QED BY <1>1, <1>2, <1>3 DEF Prepare

LEMMA StartCounts == ASSUME Counters, Start PROVE Counters'
<1>1. CASE PortCollision
  <2>1. /\ UNCHANGED <<ports, bounds>>
        /\ pc' = "retry" => attempt < 3
    BY <1>1 DEF PortCollision, Goto, Raise
  <2> QED BY <2>1, StepCounts DEF Counters, ports
<1>2. CASE PrepareRetry
  BY <1>2, StepCounts DEF PrepareRetry, Goto, Counters
<1>3. CASE QueueTarget \/ BlockOnTarget \/ StartTarget \/ \E o \in Oneshot : InspectOneshot(o) \/ Release(o)
  <2>1. UNCHANGED <<ports, bounds>> /\ pc' # "retry"
    BY <1>3 DEF QueueTarget, BlockOnTarget, StartTarget, InspectOneshot, Release, AfterReleases, Goto
  <2> QED BY <2>1, StepCounts DEF Counters, ports
<1> QED BY <1>1, <1>2, <1>3 DEF Start

LEMMA ProveCounts == ASSUME Counters, Prove PROVE Counters'
<1>1. UNCHANGED <<ports, bounds>> /\ pc' # "retry"
  BY DEF Prove, AwaitMigration, AwaitHealthFailure, ObserveFailure, ProveExpectedFailure, ProveOneshots,
         ProveContainers, ProveApplication, RestartApplication, FinishProof, CollectEvidence, Goto
<1> QED BY <1>1, StepCounts DEF Counters, ports

LEMMA UnitsCount == ASSUME Counters, UnitsAct PROVE Counters'
<1>1. CASE RestartMigration
  BY <1>1, QuadletAssumption DEF RestartMigration, Units, Counters, ports
<1>2. CASE ~RestartMigration
  <2>1. UNCHANGED <<ports, bounds, pc>>
    BY <1>2 DEF UnitsAct, ActivateMigration, DependencyFails, Execute, Finish, ReleaseTimeout, Units, bounds
  <2> QED BY <2>1, StepCounts DEF Counters, ports
<1> QED BY <1>1, <1>2

LEMMA CleanupCounts == ASSUME Counters, Cleanup PROVE Counters'
<1>1. CASE \E left \in SUBSET Resource : CleanResources(left)
  <2>1. PICK left \in SUBSET Resource : CleanResources(left)
    BY <1>1
  <2>2. faults' \in 0 .. MaxFaults
    BY <2>1, LeftIsCounted, QuadletAssumption DEF CleanResources, CleanupResources, Counters
  <2> QED BY <2>1, <2>2 DEF CleanResources, Counters, ports, shots
<1>2. CASE \E gone \in BOOLEAN : RemoveFixtureRoot(gone)
  <2>1. PICK gone \in BOOLEAN : RemoveFixtureRoot(gone)
    BY <1>2
  <2>2. faults' \in 0 .. MaxFaults
    BY <2>1, QuadletAssumption DEF RemoveFixtureRoot, Counters
  <2> QED BY <2>1, <2>2 DEF RemoveFixtureRoot, Counters, ports, shots
<1>3. CASE AdmitCleanup \/ BeginCleanup \/ VerifyCleanup
  <2>1. UNCHANGED <<ports, shots, bounds>> /\ pc' # "retry"
    BY <1>3 DEF AdmitCleanup, BeginCleanup, VerifyCleanup, Goto
  <2> QED BY <2>1 DEF Counters, ports, shots, bounds
<1> QED BY <1>1, <1>2, <1>3 DEF Cleanup

LEMMA CountersNext == Counters /\ [Next]_vars => Counters'
<1> SUFFICES ASSUME Counters, [Next]_vars PROVE Counters'
  OBVIOUS
<1>1. CASE UNCHANGED vars
  BY <1>1 DEF vars, Counters, ports, shots, bounds
<1>2. CASE CommandFails
  BY <1>2, QuadletAssumption DEF CommandFails, Raise, Counters, ports, shots
<1>4. CASE Reject \/ HandleSignal \/ TakePort
  <2>1. UNCHANGED <<port, attempt, bounds>> /\ (pc' = "retry" => pc = "retry")
    BY <1>4 DEF Reject, Raise, HandleSignal, TakePort, ports
  <2> QED BY <2>1 DEF Counters, bounds
<1> QED BY <1>1, <1>2, <1>4, PrepareCounts, StartCounts, ProveCounts, CleanupCounts, UnitsCount
        DEF Next, Terminated

-----------------------------------------------------------------------------
(* Theorems.                                                               *)

LEMMA Invariance == Spec => []IInv
BY InvInit, InvNext, PTL DEF Spec

\* Every variable keeps its type: the port is one of the known ones, a lifecycle makes
\* at most three attempts, and records no invocation of the migration that did not happen.
THEOREM TypeCorrect == Spec => []TypeOK
<1>1. Spec => []Counters
  BY CountersInit, CountersNext, PTL DEF Spec
<1>2. IInv /\ Counters => TypeOK
  <2>1. ASSUME IInv, Counters PROVE inspected \subseteq Oneshot
    BY <2>1, OneshotNames DEF IInv, Types, Releases
  <2> QED BY <2>1 DEF IInv, Types, Counters, TypeOK
<1> QED BY <1>1, <1>2, Invariance, PTL

\* render_and_start_with_port_retries() and restart_application(): a lifecycle executes
\* the migration at most once, whatever is retried or restarted, and a passed run
\* exactly once, in the recorded invocation.
THEOREM MigrationRunsOnce == Spec => []MigratesOnce
<1>1. IInv => MigratesOnce
  BY DEF IInv, Migration, Outcome, MigratesOnce, Passed
<1> QED BY <1>1, Invariance, PTL

\* prove_expected_failure(): a failure profile that passes has executed the injected
\* migration, none after a failed PostgreSQL, and the recorded one before an unhealthy
\* gateway, whoever restarted the unit and whatever timed out.
THEOREM FailureEvidenceIsTrue == Spec => []FailureIsInjected
<1>1. ASSUME IInv, Passed, kind = "failure"
      PROVE  ran = CASE failed = "migration"  -> {invoc}
                     [] failed = "dependency" -> {}
                     [] failed = "health"     -> {record}
  <2>1. InjectedFailure /\ failed \in {"migration", "dependency", "health"}
    BY <1>1 DEF Passed, IInv, Outcome, Types
  <2>2. CASE failed = "migration"
    BY <1>1, <2>1, <2>2 DEF InjectedFailure, IInv, Migration
  <2>3. CASE failed = "dependency"
    BY <1>1, <2>3 DEF IInv, Types, Releases, Migration, Unreleased
  <2>4. CASE failed = "health"
    BY <1>1, <2>1, <2>4 DEF InjectedFailure, IInv, Migration
  <2> QED BY <2>1, <2>2, <2>3, <2>4
<1>2. IInv => FailureIsInjected
  BY <1>1 DEF FailureIsInjected
<1> QED BY <1>2, Invariance, PTL

\* cleanup(): an admitted lifecycle that reports a complete cleanup has left nothing.
THEOREM CleanupIsComplete == Spec => []NothingIsLeft
<1>1. IInv => NothingIsLeft
  BY DEF IInv, Cleaned, NothingIsLeft
<1> QED BY <1>1, Invariance, PTL

\* cleanup_resources() and everything that creates a resource: what is foreign is only
\* replaced where the instance owns the unit.
THEOREM ForeignResourcesAreKept == Spec => ForeignIsKept
<1>1. ASSUME IInv, [Next]_vars
      PROVE  [\A k \in Resource : res[k] = "foreign" /\ res'[k] # "foreign" => res["unit"] = "own"]_res
  <2> SUFFICES ASSUME Next, NEW k \in Resource, res[k] = "foreign", res'[k] # "foreign"
               PROVE  res["unit"] = "own"
    BY <1>1 DEF vars, host
  <2>1. (\A j \in Resource : res[j] # "none" => OwnedByInstance(j) \/ res["unit"] = "own") => res["unit"] = "own"
    BY DEF OwnedByInstance
  <2>2. NoForeign /\ pc # "gateway" /\ pc # "render" /\ pc # "queue" /\ pc # "start"
    BY <1>1 DEF IInv, NoForeign
  <2>3. CASE Prepare
    BY <2>1, <2>2, <2>3 DEF Prepare, MakeFixtureRoot, Admit, RemoveStale, AdmitRemoval, StageProducts,
       StageDependencies, BuildGateway, AdmitGateway, SelectPort, InstallUnits, CompareUnits, ReloadUnits, host
  <2>4. CASE Start
    BY <2>2, <2>4 DEF Start, QueueTarget, BlockOnTarget, StartTarget, PortCollision, PrepareRetry,
       InspectOneshot, Release, host
  <2>5. CASE Prove
    BY <2>5 DEF Prove, AwaitMigration, AwaitHealthFailure, ObserveFailure, ProveExpectedFailure, ProveOneshots,
       ProveContainers, ProveApplication, RestartApplication, FinishProof, CollectEvidence, host
  <2>6. CASE Cleanup
    BY <2>1, <2>6 DEF Cleanup, AdmitCleanup, BeginCleanup, VerifyCleanup, CleanResources, AdmitRemoval,
       RemoveFixtureRoot, host
  <2>7. CASE Reject \/ CommandFails \/ HandleSignal \/ TakePort \/ UnitsAct \/ Terminated
    BY <2>7 DEF Reject, CommandFails, HandleSignal, TakePort, UnitsAct, ActivateMigration, DependencyFails,
       RestartMigration, Execute, Finish, ReleaseTimeout, Units, Terminated, host, vars
  <2> QED BY <2>3, <2>4, <2>5, <2>6, <2>7 DEF Next
<1> QED BY <1>1, Invariance, PTL DEF Spec, ForeignIsKept
=============================================================================
