# A TLA+ verification of the SecPal deployment tooling

The repository deploys SecPal on a Rocky Linux host behind HAProxy and,
optionally, CloudFront. Its programs are command line helpers in Python: each
invocation is a process that reads documents, takes a lock, changes a few files
or a kernel table or calls a provider, reads back what became of it and exits.
Their difficulty is not the data but what happens between two of their steps:
another invocation, a timer, a kill, a power failure, a reboot, an answer that
got lost, an fsync that failed.

This directory models the helpers that own durable or kernel state, checks them
with TLC on small instances, and proves the main results with TLAPS for every
value of the constants.

## 1. The system

### 1.1 Components, their state and their operations

| Component | Code | State | Operations |
|---|---|---|---|
| Endpoint switch adapter | `scripts/endpoint_switch.py` | the provider's routing state and generation, the cutover authority's durable dispatch claims | `plan`, `inspect`, `assess`, `reconcile`, `execute` |
| Viewer certificate lifecycle | `scripts/direct-viewer-tls.py`, `haproxy_config_lifecycle.py`, `viewer_tls_runtime.py`, `viewer_tls_contract.py` | serving PEM, publication journal, predecessor backup and receipt snapshot in `/etc/haproxy`; activation receipt and renewal status in `/srv/secpal/acme`; Certbot lineage; the certificate HAProxy serves; `publish.lock`, `renew.lock` | `--obtain`, `--renew`, `--prepare-initial`, `--accept-initial`, `--deploy`, `--recover`, boot and reload admission |
| Origin prefix LKG | `scripts/cloudfront-origin-prefix-lkg.py` | `candidate.json`, `accepted-lkg.json`, the state directory, the state lock | `fetch`, `candidate`, `accept`, `accepted` |
| Host firewall | `scripts/host-firewall.py`, `host_firewall_contract.py` | the kernel table `inet secpal_host` with its remediation set, `accepted.json`, the state lock | `--apply`, `--restore`, `--check`, `--add`, `--remove` |
| Host enrollment | `host_enrollment.py` | the host's key and accepted grant, the authority's database and the pin file beside it | create, request, grant, prove, consume, accept, authenticate |
| Quadlet integration runtime | `quadlet-integration.py`, `integration_runtime_contract.py` | units, containers, networks, volumes and images of one instance, its fixture directory, a loopback port | complete run, expected-failure run, cloud prepare, cloud cleanup |
| Quadlet fixture client and installer | `ci-cloud/quadlet-fixture-*.py` | request and result directories, the installer's `active.json`, the installed unit files | stage, install, remove, poll |
| Workload qualification | `ci-cloud/run-rocky-workload-qualification.py`, `collect-workload-evidence.py`, `workload-admission.py`, `assemble-evidence.py`, `validate-evidence.py` | the user manager of a disposable host, three observations, an evidence document | seven phases, assembly, validation |
| Standard installation | `standard-installation.py` | packages, account, subordinate ids, files, labels, units and firewall of a host | plan, install, verify, admit for enrollment |
| Production state | `production-state.py` | state directories, the secret tree on tmpfs, the marker | initialize, publish, validate |
| Production contract, Rocky preparation | `validate-production-contract.py`, `ci-cloud/rocky_preparation_contract.py`, `collect-rocky-preparation.py` | none | admission of documents, observation of a host |
| HAProxy configuration helper | `haproxy-config.py` | `haproxy.cfg`, the running master and workers | validate, publish, reload, probe |
| DIRECT seam and product backend policies | `haproxy-direct-policy.py`, `product-backend-policy.py` | an nft table and an SELinux module each | `activate`, `check`, `withdraw` |
| Rocky control plane and janitors | `ci-cloud/rocky-control.py`, `*-janitor.py` | cloud resources, a readiness document | transitions, readiness handshake, deletion |
| Contracts, renderers, validators, observers | the remaining scripts | none | pure functions over documents, or reports of one observation |

`PROJECT.json` lists every component with the reason why one is not modelled.

### 1.2 How they interact

* The firewall reads the accepted prefixes that the prefix owner publishes, and
  applies the owner's rule for successors (`admit_successor`) to its own accepted
  value. `HostFirewall` contains the owner's accepted document as a variable that
  only moves forward; that it only moves forward is the theorem
  `AcceptedOnlyMovesForward` of the owner's module.
* The certificate lifecycle publishes through `haproxy_config_lifecycle.publish()`
  and passes it callbacks (reload and probe, accept, compensate); HAProxy's unit
  calls the boot admission at every start and reload; the renewal timer runs
  Certbot, which runs the deploy hook as another process under another lock.
* The endpoint switch talks to three ports (observer, adapter, cutover authority).
  They are Protocol classes; the repository contains no production implementation.
* The enrollment authority, its database and its pin file are one service that
  holds both locks during a transaction; host and verifier see only documents,
  which travel over any channel and may be delayed, repeated or lost.
* The workload qualification runs the Quadlet runtime of an untrusted commit. That
  commit gets its units into the administrator's directories only through the
  fixture installer; a trusted collector observes before, during and after.
  `WorkloadQualification` extends `QuadletFixture` and takes every step of it.
* Installation, verification, preparation observer and production state work on
  one host without a common lock: the installation refuses a host that holds
  production state already, and the production state refuses what it did not
  create. `StandardInstallation` composes them.

### 1.3 What is hard, and what makes each part correct

* **Endpoint switch.** Several coordinators may execute the same plan, die after
  claiming it, lose the provider's answer, or see its effect late. Correct means:
  one dispatch per operation identity; success is reported only for a switch that
  happened; a definite refusal stays true; the route changes only by the plan that
  was claimed, from the state it was planned on.
* **Viewer certificate.** Two directories with separate fsyncs, a journal, a live
  process, rollback code that can fail itself, and two locks. Correct means: the
  predecessor can always be restored while a publication is pending; without a
  pending publication serving file and receipt agree; HAProxy serves the accepted
  certificate or one of a pending pair; a recorded SUCCESS stays true; recovery
  promotes nothing; every operation ends.
* **Origin prefixes.** A scheduled fetch races the operator's review; directory
  entries are durable only after an fsync. Correct means: only the reviewed
  document is accepted; never backwards; what exit status 0 acknowledged survives;
  exit status 1 means nothing was replaced.
* **Host firewall.** Kernel and file change in two steps and a reboot forgets one
  of them; inputs are read before the lock; decisions (bans) outlive reloads; an
  nft child can outlive its helper. Correct means: management is never withdrawn,
  no protected peer is banned, confirmed authority survives, exit status 0 means
  that the durable policy is in force.
* **Host enrollment.** A database and a file outside it commit in two steps, the
  provider is inspected before the transaction that relies on it, databases are
  restored and machines recreated or copied. Correct means: one identity per
  resource and generation, a key never moves to another resource or machine, who
  is authenticated is the newest enrollment ever committed, and a host never falls back to an older grant.
* **Quadlet runtime.** Every cleanup removes resources by name on a host where
  others use names too; one-shots wait for an inspection before they are released;
  a taken port restarts the start; systemd or somebody else may restart a one-shot
  meanwhile. Correct means: the migration executes once, an expected failure that is
  reported is the injected one, foreign resources stay, and what an admitted lifecycle
  leaves behind is reported.
* **Fixture installer and qualification.** Root services that can be killed
  between two unlinks, a client that stops waiting, and a target commit that lies.
  Correct means: every unit on disk is covered by the installer's record, an
  answer is true, and a passing verdict is about units that were started and ran
  as reviewed, left nothing and disturbed nobody.
* **Host base.** Nothing is ever repaired and every command may be killed, so
  each half-done item must be completed by a repetition or be found by the
  conflict check before anything changes. Correct means just that, and that a
  reported verification is true of a host that did not change meanwhile.

The list `hazards` in `PROJECT.json` names the line where each of these bites and
the properties that would notice.

## 2. Modules

| Module | Content |
|---|---|
| `EndpointSwitch` | coordinators, authority, provider |
| `EndpointRegister` | what the adapter promises: a register that an operation changes at most once |
| `EndpointSwitchProofs` | proofs, refinement included |
| `ViewerTls`, `ViewerTlsProofs` | certificate publication, recovery, renewal, HAProxy admission; proofs |
| `OriginPrefixLkg`, `OriginPrefixLkgProofs` | the prefix owner and its proofs |
| `HostFirewall`, `HostFirewallProofs` | the firewall helper and its proofs |
| `HostEnrollment`, `HostEnrollmentProofs` | host, enrollment authority, verifier; proofs |
| `QuadletContract`, `QuadletRuntime`, `QuadletRuntimeProofs` | what the integration runtime examines; its lifecycles; proofs |
| `QuadletFixture` | fixture client and root installer |
| `IdMaps` | user-namespace id maps: parsing, composition, admission |
| `WorkloadContract`, `WorkloadQualification` | what collector and admission examine; the qualification, composed with `QuadletFixture` and `IdMaps` |
| `WorkloadQualificationProofs` | proofs about the fixture and the qualification |
| `HostContract`, `HostCommand` | what the host commands demand; how they run, end and are disturbed |
| `ProductionState`, `RockyPreparation`, `StandardInstallation` | the host commands; the last module composes them |
| `StandardInstallationProofs` | proofs about the installation and the production state |
| `MC*` | instances for TLC |

Definitions marked `Mutant:` are deliberate mistakes, each next to the definition
it distorts; nothing refers to them. `PROJECT.json` names the property that TLC
finds violated when the mutant takes the definition's place, which shows that the
property can fail at all. Each module's `TypeOK` documents its state; section 5
says for which modules it is a theorem.

Validators are modelled uniformly. An observation is represented by the set of the
points in which it deviates from the reviewed contract, and a validator by the
points it rejects, in the order and at the step at which the program calls it. What
the models then show is not that a comparison compares but that every deviation
meets a comparison before it does harm, although the comparisons are spread over
many reads at different times.

### 2.1 `EndpointSwitch`

`route` is the provider's native state (generation, target, exposure digest, last
operation), `claims` the authority's durable dispatch intents, `pending` requests
that the provider accepted and may still carry out. Each coordinator has a program
counter with one value per call that `execute()` or `reconcile()` makes to a port:
`Authorize`, `Validate`, `Inspect`, `Claim`, `Dispatch`, `Verify`, and `Observe` for
`reconcile()`. `Assess` and `Committed` are `assess()` and `_committed()`, case by
case; the diagnostic is kept because two of them (`stale-precondition`,
`provider-precondition`) are definite refusals. The environment may crash a
coordinator between calls (`Crash`), complete or drop a pending request (`Land`)
and change the route outside the interface (`Drift`). With `AckFaults` the adapter
answers anything; otherwise it keeps the contract its docstring states.

Two points a reader may stumble on. `_committed()` compares operation, target,
exposure and that the generation changed, not the whole plan: a second plan that
reuses an operation identity for the same target is told ALREADY_SATISFIED. The
claim refuses to *dispatch* it, so nothing happens twice, and `SuccessIsCommitted`
speaks of operation and target. And `Drift` keeps an operation identity only when
the target stays: a provider that attributes a foreign target to an old operation
would break its contract.

### 2.2 `ViewerTls`

Certificates are generations of the Certbot lineage, 0 is "absent". `etc` and
`acme` are the two directories, `etcD` and `acmeD` what a power failure leaves of
them: each write either completes with its directory sync, or raises before or
after the entry changed without becoming durable, and `Flush` may write a
directory back at any moment. `pub` is the process under `publish.lock` (an
administrator's command, the deploy hook, or the renewal itself), `ren` the process
under `renew.lock`. The steps from `Gate` to `Finally` are the body of `publish()`
in order, with its exception handler (`Rollback`, `Rejournal`, `Compensate`,
`Rereload`, `Unjournal`); `Recover*` is `recover_publication()` with the callback
`main` passes; `Initial*` is `accept_initial()`; `Renew*` is `renew()`. `BootAdmitted`
and `ReloadAdmitted` are `boot_admission()` for a start and for a reload during a
publication.

Simplifications: the boot check and HAProxy's loading of the file are one step;
the inactive check of a first `--recover` and its removal are separate steps, so
HAProxy may start in between (it is admitted by the accepted state then). HSTS
selection, the health fact, policy-install and policy-withdraw, ownership and X.509
syntax are left out, which is why the component is "partly" modelled.

A limit that is in the code, not in the model: if the sync of the journal's
unlink fails *and* the process is killed in the rollback that follows, before the
journal is written again, file and receipt can differ without a journal. The boot
admission refuses such a pair, so it fails closed. Three failing steps in one
rollback (the unlink's sync, the rewritten journal, the restored receipt) do the same
without a kill. `QuietIsBound` is therefore claimed for any number of crashes without
a fault and for two faults without a crash. `ServesTheAccepted` is claimed up to one
fault: when the journal's unlink was not synced and the journal cannot be written
again, the rollback restores the receipt before it reloads, and a kill between the
two leaves HAProxy with a rejected candidate that no document names any more.
`SuccessIsCurrent` is claimed after faults without a crash and after one of each: a
kill between the journal's unlink and the sync of its directory, and then a power
failure, brings the journal back, and `--recover` undoes what the record still calls
SUCCESS. `PredecessorIsKept` needs no such limit. These limits stand in the
properties, so that the theorems about them hold for every `MaxFaults` and
`MaxCrashes`; the run allows one failure more than most of them need.

### 2.3 `OriginPrefixLkg`

A document is a publication version, normalized content and retrieval time, and
its digest is the document itself. `Call` starts a command (`fetch` has observed
the source before it takes the lock); `AssertDirectory`, `StateLock`,
`ReadDocument`, `AdmitSuccessor`, `Replace` and `Sync` are its steps, each of which
may fail with the exit status the code gives. `seen` records which documents an
operator has had printed: `accept` acknowledges one of those. `PowerFail` keeps
durable entries of a durable directory only. `Published` is the set of documents the
source ever shows; the proofs leave it arbitrary.

### 2.4 `HostFirewall`

A network is the set of addresses it covers; `PolicyOf` keeps what the generated
rules depend on. `Apply` reads configuration and prefixes before the lock, as
`main` does; `AdmitApply` is `Controller.apply()` up to the kernel (`Admissible`,
`Candidate`, `Plan`), `Commit` the nft batch, `ReadBack`, `Replace` and `Sync` the
rest. `Executes` says what nft makes of a batch. Whether the acknowledgement got
lost is not recorded, since the code lets the read-back decide in every case.
`Kill` may leave the nft child behind (`orphans`, at most `MaxOrphans`), whose batch
executes later or never.

Simplifications: the snapshot of the table and of its decisions is one step, and
the directory of the state file is installed durably by the package. Changes of
the ruleset by other programs are excluded, as `docs/host-firewall.md` requires. Two
facts that no document contradicts and no property claims: of two applies, the
last to get the lock decides the mode although its configuration may be older,
and an `--add` that finds an element with the requested lifetime reports success
whether or not its own batch ran.

### 2.5 `HostEnrollment`

`disk[m]` is the identity directory on machine `m`, `at` the machine behind each
resource, `db` the grants and the rows of the authority's database, `pin` the
digest file outside it, `issued` and `enrolled` the documents in circulation, which
are never consumed by delivery. A call observes first (`GrantObserve`,
`ConsumeObserve`, `AuthBegin`, `AuthObserve`: the provider's answer, with its age) and
commits later (`GrantCommit`, `ConsumeCommit`, `AuthConfirm`). `Ends` is the end of a
transaction: pin and commit, or a pin whose commit failed, after which every
transaction refuses (`Intact`) until a backup is put back. The environment recreates
machines (`Reprovision`), copies directories (`Copy`), restores the database
(`Restore`) and lets time pass.

Keys and signatures are ideal. Dropping only the test that a grant was consumed
before changes nothing that a property could notice: `_generation()` re-checks the
same rows in the same transaction, so the two tests protect each other.

### 2.6 `QuadletContract` and `QuadletRuntime`

`QuadletContract` has one label per check and the order in which the checks are
called; no property says more of a check than when its rejection is met. `res` says
for each kind of resource of the instance's names whether it is absent, the
instance's own or foreign. The step names are those of `execute_lifecycle()`; a
failing check (`Reject`), a failing command (`CommandFails`) and a handled signal
(`HandleSignal`) lead to `cleanup()`, whose errors are collected, not raised.

The two one-shots are units that act by themselves (`UnitsAct`) while the lifecycle
goes on: a job that waits for its dependencies, a container that waits for its
release, one that executes (`Execute`), ends (`Finish`) or was never released
(`ReleaseTimeout`, the unit's `TimeoutStartSec`). `InspectOneshot` and `Release` are
two steps, and `RestartMigration`, somebody else restarting the unit, happens at any
moment, between those two as well: `podman exec` then releases a container that was
not inspected, since the code addresses it by name. `ran` records the invocations
in which the migration's command was executed, whatever the lifecycle thinks of it:
`MigratesOnce` is about that set, and `FailureIsInjected` compares what a lifecycle
reports as the injected failure with what the units went through. That the
released container is also the inspected one is not claimed, and does not hold.

`TakePort` is another process on the loopback port. `NothingIsLeft` leaves out one
window: a signal after the lifecycle's body and before `cleanup()` has marked itself
active is raised outside both `try` blocks and ends the process without cleanup and
without success. It is listed as a hazard. A restart of the migration is not
propagated to the roles that require it: those are examined by checks that may reject
at every step anyway.

### 2.7 `QuadletFixture`

`request` and `trigger` are the client's directory and marker file, `service` the two
root services that systemd's path units start (`Fire`), `active` the installer's
record, `files` and `temps` the units and the interrupted writes in the
administrator's directory. The client gives up when its deadline passes
(`WaitExpires`; it costs a fault only while a service could still answer), after
which the late service still acts. `ServiceKilled` is `TimeoutStartSec`; systemd stops
starting a service whose trigger fires too often (`TriggerBurst`).

### 2.8 `IdMaps`, `WorkloadContract` and `WorkloadQualification`

`Steps(p)` lists the reads of each phase in the order of the collector, and `Collect`
takes them one at a time, so that the host can change between two of them
(`Deviate`, `Mend`). Points of `WorkloadContract` are split as in the code: those that
make an observation incomplete (`C...`) and those that the collector records and
only the admission rejects (`A...`). `stood` and `met` are history variables: what
deviated throughout a window, and what deviated at some time in it. A deviation that
appears and vanishes between two reads is invisible to any observer; drop-ins,
dependencies and companions are examined at activation only. `AdmittedIsReviewed`
therefore speaks of what stood throughout the activation or the live window.
`PassedLeavesNothing` allows the record to be in state "removing", which a
remover leaves that is killed after its last unlink.

A started container may get any configured map and any map in effect of up to
`MaxNamespaceRanges` ranges; an exited one runs under none. A range is at most as long
as the largest id, as in the code: the map of the initial namespace
(`CollectorMap`) leaves out the last id. `Pieces` is the loop of `compose_id_maps()`
on one range, `NextPiece` one round of it; `ParseIdMap` stands for the sort and the
check that follow. `MapsCompose` compares what `ComposeIdMaps` admits with the
pointwise composition.

### 2.9 The host base

`HostCommand` runs two commands, each at a step `pc[p]` with its own `job[p]`;
`HostContract` is the table of demands. `ProductionState` creates directories (two
steps: made, then owned), a marker (opened, written, owned, renamed) and the secret
tree (copied file by file, then renamed as a whole if the sources are separate).
`StandardInstallation` has one step per command that changes the host, in the order of
`install_public_base()`, each with the test that makes a repetition skip it, then
`verify_public_base()` in three reads. Where the code looks first and creates
exclusively afterwards, the two are separate steps: `CheckFile` and `OpenFile`,
`CheckDirectory` and `MakeDirectory`, `FindAccount` with `CreateGroup` and `CreateUser`,
`CheckLegacy` and `RemoveLegacy`, the link and the label rule. `Taken` is the case that
another run was faster; the creation then fails and the run is refused. Any command may
fail, time out or say too much (`CommandFails`), which is a refusal too and leaves undone
what it would have done. `RockyPreparation` is the observer.

A kill leaves torn items: a partly written file, a directory not yet owned, a rule
without relabelled files, a manager that runs with the old configuration. These
are conflicts that the administrator resolves; `OnlyTornIsRefused` says that besides
them only deviations, production state, a failing command and a concurrent
installation refuse a run, so that everything else is completed by a repetition. The
daemon reload happens only if the run counted a change, as in the code. Each command
remembers what deviated when it started (`stood`) and when its verification started
(`found`). Deviations meet one running command at a time and do not vanish; flawed documents
are tried on the untouched host, since their admission reads nothing of it.

Some pairs remain one step: what `usermod` reads and adds (adding a range that is
there changes nothing), the test and the creation of a state directory, the marker's
`chown` and `chmod` (`OwnMarker`), its rename and the removal of the staged name
(`RenameMarker`). An initialization that loses such a race is refused in the code; no
property speaks of the refusals of an initialization. Not modelled: the fixture operations of `production-state.py` and how it maps ids into the
rootless namespace.

## 3. Runs

Each run finishes in at most about a minute and a half with two workers.

| Run | Question | Bounds | States |
|---|---|---|---|
| `endpoint_switch` | all safety properties and the refinement, with an adapter that keeps its contract | 2 coordinators, 2 operations, 2 plans, 2 targets, 2 exposures, 3 generations | 462 275 |
| `viewer_tls` | first installation and two renewals, two faults and two crashes anywhere, also in the recovery of a crash | 3 certificates | 3 468 712 |
| `viewer_tls_faults` | two faults: the rollback of a failed publication fails; every operation ends | 2 certificates | 196 723 |
| `viewer_tls_lost_receipt` | finding 1 | 2 certificates, 1 crash | |
| `origin_prefix` | review, acceptance, durability; one publication with two digests | 2 processes, 2 versions, 4 documents, 2 retrieval times | 1 007 924 |
| `firewall` | all safety properties without orphans | 2 helpers, 4 configurations, 2 publications, 3 addresses, 1 decision | 608 905 |
| `firewall_late` | the accepted file with an orphan nft child | 2 helpers, 3 configurations, 1 orphan | 536 154 |
| `firewall_wedge` | finding 2 | 2 helpers, 2 modes, 2 publications | |
| `enrollment` | identities, keys and freshness across failed commits, restores, recreated machines and copies | 2 calls, 2 machines, 2 keys, 1 resource, 2 grants, 1 restore | 346 535 |
| `quadlet_runtime` | all four lifecycles with one deviation, one failing command, one signal, one foreign restart at any moment | 2 ports, 1 fault, 1 rerun | 2 322 805 |
| `qualification` | a lying target, a changing host, killed and late installer services, an altered document; id maps | 1 instance with 2 units, 2 client calls, 2 faults, 3 roles, ids 0 to 2 | 607 648 |
| `host_base` | two host commands with one kill, signal, failing command, reboot, deviation or replaced source | 2 shells, 2 runs, 3 secret sources, 1 fault | about 930 000 (depends on the order of exploration) |

Why these bounds suffice for the question. Every race in this code is between the
holder of a lock or claim and one other process, so two processes meet all of
them; the third party is the environment, bounded where it is counted (faults and
crashes of `ViewerTls`, `QuadletRuntime`, `WorkloadQualification` and the host base).
Three routing generations allow a planned state, its successor and a change after
that. Two publications, versions or certificates are a predecessor and a candidate;
the third certificate lets a second renewal start from a recovered one. One decision
fills the remediation set of `firewall`. Two grants are an enrollment and the
recovery that supersedes it. A single deviation is the strongest case for a
validator: further ones can only make it refuse earlier. One
restart of the migration comes before its inspection, between inspection and release,
or after it; two show the same (3 796 033 states). In `qualification` a deviation
takes both faults (`DeviationCost`), since the run would otherwise not finish; what a
deviation does together with a kill is left to the proofs, which hold for every
`DeviationCost` and `MaxFaults`. Two host commands are a
killed run and its repetition, or an installation that meets an initialization.
Three secret sources tell a repeated key or a shared identity from separate ones.
The three roles of `qualification` stand for a running role with health check, a
one-shot and a running role without one; two units are one written and one not.
Of three ids Podman's map swaps the first two: a configured range of two is cut in its
middle, or reaches past the end of the outer map.
The proofs of section 5 remove the bounds for every safety property.

Symmetry is used for interchangeable processes, ports, operations, targets, exposures,
contents, machines and keys in runs without liveness only. `host_base` uses a view
that forgets how an ended command ended and what it had read; the invariants speak of
running commands and the action properties of the ending step, so none depends on it.
Deadlock checking is off where the system
really stops: in `enrollment` when the grants are used up, in `qualification` after
the verdict, in `host_base` after the last command.

Fairness. `LocksAreReleased` assumes weak fairness of the running process's own
steps and nothing of the environment. The code justifies it: the helpers are
straight-line, each external call has a timeout, and `publish.lock` and `renew.lock`
fail at once when they are taken. Nothing assumes that a provider answers, a flush
happens or an administrator acts.

## 4. Findings

1. `viewer_tls_lost_receipt`. `deploy()` saves the predecessor's receipt before
   `publish()` looks for a pending journal. A renewal killed between acceptance and
   the journal's unlink, followed by `--deploy`, overwrites that receipt with the
   candidate's; `--recover` then restores the predecessor's bytes and refuses.
2. `firewall_wedge`. An apply interrupted between kernel and file cannot be
   repeated once another publication was accepted, contrary to
   `docs/host-firewall.md`. `RepeatIsAdmitted` is what does hold: it can be repeated
   while its inputs are current.

Each run produces the trace. Narrower observations, which no run states:

* `--accept-initial` killed between receipt and journal leaves a state that
  `--recover` treats as "never accepted": the certificate goes, its receipt stays,
  and the first issuance is refused.
* `MCHostFirewallLate.cfg` with `ManagementKept` in place
  of `AuthoritySurvives` shows that the lock belongs to the helper and not to its nft child: a batch
  of a helper that was killed alone can execute after a later apply and withdraw the
  network which that one granted.
* The signal window of section 2.6.

## 5. Proofs

TLAPS checks 46 listed theorems for all values of the constants that satisfy the
named assumptions: constants for "none" lie outside the sets they extend
(`ProcAssumption`, `QuadletAssumption` and the like), the lifecycles of the Quadlet
runtime are the four that the program has, bounds are natural numbers, configurations
and publications are well-formed, Podman's id map is a sequence of ranges. In particular the numbers of failing steps, crashes
and commands are arbitrary.

Every proof has the same plan: an inductive invariant, a conjunction of named parts,
that TLC confirmed on the run's instance before the proof; one lemma per action
(in the larger modules per action and part); the property from the invariant or,
for an action property, from the invariant and the step.

**`EndpointSwitchProofs`.** `IInv` joins the type invariant with `PlansArePast` (a
plan's base is the present route or has an older generation: generations are not
reused), `DispatcherHoldsClaim` (whoever is about to dispatch holds the unused claim,
alone), `EffectsAreClaimed` (what is pending or committed was claimed and dispatched
exactly once), `RouteIsCommitted` and `SuccessIsCommitted`. None of the properties is
inductive alone: at-most-once needs to know that a claim in hand was never used, and
success needs to know what the operation on the route stands for. From it follow
`TypeCorrect`, `DispatchedAtMostOnce`, `SuccessIsReal`, `OnlyClaimedPlansTakeEffect` and
`EndpointSwitchImplementsRegister`, with arbitrary acknowledgements (the run uses an adapter that keeps its contract). `RefusalsAreFinal`
assumes `~AckFaults` and needs a second invariant, `Known`: a refused plan is behind
the route or has spent its only dispatch.

**`ViewerTlsProofs`.** Two layers. `PInv` says, for each step of `publish()`,
`recover_publication()` and `accept_initial()`, what it finds in `/etc/haproxy` (`Held`,
`Publishes`, `Recovers`) and that a pending renewal's predecessor is in the backup
(`Keeps`, of the files and of the durable copy: a power failure swaps one for the
other, so both must hold at every step). It gives `TypeCorrect` and
`PredecessorStays` without any limit on failures. `SInv` adds what ties the two directories and
HAProxy together: which receipt a publication carries and finds (`Binds`, `Durable`),
how many failures a lost journal has cost (`Losses`), what is served (`Serves`), when
receipt and file agree (`Bound`), that a predecessor is older than its candidate
(`Orders`), and what a recorded SUCCESS excludes (`Settled`, `Records`). It gives
`AcceptedIsServed`, `ReceiptIsBound` and `SuccessStaysCurrent`; each of them
needs all the others' parts, because a rollback passes through states in which file,
receipt and served certificate belong to different generations.

**`OriginPrefixLkgProofs`.** `IInv` adds to the types: who touches files holds the
lock, a step has the document it needs, an accept past its directory check relies
on a durable directory (`DirectoryIsDurable`), what it is about to write follows what
is accepted (`AcceptInHand`), and both copies were reviewed. Theorems: `TypeCorrect`,
`OnlyReviewedIsAccepted`, `AcceptanceIsDurable`, `AcceptedOnlyMovesForward`,
`ErrorsAreAlwaysDefinite`.

**`HostFirewallProofs`.** `IInv` says that jobs and late batches are well-formed, that
files pair PROTECTED with prefixes, and that what a lock holder is about to save
includes the accepted value. It gives `TypeCorrect` and `AuthorityIsKept` with any
number of orphans. `KInv` relates table and file under the lock; it holds as long as
no nft child outlives its helper, and the theorems `ProtectedIsNeverBanned`,
`TableAlwaysKeepsAuthority`, `ManagementIsKept`, `SuccessIsAlwaysEnforced` and
`RepeatIsAlwaysAdmitted` say so in their statement (`[]NoOrphans`). It is an
assumption about the environment: the code does not wait for the child of a helper
that was killed. The runs `firewall` and `firewall_wedge` make it by `MaxOrphans = 0`,
and the second remark in section 4 shows that it is needed.

**`HostEnrollmentProofs`.** `IInv` relates the present tables to everything that was
ever committed: a database that agrees with its pin has forgotten nothing (`History`),
the pin is never behind it (`PinIsAhead`), generations of a resource are numbered
without gaps (`Numbered`, `NewestExists`). That is what makes `Intact` a test of being
current, although a restored database is itself consistent. Theorems: `TypeCorrect`,
`GenerationsAreUnique`, `KeysStayBound`, `AuthenticationIsCurrent` (the linearization
point is the last read), `AcceptanceMovesForward`.

**`QuadletRuntimeProofs`.** `Flow` says which steps a lifecycle has, `NoForeign` that
after the removal of stale resources nothing of somebody else has the instance's
names, `Cleaned` what the end of a cleanup has seen. `Migration` ties the migration's unit to
the lifecycle: as long as it is `Unreleased` nothing was executed and its container can only
wait; after the release at most one invocation has executed, and a container that was
restarted since waits for a release that never comes again. `Outcome` adds what a
reported failure stands on. None of them limits the restarts: they hold for every
`MaxReruns`, at every moment. Theorems: `MigrationRunsOnce`,
`FailureEvidenceIsTrue`, `CleanupIsComplete`, `ForeignResourcesAreKept`. `TypeCorrect`
needs a second, small invariant, `Counters`: an attempt that is repeated is not the third,
so that there is no fourth, and a recorded invocation has happened.

**`WorkloadQualificationProofs`.** The first part proves `FInv` of the fixture alone and
lifts it: every step of the qualification is a step of client or services, or leaves
the fixture (`FixtureHolds`). Its core is that the record covers the disk (`Covered`)
and that there is one installation (`InstallsOnce`): its path unit is stopped before
the first write, so what a client was told stays so until a removal is asked for.
`UnitsStayRecorded` and `AnswersAreTrue` follow. The second part's `QInv` says for each
window what was read when (`Paced`, `InOrder`, `Windows`), and for each kind of
finding that what stood throughout a window was noted by the read that covers it
(`OthersNoted`, `ActivationJudged`, `LiveJudged`, `LeftNoted`). `AdmissionIsReviewed`,
`OthersStay` and `NothingStays` follow for every set of roles: no
point lies between two reads.

The third part is about `compose_id_maps()`, whose loop runs as often as the outer
map has ends. `Pieces` is a recursive function on the number of ids that are done;
what it computes follows by an induction over a set of naturals: the set of the
counterexamples has a least element (`Downward`, from the library's `WFMin`), so no
theorem with an operator parameter is needed. `RoundsExist` shows that the recursion
defines a function at all. `PiecesSplit` is the loop's invariant: the pieces from an id
on cover exactly the rest of the range, each where the outer map puts it; `Composes`
adds that a bounded map gives each id at most one place (`OneMatch`).
`MapsAlwaysCompose` follows with `NamespaceNoted`, which says that a passed
qualification has compared the map in effect with the composition. `IdsReturn` is the
other half of what the collector does with a map: an id sent to the host and
back is itself.

**`StandardInstallationProofs`.** `IInv` is about each running command: where it can be
(`Placed`), that a staged tree holds valid files only (`Staged`), that what it stood on is
still there (`Stands`), what it has found out before it changes anything (`Detected`),
and that a repetition meets a finished base all along (`Repeated`); and about two: no
two installations write the same file (`OneWriter`). Theorems: `StateStaysWhole`,
`ConflictsAreHarmless`, `RepetitionIsSilent`.

A second invariant, `JInv`, says how far each running command has come: which steps its
kind has and what its documents may lack (`OfItsKind`, `Admits`), that an installation
has left behind it every item in order (`SeenTo`), that what a verification
found when it began is still so (`Found`) and what each of its reads has excluded
(`Looked`), that an initialization stands on its root (`Rooted`); and of the host, that
only one directory knows an old layout and that what is enabled was loaded with its
rules (`OldLayout`, `LoadedWithRules`). `OnlyTornRefuses` needs it because a run
that is killed leaves the items up to its step and nothing after them: what a
repetition then refuses is a deviation, production state or a torn item.
`SuccessIsTrue` needs it because a verification reads in several steps while other
commands write: an item that was right at one read is right at the end, since
no step of another command takes it away (`BaseGrows`).

What the proofs changed. Three properties of `ViewerTls` held only because the run
allowed a single failure; with two, TLC shows the executions of section 2.2, and the
limits moved from the configuration into the properties. One clause of
`PassedLeavesNothing` held only because two faults do not suffice for a killed removal
and a silent client; it now allows the record that such a removal leaves. Two
definitions of `QuadletRuntime` chose between overlapping cases, which a proof cannot
resolve; their guards now exclude each other as the code's order of tests does.

The id maps had to be stated so that a proof can compute with them: `ParseIdMap` is
the map that has the given ranges and passes the check, instead of the result of a
sorting operator, and a round of the loop has a definition of its own. That reading
also showed that the code's ranges are one shorter than the id space.

Only model-checked: `LocksAreReleased`, because fairness is out of the prover's reach.
Every other property of the passing runs is the statement of a theorem.

## 6. Not modelled, and the plan

Left out for good: text generation, schema and syntax checks, static validators,
one-pass observers and reports, OpenTofu and workflow files. They keep no state, or
their content is formatting.

Planned, in this order:

1. The HAProxy configuration helper, the second user of `publish()`, with the
   reload of master and workers.
2. The DIRECT seam and product backend policies: activation and withdrawal around
   service starts, with the rollback of half an activation.
3. A composition of prefix owner and firewall, which replaces `AcceptPrefixes` by
   the owner's own steps, and of enrollment with the installation's admission.
4. The readiness handshake across a reboot, and the janitors' revalidation between
   listing and deletion.
5. The provider contracts and the CloudFront edge as pure functions checked
   against reference definitions.
