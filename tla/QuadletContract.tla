--------------------------- MODULE QuadletContract ---------------------------
(***************************************************************************)
(* The checks of scripts/quadlet-integration.py.  An observation (of the   *)
(* host, the images, the units, the application) is the set of the checks  *)
(* that find it deviating from the reviewed contract; that of the          *)
(* containers is a set of pairs <<role, check>>.  What a check compares is *)
(* abstracted: the lifecycle only depends on which check rejects, and when.*)
(* The role tables are those of scripts/integration_runtime_contract.py.   *)
(***************************************************************************)
EXTENDS FiniteSets

Oneshot == {"secrets-init", "migrate"}
Role == Oneshot \cup {"postgres", "api", "worker-general", "worker-hash-chain",
                      "scheduler", "frontend", "gateway"}
LongRunning == Role \ Oneshot

\* failure_blocked_roles(), of the one-shots: the migration needs PostgreSQL.
Blocked(failed) == IF failed = "dependency" THEN {"migrate"} ELSE {}

\* role_spec().health: the roles systemd calls started when they are healthy.
HealthRole == {"postgres", "api", "frontend", "gateway"}

\* role_execution_spec(): the roles whose command the contract overrides.
ExecutionRole(failed) ==
  {"secrets-init", "migrate", "api", "worker-general", "worker-hash-chain", "scheduler"}
    \cup (IF failed = "dependency" THEN {"postgres"} ELSE {})

-----------------------------------------------------------------------------
(* The host: validate_repository_and_runtime().                            *)

\* Required commands, instance, port, canonical private fixture root.
ValidateCall(off) == "call" \notin off

\* podman_version_supported(): at least 5.4.2 and below 6.0.0.
PodmanVersionSupported(off) == "version" \notin off

\* The generator is trusted, and of Podman's release.
PodmanVersionsCompatible(off) == "generator version" \notin off
ValidateQuadletGenerator(off) == "generator" \notin off /\ PodmanVersionsCompatible(off)

\* Every uid and gid of the contract is mapped.
ValidateIdMapping(off) == "mapping" \notin off

\* runtime_component_paths() and validate_trusted_executable() of each of them.
ValidateTrustedExecutable(off) == "trusted executable" \notin off
RuntimeComponents(off) == "component" \notin off /\ ValidateTrustedExecutable(off)

\* validate_runtime_info(): local rootless Podman with the reviewed components.
ValidateRuntimeInfo(off) ==
  "info" \notin off /\ PodmanVersionSupported(off) /\ RuntimeComponents(off) /\ ValidateIdMapping(off)

\* podman.socket and podman-auto-update.timer are inactive and disabled, masked or absent.
ValidateDisabledUserUnit(off) == "user unit" \notin off

\* Nothing the user can write overrides the configuration.
ValidateUserContainerConfiguration(off) == "user configuration" \notin off

\* System files only, all of them trusted, without helper, rewrite, mirror or plain transport.
ValidateRegistryFiles(off) == "registry files" \notin off
ValidateRegistryDocuments(off) == "registry documents" \notin off

\* Real paths that root owns and nobody else can write, up to the root directory.
ValidateTrustedDirectory(off) == "trusted directory" \notin off
ValidateTrustedRegularFile(off) == "trusted file" \notin off /\ ValidateTrustedDirectory(off)

\* The policy of the search path, and the effective one.
ValidateQuadletSearchPathPolicy(off) == "search path" \notin off /\ ValidateTrustedRegularFile(off)

\* gh, browser and sudo of the local mode; identity, paths and client of the cloud mode.
ValidateTools(off) == "tools" \notin off
ValidateCloud(off) == "cloud" \notin off

\* validate_repository_and_runtime() up to the snapshot of unrelated resources.
ValidateRepositoryAndRuntime(off, cloud) ==
  /\ ValidateCall(off)
  /\ IF cloud THEN ValidateCloud(off) ELSE ValidateTools(off)
  /\ ValidateRuntimeInfo(off)
  /\ ValidateQuadletGenerator(off)
  /\ ValidateDisabledUserUnit(off)
  /\ "remote connection" \notin off
  /\ ValidateUserContainerConfiguration(off)
  /\ ValidateRegistryFiles(off) /\ ValidateRegistryDocuments(off)
  /\ ValidateQuadletSearchPathPolicy(off)

\* validate_cloud_cleanup_runtime(): what the separate cleanup needs.
ValidateCloudCleanupRuntime(off) ==
  ValidateCloud(off) /\ ValidateRuntimeInfo(off) /\ ValidateUserContainerConfiguration(off)

-----------------------------------------------------------------------------
(* Images and units.                                                       *)

\* Every pull has a credential directory of its own.
AnonymousPull(off) == "pull isolation" \notin off

\* Attestation before the pull, digest after it.
VerifyStagedImage(off) == "staged image" \notin off
VerifyAndStageProduct(off) == "product" \notin off /\ VerifyStagedImage(off)
VerifyAndStageDependency(off) == "dependency" \notin off /\ VerifyStagedImage(off)

\* local_image_digest() and stage_cloud_image_alias(), in the cloud mode.
LocalImageDigest(off) == "gateway digest" \notin off
StageCloudImageAlias(off) == "alias" \notin off /\ LocalImageDigest(off)

\* validate_active_root(), validate_active_quadlet_inputs() and the comparison of every
\* installed file with the rendered one.
ValidateActive(off) == "active root" \notin off
ValidateInstalled(off) == "installed unit" \notin off /\ ValidateActive(off)

\* What systemd made of them: units, dependencies, companions and readiness.
ValidateEffectiveSystemdUnit(off) == "loaded unit" \notin off
ValidateLoaded(off) == "loaded target" \notin off /\ ValidateEffectiveSystemdUnit(off)

-----------------------------------------------------------------------------
(* Containers.                                                             *)

ContainerCheck == {"environment", "execution", "security", "mounts", "health", "identity"}

ValidateContainerEnvironment(r, dev) == <<r, "environment">> \notin dev
ValidateContainerSecurity(r, dev) == <<r, "security">> \notin dev
ValidateMounts(r, dev) == <<r, "mounts">> \notin dev
ValidateIdentity(r, dev) == <<r, "identity">> \notin dev

\* For the roles with an override, and those with a health contract.
ValidateContainerExecution(r, failed, dev) == r \in ExecutionRole(failed) => <<r, "execution">> \notin dev
ValidateContainerHealth(r, dev) == r \in HealthRole => <<r, "health">> \notin dev

\* _validate_effective_container()
ValidateEffectiveContainer(r, failed, dev) ==
  /\ ValidateContainerEnvironment(r, dev) /\ ValidateContainerExecution(r, failed, dev)
  /\ ValidateContainerSecurity(r, dev) /\ ValidateMounts(r, dev)
  /\ ValidateContainerHealth(r, dev) /\ ValidateIdentity(r, dev)

-----------------------------------------------------------------------------
(* The running application, and the injected failure.                      *)

ValidateNetworkBoundary(off) == "boundary" \notin off
ValidateExternalBehavior(off) == "external" \notin off
ValidateRuntimeProbes(off) == "probes" \notin off
ValidatePrivateStorage(off) == "storage" \notin off
ValidateLongRunningRoles(off) == "roles" \notin off

\* The failure of the injected check is in Podman's state of the container, or in its
\* event log when the container is gone.
HasInjectedHealthFailure(off) == "state record" \notin off
HasInjectedUnhealthyEvent(off) == "event record" \notin off

\* The checks of an observation.
Check ==
  {"call", "version", "generator", "generator version", "mapping", "trusted executable", "component",
   "info", "user unit", "user configuration", "registry files", "registry documents",
   "trusted directory", "trusted file", "search path", "tools", "cloud", "remote connection",
   "pull isolation", "staged image", "product", "dependency", "gateway digest", "alias",
   "active root", "installed unit", "loaded unit", "loaded target",
   "boundary", "external", "probes", "storage", "roles",
   "gateway replaced", "green target", "other cause", "dependent ran", "unrelated removed"}
=============================================================================
