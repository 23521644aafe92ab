-------------------------- MODULE WorkloadContract --------------------------
(***************************************************************************)
(* What scripts/ci-cloud/collect-workload-evidence.py examines on the      *)
(* qualified host, and what workload-admission.py later demands of the     *)
(* facts it wrote down.  A deviation from the reviewed workload is a pair  *)
(* <<subject, point>>; `off' is a set of them.  Some points make the       *)
(* collector call its observation incomplete, the others are facts that it *)
(* records and that only the admission rejects.                            *)
(***************************************************************************)
EXTENDS FiniteSets

\* ROLES, READY_ROLES, HEALTHY_ROLES and the kinds of generated services.
Role == {"secrets-init", "postgres", "migrate", "api", "worker-general",
         "worker-hash-chain", "scheduler", "frontend", "gateway"}
ReadyRole == Role \ {"secrets-init", "migrate"}
HealthyRole == {"postgres", "api", "frontend", "gateway"}
Kind == {"container", "network", "volume"}

Clean(subject, points, off) == ({subject} \X points) \cap off = {}

-----------------------------------------------------------------------------
(* admit_collection_context() and checkout_tree_clean().                   *)

CheckoutFlaw == {"index", "modified", "untracked"}
CheckoutTreeClean(off) == Clean("checkout", CheckoutFlaw, off)

ContextFlaw == {"collector identity", "path", "head"}
AdmitCollectionContext(off) == Clean("checkout", ContextFlaw, off) /\ CheckoutTreeClean(off)

-----------------------------------------------------------------------------
(* The user manager: its environment, generators and units.                *)

\* read_manager_environment() against TRUSTED_MANAGER_ENVIRONMENT.
ManagerFlaw == {"environment", "search path"}
ManagerEnvironment(off) == Clean("manager", ManagerFlaw, off)

\* quadlet_search_paths(); WORKLOAD_QUADLET_SEARCH_PATH.
SearchPaths(off) == Clean("manager", {"search path"}, off)

\* trusted_user_environment_generator_admission_failure()
EnvironmentGeneratorFlaw == {"inventory", "absent", "file", "content", "metadata"}
EnvironmentGenerator(off) == Clean("generator", EnvironmentGeneratorFlaw, off)

\* target_activation_is_trusted()
TargetFlaw == {"fragment", "drop-in", "wants", "requires"}
TargetActivation(off) == Clean("target", TargetFlaw, off)

\* quadlet_source_execution_controls_are_trusted()
QuadletSource(k, off) == Clean(k, {"source exec directive"}, off)

\* service_environment_controls_are_trusted() and service_config_environment_is_trusted()
EnvironmentFlaw == {"environment file", "pass environment", "unset environment", "config environment"}
ServiceEnvironment(k, off) == Clean(k, EnvironmentFlaw, off)

\* service_execution_controls_are_trusted(): no auxiliary command; a container must be
\* removed by Podman when it stops, a network may be, a volume must not.
ExecutionFlaw(k) ==
  {"auxiliary exec", "other stop exec"}
    \cup (IF k = "container" THEN {"no stop exec"} ELSE {})
    \cup (IF k = "volume" THEN {"podman stop exec"} ELSE {})
ServiceExecution(k, off) == Clean(k, ExecutionFlaw(k), off)

\* direct_podman_exec_start()
ExecStart(k, off) == Clean(k, {"exec start"}, off)

\* service_runtime_controls_are_trusted(): before the activation no drop-in is admitted
\* and the dependencies are the reviewed ones.
RuntimeControls(k, off) ==
  /\ Clean(k, {"fragment path", "generated drop-in", "other drop-in", "dependencies"}, off)
  /\ ServiceEnvironment(k, off) /\ ServiceExecution(k, off) /\ ExecStart(k, off)

\* generated_dependency_companions_are_absent()
CompanionsAbsent(off) == Clean("companion", {"wants", "requires", "unit path"}, off)

\* podman_network_online_activation_is_trusted()
NetworkOnline(off) == Clean("network-online", {"fragment", "drop-in"}, off)

\* generated_service_unit_activation_is_trusted()
UnitActivation(k, off) == QuadletSource(k, off) /\ RuntimeControls(k, off)

\* generated_service_activation_is_trusted()
ServiceActivation(off) == NetworkOnline(off) /\ CompanionsAbsent(off) /\ \A k \in Kind : UnitActivation(k, off)

\* What must not be there when the workload is started.
ActivationFlaw ==
  {"manager"} \X ManagerFlaw
    \cup {"generator"} \X EnvironmentGeneratorFlaw
    \cup {"target"} \X TargetFlaw
    \cup {"companion"} \X {"wants", "requires", "unit path"}
    \cup {"network-online"} \X {"fragment", "drop-in"}
    \cup UNION {{k} \X ({"source exec directive", "fragment path", "generated drop-in",
                         "other drop-in", "dependencies", "exec start"}
                          \cup EnvironmentFlaw \cup ExecutionFlaw(k)) : k \in Kind}

-----------------------------------------------------------------------------
(* The live facts: C... is the collector's judgement, A... the admission's.*)

\* installed_unit_facts(); WORKLOAD_QUADLET_SNAPSHOT.
CUnits(off) == Clean("unit", {"missing", "extra", "unreadable", "image line"}, off)
AUnits(seen) == Clean("unit", {"owner", "mode"}, seen)

\* exact_systemd_service_properties() and generated_file_fact()
ServiceFlaw == {"properties", "fragment unreadable"}
\* generated_service_facts(); the drop-ins Quadlet itself generated are admitted here.
CServices(off) ==
  \A k \in Kind :
    /\ Clean(k, {"invocation", "environment shape"} \cup ServiceFlaw, off)
    /\ QuadletSource(k, off) /\ ServiceEnvironment(k, off) /\ ServiceExecution(k, off)
    /\ ExecStart(k, off)
\* generated_source_matches(), service_environment_names_are_trusted() and
\* service_state_matches_role()
SourceMatches(k, seen) == Clean(k, {"source path"}, seen)
EnvironmentNames(k, seen) == Clean(k, {"environment names"}, seen)
StateMatchesRole(k, seen) == Clean(k, {"state"}, seen)
\* WORKLOAD_GENERATED_UNITS, _PROVENANCE, _SERVICE_STATE
AServices(seen) ==
  \A k \in Kind : /\ Clean(k, {"fragment path", "fragment owner", "other drop-in"}, seen)
                  /\ SourceMatches(k, seen) /\ EnvironmentNames(k, seen) /\ StateMatchesRole(k, seen)

\* podman_runtime_facts() and the two facts of it.
CRuntime(off) == Clean("runtime", {"unreadable"}, off)
ARuntime(seen) == Clean("runtime", {"rootful", "oci runtime"}, seen)

\* container_facts() of one role, by the parts of the inspection it normalizes.
InspectionFlaw == {"fields", "image name", "dns servers", "ports shape"}
CInspection(r, off) == Clean(r, InspectionFlaw, off)
\* normalized_mounts(), normalized_tmpfs(), normalized_command()
CShapes(r, off) == Clean(r, {"mount shape", "tmpfs shape", "command shape"}, off)
\* container_lifecycle_events(): an exec in a container is no reviewed event.
CEvents(r, off) == Clean(r, {"exec event", "event order"}, off)
\* configured_userns_options() and configured_id_maps()
CNamespaceOptions(r, off) == Clean(r, {"module option", "two userns options", "mapping controls"}, off)
\* effective_user_namespace_facts(): identity and namespace are read twice around the maps.
CNamespace(r, off) == r \in ReadyRole => Clean(r, {"namespace changed", "identity differs"}, off)
\* process_security_facts()
CProcess(r, off) == r \in ReadyRole => Clean(r, {"label unreadable"}, off)
\* normalized_network_endpoints()
CEndpoints(r, off) == Clean(r, {"endpoint", "ipv6 endpoint"}, off)
\* bind_container_services(): a finished role is found in its service's own journal.
CBinding(r, off) ==
  IF r \in ReadyRole THEN Clean(r, {"cgroup unreadable"}, off) ELSE Clean(r, {"journal", "lifecycle events"}, off)

CContainer(r, off) ==
  /\ CInspection(r, off) /\ CShapes(r, off) /\ CEvents(r, off) /\ CNamespaceOptions(r, off)
  /\ CNamespace(r, off) /\ CProcess(r, off) /\ CEndpoints(r, off)
ContainerShape(r) ==
  InspectionFlaw
    \cup {"mount shape", "tmpfs shape", "command shape", "exec event", "event order",
          "module option", "two userns options", "mapping controls", "endpoint", "ipv6 endpoint"}
    \cup (IF r \in ReadyRole
          THEN {"namespace changed", "identity differs", "label unreadable", "cgroup unreadable"}
          ELSE {"journal", "lifecycle events"})

\* WORKLOAD_PRIVILEGE_BOUNDARY, _RUNTIME_IDENTITY, _READ_ONLY_ROOTFS
APrivileges(r, seen) ==
  Clean(r, {"privileged", "capabilities", "added groups", "devices", "supplementary groups",
            "identity", "writable root"}, seen)
\* WORKLOAD_EXECUTION_CONTRACT, _IMAGE_PROVENANCE, _IMAGE_ROLE_SEPARATION: only migrate may
\* name a migration.
ImageMatches(r, seen) == Clean(r, {"image"}, seen)
AExecution(r, seen) ==
  /\ Clean(r, {"command"}, seen) /\ ImageMatches(r, seen)
  /\ r # "migrate" => Clean(r, {"migrates"}, seen)
\* WORKLOAD_PODMAN_API_DISABLED, _HOST_NAMESPACES, _HOST_NETWORK of a container
LabelsMatch(r, seen) == Clean(r, {"selinux"}, seen)
AIsolation(r, seen) ==
  /\ Clean(r, {"api mount", "api environment", "host modes", "user namespace", "host network",
               "security options", "seccomp", "auto update"}, seen)
  /\ LabelsMatch(r, seen)
\* WORKLOAD_SERVICE_BINDING, _CONTAINER_NETWORKS, _VOLUME_TOPOLOGY, _TMPFS_TOPOLOGY,
\* _CONTAINER_LIFECYCLE, _PUBLISHED_PORTS
StorageMatches(r, seen) == Clean(r, {"mounts", "tmpfs"}, seen)
ATopology(r, seen) ==
  /\ Clean(r, {"service binding", "networks", "restarted", "ports"}, seen)
  /\ StorageMatches(r, seen)
\* WORKLOAD_MIGRATION, _LIFECYCLE, _READINESS: a one-shot role has exited with 0, every
\* other one runs, healthy if it has a health check.
AState(r, seen) ==
  /\ r \in ReadyRole => Clean(r, {"not running"}, seen)
  /\ r \in HealthyRole => Clean(r, {"not healthy"}, seen)
  /\ r \notin ReadyRole => Clean(r, {"not exited", "exit code"}, seen)

\* Mutant: an admission that forgets the topology.
AContainerUnbound(r, seen) ==
  APrivileges(r, seen) /\ AExecution(r, seen) /\ AIsolation(r, seen) /\ AState(r, seen)

AContainer(r, seen) ==
  APrivileges(r, seen) /\ AExecution(r, seen) /\ AIsolation(r, seen) /\ ATopology(r, seen) /\ AState(r, seen)

ContainerFact(r) ==
  {"privileged", "capabilities", "added groups", "devices", "supplementary groups", "identity",
   "writable root", "command", "image", "api mount", "api environment", "host modes",
   "user namespace", "host network", "security options", "selinux", "seccomp", "auto update",
   "service binding", "mounts", "tmpfs", "restarted", "ports", "networks"}
    \cup (IF r = "migrate" THEN {} ELSE {"migrates"})
    \cup (IF r \in ReadyRole THEN {"not running"} ELSE {"not exited", "exit code"})
    \cup (IF r \in HealthyRole THEN {"not healthy"} ELSE {})

\* workload_network_metadata()
CNetworks(off) == Clean("networks", {"driver", "not internal", "dns", "ipv6", "subnet"}, off)

\* aardvark_configuration_matches_workload(): the files of the name server, unchanged
\* while they are read, and one record for every endpoint of every container.
AardvarkFiles(off) == Clean("aardvark", {"files", "owner", "changed"}, off)
CAardvark(off) == AardvarkFiles(off) /\ Clean("aardvark", {"record"}, off)

\* root_owned_systemd_unit() and systemd_unit_owned_by_package()
UnitIsTrusted(off) == Clean("sockets", {"untrusted unit"}, off)
\* user_socket_activation_facts()
CSockets(off) == Clean("sockets", {"listing", "no bus socket"}, off)
\* podman_api_facts()
PodmanApi(off) == ~Clean("foreign", {"api"}, off) \/ ~UnitIsTrusted(off) \/ ~Clean("sockets", {"connection"}, off)

\* The health timers of Podman are authenticated one by one.
HealthFlaw == {"timer interval shape", "health exec", "check not current"}
\* collector_podman_scopes_are_quiescent()
ScopesAreQuiescent(off) == Clean("timers", {"scopes busy"}, off)
\* user_work_facts()
CWork(off, online) ==
  /\ Clean("timers", {"timer properties", "service properties"} \cup HealthFlaw, off)
  /\ ScopesAreQuiescent(off)
  /\ online => NetworkOnline(off)
\* reviewed_podman_auxiliary_units()
AWork(seen) == Clean("timers", {"missing", "interval", "scopes"}, seen)

\* podman_helper_process_is_bound()
HelperIsBound(off) == Clean("processes", {"helper arguments", "helper namespace"}, off)
\* user_process_facts()
CProcesses(off) == Clean("processes", {"deleted executable", "opaque"}, off) /\ HelperIsBound(off)
\* reviewed_podman_helper_process() and the service groups of the process delta.
HelperIsReviewed(seen) == Clean("processes", {"no helper"}, seen)
AProcesses(seen) == Clean("processes", {"outside services"}, seen) /\ HelperIsReviewed(seen)

\* What must not be there while the live observation is made: of the services, of the
\* containers of the given roles, and of the rest.
ServiceDeviation(k) ==
  {"invocation", "environment shape", "source exec directive", "exec start", "fragment path",
   "fragment owner", "other drop-in", "source path", "environment names", "state"}
    \cup ServiceFlaw \cup EnvironmentFlaw \cup ExecutionFlaw(k)
LiveServiceFlaw == UNION {{k} \X ServiceDeviation(k) : k \in Kind}
LiveContainerFlaw(roles) == UNION {{r} \X (ContainerShape(r) \cup ContainerFact(r)) : r \in roles}
LiveHostFlaw ==
  {"unit"} \X {"missing", "extra", "unreadable", "image line", "owner", "mode"}
    \cup {"runtime"} \X {"unreadable", "rootful", "oci runtime"}
    \cup {"networks"} \X {"driver", "not internal", "dns", "ipv6", "subnet"}
    \cup {"aardvark"} \X {"files", "owner", "record", "changed"}
    \cup {"sockets"} \X {"listing", "no bus socket", "untrusted unit", "connection"}
    \cup {"timers"} \X {"timer properties", "timer interval shape", "service properties",
                        "health exec", "check not current", "scopes busy", "missing", "interval",
                        "scopes"}
    \cup {"processes"} \X {"deleted executable", "opaque", "helper arguments", "helper namespace",
                           "outside services", "no helper"}
    \cup {"manager"} \X {"search path"}
    \cup {"checkout"} \X (ContextFlaw \cup CheckoutFlaw)
    \cup {"network-online"} \X {"fragment", "drop-in"}
LiveFlaw(roles) == LiveServiceFlaw \cup LiveContainerFlaw(roles) \cup LiveHostFlaw
=============================================================================
