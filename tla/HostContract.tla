---------------------------- MODULE HostContract ----------------------------
(***************************************************************************)
(* What the host commands demand of their documents and of the host:       *)
(* scripts/validate-production-contract.py, the Rocky Linux contract in    *)
(* scripts/ci-cloud/rocky_preparation_contract.py and the package pins.    *)
(* A deviation is a pair <<subject, point>>; `off' is a set of them.       *)
(***************************************************************************)
EXTENDS Naturals, FiniteSets

Clean(subject, points, off) == ({subject} \X points) \cap off = {}

-----------------------------------------------------------------------------
(* Documents.                                                              *)

\* NoDuplicateSafeLoader
Loader(d, off) == Clean(d, {"duplicate key", "key not scalar"}, off)
\* scan_forbidden_input(), which also meets a document that contains itself.
ScanForbiddenInput(d, off) ==
  Clean(d, {"recursive alias", "key not a string", "secret field", "image field", "credential"}, off)
\* read_document()
ReadDocument(d, off) ==
  /\ Clean(d, {"unreadable", "too large", "not an object", "too deep"}, off)
  /\ Loader(d, off) /\ ScanForbiddenInput(d, off)
DocumentFlaw ==
  {"unreadable", "too large", "not an object", "too deep", "duplicate key", "key not scalar",
   "recursive alias", "key not a string", "secret field", "image field", "credential"}

\* validate_document_schema() and its message
Schema(d, off) == Clean(d, {"field missing", "field unknown", "value", "format"}, off)
SchemaFlaw == {"field missing", "field unknown", "value", "format"}

\* parse_address(), parse_unique_addresses(), is_eligible_public_host_address()
Address(d, off) == Clean(d, {"address scoped", "address mapped", "address repeated"}, off)
\* validate_addresses()
Addresses(off) ==
  Address("inventory", off) /\ Clean("inventory", {"address reserved", "address shared", "address not private"}, off)
\* validate_hostname()
Hostname(d, off) == Clean(d, {"hostname", "hostname loopback", "hostname numeric"}, off)
\* validate_origin()
Origin(off) ==
  Clean("inventory", {"origin scheme", "origin path", "origin port", "origin authority", "origin literal",
                      "origin unqualified", "origin reserved"}, off)
\* validate_absolute_path()
AbsolutePath(d, off) == Clean(d, {"path relative", "path traversal", "path temporary", "path length"}, off)

\* CANONICAL_PATHS
CanonicalPath ==
  {"configuration", "deployment_state", "runtime_secrets", "private_application_storage",
   "public_application_storage", "edge_state", "acme_state", "crowdsec_state", "logs",
   "backup_staging", "podman_graph_root", "quadlet_definitions"}

\* validate_path_contracts(): places, metadata, and no path at or below another one.
PathContracts(off) ==
  /\ AbsolutePath("inventory", off)
  /\ Clean("inventory", {"path unmanaged", "path metadata", "path owner", "path repeated", "path nested"}, off)
\* validate_storage_requirements(); HEADROOM_MINIMUMS
StorageRequirements(off) == Clean("inventory", {"bytes floor", "inodes floor", "percent floor"}, off)

\* validate_subordinate_id_contract(): 65536 identities below the limit, without the
\* account's own.
SubordinateIds(off) == Clean("inventory", {"subid count", "subid limit", "subid own"}, off)

\* validate_inventory()
Inventory(off) ==
  /\ Schema("inventory", off) /\ Hostname("inventory", off) /\ Addresses(off)
  /\ AbsolutePath("inventory", off) /\ SubordinateIds(off) /\ Origin(off)
  /\ Clean("inventory", {"origins equal", "host is origin"}, off)
  /\ PathContracts(off) /\ StorageRequirements(off)

InventoryFlaw ==
  DocumentFlaw \cup SchemaFlaw
    \cup {"address scoped", "address mapped", "address repeated", "address reserved", "address shared",
          "address not private", "hostname", "hostname loopback", "hostname numeric", "origin scheme",
          "origin path", "origin port", "origin authority", "origin literal", "origin unqualified",
          "origin reserved", "origins equal", "host is origin", "path relative", "path traversal",
          "path temporary", "path length", "path unmanaged", "path metadata", "path owner",
          "path repeated", "path nested", "bytes floor", "inodes floor", "percent floor",
          "subid count", "subid limit", "subid own"}

-----------------------------------------------------------------------------
(* A document of host facts, admitted in fixture mode only.                *)

\* validate_tls_package_provenance()
TlsProvenance(off) == Clean("facts", {"certbot provenance"}, off)
\* validate_platform_facts()
PlatformFacts(off) ==
  Hostname("facts", off) /\ Clean("facts", {"other hostname", "architecture", "minor", "cpu"}, off) /\ TlsProvenance(off)
\* validate_kernel_facts()
KernelFacts(off) == Clean("facts", {"kernel series", "kernel candidate", "kernel architecture"}, off)
\* validate_selinux_facts()
SelinuxFacts(off) == Clean("facts", {"mcs differs", "mcs not separate"}, off)
\* validate_quadlet_search_paths()
SearchPathFacts(off) == Clean("facts", {"search path"}, off)
\* validate_runtime_facts()
RuntimeFacts(off) ==
  /\ Clean("facts", {"nevra", "podman version", "podman owner", "namespace account", "subid range",
                     "graphroot", "runroot"}, off)
  /\ SearchPathFacts(off) /\ AbsolutePath("facts", off)
\* validate_service_account_facts()
AccountFacts(off) == Clean("facts", {"account"}, off)
\* validate_network_facts()
NetworkFacts(off) == Address("facts", off) /\ Clean("facts", {"public address", "private addresses"}, off)
\* validate_tool_facts()
ToolFacts(off) == Clean("facts", {"tool missing"}, off)
\* validate_path_access_fact(): a mode that grants the account the write access that the
\* facts deny is a contradiction, whatever is expected.
PathAccess(off) == Clean("facts", {"other path", "owner", "mode", "mode contradicts", "access", "ancestry"}, off)
\* validate_path_access_facts()
PathAccessFacts(off) == PathAccess(off)
\* validate_filesystem_facts()
FilesystemFacts(off) == PathAccess(off) /\ Clean("facts", {"owner role", "xfs ftype", "ext4 ftype"}, off)
\* validate_headroom_fact()
Headroom(off) == Clean("facts", {"total above host", "free above total", "headroom", "percent contradicts"}, off)
\* validate_resource_facts()
ResourceFacts(off) == Clean("facts", {"resource floor"}, off) /\ Headroom(off)

\* validate_host_facts(): supplied facts are never native evidence.
HostFacts(off) ==
  /\ Schema("facts", off) /\ Clean("facts", {"not synthetic mode", "evidence class"}, off)
  /\ PlatformFacts(off) /\ KernelFacts(off) /\ SelinuxFacts(off) /\ RuntimeFacts(off)
  /\ AccountFacts(off) /\ NetworkFacts(off) /\ PathAccessFacts(off) /\ ToolFacts(off)
  /\ FilesystemFacts(off) /\ ResourceFacts(off)
  /\ Clean("facts", {"postgresql storage", "postgresql above host"}, off)

FactsFlaw ==
  DocumentFlaw \cup SchemaFlaw
    \cup {"not synthetic mode", "evidence class", "hostname", "hostname loopback", "hostname numeric",
          "other hostname", "architecture", "minor", "cpu", "certbot provenance", "kernel series",
          "kernel candidate", "kernel architecture", "mcs differs", "mcs not separate", "search path",
          "nevra", "podman version", "podman owner", "namespace account", "subid range", "graphroot",
          "runroot", "path relative", "path traversal", "path temporary", "path length", "account",
          "address scoped", "address mapped", "address repeated", "public address",
          "private addresses", "tool missing", "other path", "owner", "mode", "mode contradicts",
          "access", "ancestry", "owner role", "xfs ftype", "ext4 ftype", "total above host",
          "free above total", "headroom", "percent contradicts", "resource floor",
          "postgresql storage", "postgresql above host"}

-----------------------------------------------------------------------------
(* The native host.                                                        *)

\* normalize_os_release(), normalize_repository_ids()
OsRelease(off) == Clean("platform", {"os release", "minor"}, off)
Repositories(off) == Clean("platform", {"repository repeated", "repository foreign"}, off)
\* normalize_rocky_signing_key() and admit_rocky_signing_key()
SigningKey(off) == Clean("packages", {"key shape", "key packet"}, off)

\* normalize_installed_package(): identity, signed header and its verification.
PackageHeader(off) == Clean("packages", {"identity", "nevra", "header", "signature", "verification"}, off)
\* admit_package()
AdmitPackage(off) == Clean("packages", {"repository", "architecture"}, off)
\* normalize_native_package_observations() and admit_runtime_podman_version()
PodmanVersion(off) == Clean("packages", {"podman version"}, off)
NativePackages(off) == PackageHeader(off) /\ OsRelease(off) /\ SigningKey(off)
\* admit_postgresql_package()
PostgresqlPackage(off) == PackageHeader(off) /\ AdmitPackage(off) /\ Clean("packages", {"postgresql series"}, off)
\* haproxy_supply_contract.admit_installed_package() and normalize_features()
HaproxyPackage(off) == Clean("packages", {"haproxy identity", "haproxy binary", "haproxy features"}, off)

\* normalize_sudo_authority()
SudoAuthority(off) == ~Clean("account", {"sudo"}, off)

\* normalize_podman() and the tests of admit_runtime()
PodmanShape(off) == Clean("runtime", {"podman info"}, off)
RuntimeRootless(off) == Clean("runtime", {"rootful"}, off)
RuntimeEngine(off) == Clean("runtime", {"oci runtime", "network backend", "seccomp"}, off)
RuntimeSockets(off) == Clean("runtime", {"api socket"}, off)
RuntimeLocality(off) == Clean("runtime", {"remote service"}, off)
AdmitRuntime(off, manager) ==
  /\ RuntimeRootless(off) /\ RuntimeEngine(off) /\ manager /\ RuntimeSockets(off)
  /\ RuntimeLocality(off) /\ PodmanVersion(off)

\* subids_independent(): `ranges' is a sequence of <<start, count>> in which the selected
\* one stands twice, once from the file and once as the selection.
SubidsIndependent(selected, ranges, ids) ==
  LET start == selected[1]
      stop  == selected[1] + selected[2]
      Same(r) == r[1] = start /\ r[1] + r[2] = stop
  IN /\ Cardinality({i \in DOMAIN ranges : Same(ranges[i])}) = 2
     /\ \A i \in DOMAIN ranges :
          Same(ranges[i]) \/ stop <= ranges[i][1] \/ start >= ranges[i][1] + ranges[i][2]
     /\ \A n \in ids : ~(start <= n /\ n < stop)
=============================================================================
