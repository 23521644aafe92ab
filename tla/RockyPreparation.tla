-------------------------- MODULE RockyPreparation --------------------------
(***************************************************************************)
(* The evidence of a prepared host: the observer in                        *)
(* scripts/ci-cloud/collect-rocky-preparation.py and the admission of its  *)
(* facts in scripts/ci-cloud/rocky_preparation_contract.py.  A run only    *)
(* reads the host; `host' is what an installation has put there.           *)
(***************************************************************************)
EXTENDS HostContract, Sequences

\* The command line: admit_facts(), admit_native_package_observations() and main().
RunFlaw == {"sha", "image", "run", "expiry", "profile", "same boot", "arguments", "output"}
NativeRunFlaw == {"sha", "run", "output"}
AdmitRun(cmd, doc) == Clean("run", IF cmd = "native" THEN NativeRunFlaw ELSE RunFlaw, doc)

\* Observer.run(), text() and the other reads: an answer that fails, is too large or does
\* not decode ends the run.
Observed(off) == Clean("observation", {"failed", "too large", "not decoded"}, off)

Guest(off) == OsRelease(off) /\ Clean("platform", {"architecture"}, off)
Updates(off) == Clean("platform", {"automatic update"}, off) /\ Clean("preparation", {"dnf", "releasever"}, off)
\* normalize_label_configuration()
Selinux(off) ==
  Clean("platform", {"selinux mode", "selinux policy"}, off) /\ Clean("preparation", {"labels disabled"}, off)
Graphroot(off) == Clean("runtime", {"graphroot"}, off) /\ Clean("preparation", {"graphroot outside home"}, off)

\* normalize_fixture_repo_digests(), admit_fixture_identity()
FixtureDigests(off) == Clean("preparation", {"digests", "digest repeated"}, off)
FixtureIdentity(off) == Clean("preparation", {"other fixture", "no fixture"}, off)
\* normalize_memory_bytes() and the bounds of the hardware
Hardware(off) == Clean("preparation", {"cpu count", "memory", "disk"}, off)
CloudIdentity(off) == Clean("preparation", {"cloud identity", "cloud credentials"}, off)

\* normalize_subids(): one entry each, and both the same.
OwnSubids(off, host) == host.uid /\ host.gid /\ Clean("subids", {"own entry"}, off)
\* The account, with a range that is alone in both files taken together.
ServiceAccount(off, host, selected, ranges, ids) ==
  /\ host.account = "right" /\ Clean("account", {"identity", "groups"}, off) /\ ~SudoAuthority(off)
  /\ SubidsIndependent(selected, ranges, ids)
  /\ host.linger /\ Clean("preparation", {"quadlets writable"}, off)

\* Observer.installed_package(), normalize_package() and admit_package() of every package
PreparedPackages(off, host) ==
  host.packages = 2 /\ NativePackages(off) /\ AdmitPackage(off) /\ PodmanVersion(off)

\* collect() up to the state of the user manager, and what is admitted of it.
FirstReads(off, host) ==
  /\ Observed(off) /\ host.account = "right" /\ Updates(off) /\ Selinux(off) /\ Repositories(off)
  /\ PodmanShape(off) /\ FixtureDigests(off) /\ FixtureIdentity(off)
  /\ Clean("platform", {"cgroup"}, off) /\ AdmitRuntime(off, host.manager # "down")
\* The rest of collect(); the facts are admitted and assembled at its end.
LastReads(off, host, selected, ranges, ids) ==
  /\ Observed(off) /\ Guest(off) /\ OwnSubids(off, host) /\ Graphroot(off) /\ Hardware(off)
  /\ PreparedPackages(off, host) /\ RuntimeSockets(off)
  /\ ServiceAccount(off, host, selected, ranges, ids) /\ CloudIdentity(off)
\* collect_native_package_admission()
NativeAdmission(off, host) == Observed(off) /\ Guest(off) /\ PreparedPackages(off, host)

PreparationFlaw ==
  {"observation"} \X {"failed", "too large", "not decoded"}
    \cup {"preparation"} \X {"dnf", "releasever", "labels disabled", "graphroot outside home", "digests",
                             "digest repeated", "other fixture", "no fixture", "cpu count", "memory", "disk",
                             "cloud identity", "cloud credentials", "quadlets writable"}
=============================================================================
