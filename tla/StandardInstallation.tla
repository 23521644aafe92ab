------------------------ MODULE StandardInstallation ------------------------
(***************************************************************************)
(* scripts/standard-installation.py: the public base of a host, installed  *)
(* step by step, verified as a whole, and never repaired.  A killed run is *)
(* repeated; what it left half done is a conflict for an administrator.    *)
(* The module also composes the installation with the production state.    *)
(***************************************************************************)
EXTENDS ProductionState, RockyPreparation, SequencesExt

VARIABLE base    \* what has been installed
baseVars == <<base, commandVars, stateVars>>

\* One of each sort of the files and directories of plan(), in its order.  mkdir() as root
\* already gives the Quadlet directory its owner.
File == <<"firewall configuration", "user drop-in", "storage", "firewall helper">>
BaseDir == <<"home", "config", "graphroot", "quadlets">>
FileName == {File[i] : i \in DOMAIN File}
BaseDirName == {BaseDir[i] : i \in DOMAIN BaseDir}

\* A new host, or one that the failed earlier bootstrap left.
FreshBase ==
  [files |-> [f \in FileName |-> "absent"], dirs |-> [d \in BaseDirName |-> "absent"],
   packages |-> 0, account |-> "absent", uid |-> FALSE, gid |-> FALSE, masked |-> FALSE,
   usermasked |-> FALSE, xdg |-> FALSE, loaded |-> TRUE, manager |-> "down", linger |-> FALSE,
   label |-> "none", firewall |-> FALSE, enabled |-> FALSE, active |-> FALSE]
LegacyBase ==
  [files |-> [f \in FileName |-> IF f = "storage" THEN "absent" ELSE "right"],
   dirs |-> [d \in BaseDirName |-> IF d = "config" THEN "legacy" ELSE "right"],
   packages |-> 2, account |-> "right", uid |-> TRUE, gid |-> TRUE, masked |-> TRUE,
   usermasked |-> TRUE, xdg |-> FALSE, loaded |-> TRUE, manager |-> "right", linger |-> TRUE,
   label |-> "none", firewall |-> FALSE, enabled |-> FALSE, active |-> FALSE]

-----------------------------------------------------------------------------
(* Documents and observations.                                             *)

\* plan()
PlanFlaw == {"firewall document", "edge mode", "declaration", "source", "below runtime"}
Plan(doc) == ScanForbiddenInput("inventory", doc) /\ Inventory(doc) /\ Clean("plan", PlanFlaw, doc)
AdmitPlan(doc) == ReadDocument("inventory", doc) /\ ReadDocument("firewall", doc) /\ Plan(doc)
\* main() and the checks of its own source and inputs
AdministratorFlaw == {"not root", "untrusted source", "untrusted input"}
AdmitInstallation(doc) ==
  /\ Clean("administrator", AdministratorFlaw, doc)
  /\ AdmitPlan(doc)
\* main() of validate-production-contract.py
AdmitFacts(doc) ==
  ReadDocument("inventory", doc) /\ Inventory(doc) /\ ReadDocument("facts", doc) /\ HostFacts(doc)

\* What the state commands leave behind and no installation may find.
PrematureState == marker.by # "none" \/ temp.by # "none" \/ secrets # NoTree
\* no_authority()
AuthorityFlaw == {"enrollment", "database", "certificate", "api socket", "registry login", "configuration"}
NoAuthority == ~PrematureState /\ Clean("authority", AuthorityFlaw, off)
\* admit_environment(), admit_platform() and the rest of platform()
Environment == Clean("platform", {"secret environment"}, off)
AdmitPlatform == OsRelease(off) /\ Clean("platform", {"architecture", "selinux mode"}, off)
PlatformFlaw ==
  {"secret environment", "os release", "minor", "architecture", "selinux mode", "selinux policy",
   "cgroup", "cpu", "repository repeated", "repository foreign", "hostname", "management peer",
   "automatic update"}
Platform ==
  /\ Environment /\ AdmitPlatform /\ Repositories(off)
  /\ Clean("platform", {"selinux policy", "cgroup", "cpu", "hostname", "management peer", "automatic update"}, off)
  /\ SigningKey(off) /\ NoAuthority
\* dormant()
DormantFlaw == {"active service", "foreign firewall", "foreign unit", "foreign drop-in", "quadlet"}
Dormant == Clean("services", DormantFlaw, off)

\* Paths that public_file(), directory() and trusted() find as they should be.
FileExists(f) == base.files[f] # "absent" \/ <<"file", f>> \in off
PublicFile(f) == base.files[f] = "right" /\ <<"file", f>> \notin off
BaseDirExists(d) == base.dirs[d] # "absent" \/ <<"dir", d>> \in off
Directory(d) == base.dirs[d] = "right" /\ <<"dir", d>> \notin off

\* legacy_xdg() without repair: the exact old layout and nothing else in it.
Legacy == base.dirs["config"] = "legacy"
LegacyIsExact == Clean("legacy", {"entries", "masks", "storage"}, off) /\ Directory("home")

\* The user's ranges, and those that other accounts may be given in the same files.
Selected == <<2, 2>>
RangeOf == [below |-> <<0, 2>>, across |-> <<1, 2>>, equal |-> <<2, 2>>, inside |-> <<3, 1>>,
            none |-> <<3, 0>>, around |-> <<0, 6>>, above |-> <<4, 2>>]
IdOf == [two |-> 2, four |-> 4]
\* normalize_all_subid_ranges(), effective_ids(): the other entries, with the own one if
\* it is there or about to be added.
OtherRanges(k) == {RangeOf[n] : n \in {x \in DOMAIN RangeOf : <<k, x>> \in off}}
EffectiveIds == {IdOf[n] : n \in {x \in DOMAIN IdOf : <<"id", x>> \in off}}
\* Mutant: an entry that is still to be added is not counted.
CollidesUncounted(k) ==
  ~SubidsIndependent(Selected, SetToSeq(OtherRanges(k)) \o IF base[k] THEN <<Selected, Selected>> ELSE <<Selected>>,
                     EffectiveIds)
Collides(k) == ~SubidsIndependent(Selected, SetToSeq(OtherRanges(k)) \o <<Selected, Selected>>, EffectiveIds)

\* account() of an account that exists
Account == base.account = "right" /\ Clean("account", {"identity", "groups", "group"}, off) /\ ~SudoAuthority(off)
\* subids() of entries that exist
Subids == /\ base.uid /\ base.gid /\ Clean("subids", {"untrusted file", "own entry"}, off)
          /\ ~Collides("uid") /\ ~Collides("gid")
\* package_requirements() and packages()
Pinned == Clean("packages", {"pin"}, off)
Packages ==
  /\ base.packages = 2 /\ Pinned /\ NativePackages(off) /\ AdmitPackage(off) /\ PodmanVersion(off)
  /\ PostgresqlPackage(off) /\ HaproxyPackage(off)
\* xdg() in verify mode, as the service identity
Xdg == base.xdg /\ Directory("config") /\ Clean("xdg", {"link", "directory"}, off)
\* unit(): system and user units
Units(manager) == Clean(manager, {"unit active", "unit enabled"}, off)
\* Mutant: the rule counts, whatever label the store has.
LabelsByRule == base.label # "none" /\ Clean("labels", {"foreign rule"}, off)
\* storage_labels(): one rule, and the label it gives.
Labels == base.label = "right" /\ Clean("labels", {"foreign rule", "drift"}, off)
\* runtime()
Runtime ==
  /\ base.manager = "right" /\ Clean("runtime", {"search path", "graphroot", "container"}, off)
  /\ PodmanShape(off) /\ AdmitRuntime(off, base.manager # "down")

-----------------------------------------------------------------------------
(* install_public_base()                                                   *)

\* A step of the installer that only changes the base.
Install(p, from, to, changes, b) ==
  /\ Step(p, from) /\ Goto(p, to) /\ base' = b
  /\ IF changes THEN Did(p) ELSE UNCHANGED job
  /\ UNCHANGED <<off, spent, stateVars>>
Refuses(p, from, reason) ==
  /\ Step(p, from) /\ reason /\ Goto(p, "refused")
  /\ UNCHANGED <<job, off, spent, stateVars, base>>
\* What is to be created was missing when this run looked, and another run has made it
\* since; or the old file that is to be removed has gone.
Taken(p) ==
  \/ pc[p] = "group" /\ base.account # "absent"
  \/ pc[p] = "user" /\ base.account = "right"
  \/ pc[p] = "make dir" /\ base.dirs[BaseDir[job[p].i]] # "absent"
  \/ pc[p] = "open file" /\ base.files[File[job[p].i]] # "absent"
  \/ pc[p] = "unlink" /\ ~Legacy
  \/ pc[p] = "link" /\ base.xdg
  \/ pc[p] = "rule" /\ base.label # "none"

InspectHost(p) ==
  /\ Read(p, "platform", "detect", Platform /\ Dormant)
  /\ UNCHANGED <<job, off, spent, stateVars, base>>
\* Mutant: files are left to publish().
DetectFilesLate(p) ==
  /\ Read(p, "detect", "mask",
          /\ Legacy => LegacyIsExact
          /\ \A d \in BaseDirName : BaseDirExists(d) /\ ~(Legacy /\ d = "config") => Directory(d)
          /\ Pinned)
  /\ job' = [job EXCEPT ![p].legacy = Legacy]
  /\ UNCHANGED <<off, spent, stateVars, base>>
\* Conflicts of files and directories, and pinned packages, before anything is installed.
Detect(p) ==
  /\ Read(p, "detect", "mask",
          /\ Legacy => LegacyIsExact
          /\ \A f \in FileName : FileExists(f) => PublicFile(f)
          /\ \A d \in BaseDirName : BaseDirExists(d) /\ ~(Legacy /\ d = "config") => Directory(d)
          /\ Pinned)
  /\ job' = [job EXCEPT ![p].legacy = Legacy]
  /\ UNCHANGED <<off, spent, stateVars, base>>

\* unit(install=True) of the dormant system units, before their packages are there.
Mask(p) ==
  \/ Refuses(p, "mask", ~Units("system"))
  \/ Units("system") /\ Install(p, "mask", "packages", ~base.masked, [base EXCEPT !.masked = TRUE])
\* dnf, which a kill may leave half done; a repetition installs what is missing.
InstallPackages(p) ==
  Install(p, "packages", IF base.packages < 2 THEN "packages" ELSE "account", base.packages < 2,
          [base EXCEPT !.packages = IF @ < 2 THEN @ + 1 ELSE @])

\* account(install=True): never takes over another identity.
Available == /\ Clean("account", {"uid taken", "group"}, off)
             /\ base.account = "absent" => Clean("account", {"gid taken"}, off)
FindAccount(p) ==
  \/ Refuses(p, "account", IF base.account = "right" THEN ~Account ELSE ~Available)
  \/ /\ base.account # "right" /\ Available
     /\ Install(p, "account", IF base.account = "absent" THEN "group" ELSE "user", FALSE, base)
  \/ Account /\ Install(p, "account", "uid", FALSE, base)
\* groupadd and useradd fail for a name or a number that is there by now.
CreateGroup(p) ==
  \/ Refuses(p, "group", Taken(p) \/ ~Clean("account", {"gid taken", "group"}, off))
  \/ /\ ~Taken(p) /\ Clean("account", {"gid taken", "group"}, off)
     /\ Install(p, "group", "user", TRUE, [base EXCEPT !.account = "group"])
CreateUser(p) ==
  \/ Refuses(p, "user", Taken(p) \/ ~Clean("account", {"uid taken"}, off))
  \/ /\ ~Taken(p) /\ Clean("account", {"uid taken"}, off)
     /\ Install(p, "user", "account", TRUE, [base EXCEPT !.account = "right"])
\* subids(install=True) of one kind; the ranges of others are read before usermod runs.
AddSubuid(p) ==
  \/ Refuses(p, "uid", Collides("uid") \/ ~Clean("subids", {"untrusted file", "own entry"}, off))
  \/ /\ ~Collides("uid") /\ Clean("subids", {"untrusted file", "own entry"}, off)
     /\ Install(p, "uid", "gid", ~base.uid, [base EXCEPT !.uid = TRUE])
AddSubgid(p) ==
  /\ Step(p, "gid") /\ UNCHANGED <<off, spent, stateVars>>
  /\ IF Collides("gid") \/ ~Clean("subids", {"untrusted file", "own entry"}, off)
     THEN Goto(p, "refused") /\ UNCHANGED <<job, base>>
     ELSE /\ Goto(p, "dirs") /\ base' = [base EXCEPT !.gid = TRUE]
          /\ job' = [job EXCEPT ![p].changed = @ \/ ~base.gid, ![p].counted = FALSE, ![p].i = 1]

\* directory(): the check, mkdir(), then chown() and chmod().
AfterDirectory(p) == IF job[p].i = Len(BaseDir) THEN "files" ELSE "dirs"
JobAfterDirectory(p) == [job EXCEPT ![p].i = IF @ = Len(BaseDir) THEN 1 ELSE @ + 1]
CheckDirectory(p) ==
  /\ Step(p, "dirs") /\ UNCHANGED <<off, spent, stateVars, base>>
  /\ LET d == BaseDir[job[p].i]
     IN \/ /\ BaseDirExists(d) /\ (Directory(d) \/ (d = "config" /\ job[p].legacy))
           /\ Goto(p, AfterDirectory(p)) /\ job' = JobAfterDirectory(p)
        \/ /\ BaseDirExists(d) /\ ~Directory(d) /\ ~(d = "config" /\ job[p].legacy)
           /\ Goto(p, "refused") /\ UNCHANGED job
        \/ ~BaseDirExists(d) /\ Goto(p, "make dir") /\ UNCHANGED job
MakeDirectory(p) ==
  LET d == BaseDir[job[p].i]
  IN \/ Refuses(p, "make dir", BaseDirExists(d))
     \/ /\ Step(p, "make dir") /\ ~BaseDirExists(d)
        /\ base' = [base EXCEPT !.dirs[d] = IF d = "quadlets" THEN "right" ELSE "torn"]
        /\ Goto(p, IF d = "quadlets" THEN AfterDirectory(p) ELSE "chown dir")
        /\ job' = [(IF d = "quadlets" THEN JobAfterDirectory(p) ELSE job)
                     EXCEPT ![p].changed = TRUE, ![p].counted = TRUE]
        /\ UNCHANGED <<off, spent, stateVars>>
ChownDirectory(p) ==
  /\ Step(p, "chown dir") /\ Goto(p, AfterDirectory(p))
  /\ base' = [base EXCEPT !.dirs[BaseDir[job[p].i]] = "right"]
  /\ job' = JobAfterDirectory(p)
  /\ UNCHANGED <<off, spent, stateVars>>

\* publish(): the check, an exclusive creation, then the content; a partial file stays a
\* conflict.
AfterFile(p) == IF job[p].i < Len(File) THEN "files" ELSE IF job[p].legacy THEN "repair" ELSE "xdg"
CheckFile(p) ==
  /\ Step(p, "files") /\ UNCHANGED <<off, spent, stateVars, base>>
  /\ LET f == File[job[p].i]
     IN \/ /\ FileExists(f) /\ Goto(p, IF PublicFile(f) THEN AfterFile(p) ELSE "refused")
           /\ job' = [job EXCEPT ![p].i = @ + 1]
        \/ ~FileExists(f) /\ Goto(p, "open file") /\ UNCHANGED job
OpenFile(p) ==
  LET f == File[job[p].i]
  IN \/ Refuses(p, "open file", FileExists(f))
     \/ /\ Step(p, "open file") /\ ~FileExists(f)
        /\ Install(p, "open file", "write file", FALSE, [base EXCEPT !.files[f] = "partial"])
WriteFile(p) ==
  LET f == File[job[p].i]
  IN /\ Step(p, "write file") /\ Goto(p, AfterFile(p))
     /\ base' = [base EXCEPT !.files[f] = "right", !.loaded = @ /\ f # "user drop-in"]
     /\ job' = [job EXCEPT ![p].i = @ + 1, ![p].changed = TRUE, ![p].counted = TRUE]
     /\ UNCHANGED <<off, spent, stateVars>>

\* legacy_xdg(repair=True): the old copy is removed once the new one is verified, and the
\* three directories are handed over one by one.
CheckLegacy(p) ==
  \/ Refuses(p, "repair", Legacy /\ ~(LegacyIsExact /\ PublicFile("storage")))
  \/ /\ Legacy /\ LegacyIsExact /\ PublicFile("storage")
     /\ Install(p, "repair", "unlink", FALSE, base)
  \/ ~Legacy /\ Install(p, "repair", "xdg", FALSE, base)
RemoveLegacy(p) ==
  \/ Refuses(p, "unlink", Taken(p))
  \/ ~Taken(p) /\ Install(p, "unlink", "transfer", TRUE, [base EXCEPT !.dirs["config"] = "half"])
TransferLegacy(p) == Install(p, "transfer", "xdg", TRUE, [base EXCEPT !.dirs["config"] = "right"])

\* xdg(install=True) adds what is missing.
SetUpXdg(p) ==
  \/ Refuses(p, "xdg", ~(Directory("config") /\ Clean("xdg", {"link", "directory"}, off)))
  \/ /\ Directory("config") /\ Clean("xdg", {"link", "directory"}, off)
     /\ Install(p, "xdg", IF base.xdg THEN "reload" ELSE "link", FALSE, base)
LinkXdg(p) ==
  \/ Refuses(p, "link", Taken(p))
  \/ ~Taken(p) /\ Install(p, "link", "reload", TRUE, [base EXCEPT !.xdg = TRUE])

\* Mutant: systemd is reloaded by every run.
ReloadAlways(p) == Install(p, "reload", "labels", TRUE, [base EXCEPT !.loaded = TRUE])
\* daemon-reload, if this run changed anything since the account was there.
Reload(p) == Install(p, "reload", "labels", job[p].counted, [base EXCEPT !.loaded = @ \/ job[p].counted])

\* storage_labels(install=True): only a store without a rule is labelled, by the run that
\* adds the rule.
LabelStorage(p) ==
  \/ Refuses(p, "labels", ~Labels /\ ~(base.label = "none" /\ Clean("labels", {"foreign rule", "populated store"}, off)))
  \/ /\ base.label = "none" /\ Clean("labels", {"foreign rule", "populated store"}, off)
     /\ Install(p, "labels", "rule", FALSE, base)
  \/ Labels /\ Install(p, "labels", "linger", FALSE, base)
\* semanage refuses a rule that is there by now.
AddRule(p) ==
  \/ Refuses(p, "rule", Taken(p))
  \/ ~Taken(p) /\ Install(p, "rule", "restorecon", TRUE, [base EXCEPT !.label = "policy"])
Restorecon(p) ==
  \/ Refuses(p, "restorecon", ~Clean("labels", {"populated store"}, off))
  \/ /\ Clean("labels", {"populated store"}, off)
     /\ Install(p, "restorecon", "linger", TRUE, [base EXCEPT !.label = "right"])

\* A user manager that starts while the drop-in is not loaded may miss it.
Started(b) == {[b EXCEPT !.manager = m] : m \in IF b.manager # "down" THEN {b.manager}
                                                ELSE IF b.loaded THEN {"right"} ELSE {"right", "stale"}}
\* enable-linger also starts the user manager.
EnableLinger(p) ==
  \/ base.linger /\ Install(p, "linger", "manager", FALSE, base)
  \/ ~base.linger /\ \E b \in Started([base EXCEPT !.linger = TRUE]) : Install(p, "linger", "manager", TRUE, b)
StartManager(p) ==
  \E b \in Started(base) : Install(p, "manager", "user mask", base.manager = "down", b)
MaskUser(p) ==
  \/ Refuses(p, "user mask", ~Units("user"))
  \/ Units("user") /\ Install(p, "user mask", "firewall", ~base.usermasked, [base EXCEPT !.usermasked = TRUE])
\* host-firewall --check, else --apply; then nftables.service
ApplyFirewall(p) ==
  Install(p, "firewall", "enable", ~base.firewall,
          [base EXCEPT !.firewall = TRUE])
EnableFirewall(p) ==
  \/ Refuses(p, "enable", ~Clean("firewall", {"service state"}, off))
  \/ /\ Clean("firewall", {"service state"}, off)
     /\ Install(p, "enable", "start", ~base.enabled, [base EXCEPT !.enabled = TRUE, !.loaded = @ \/ ~base.enabled])
\* What a command that starts now, or its verification, has to notice.
Standing == off \cup IF marker.by # "none" \/ secrets # NoTree THEN {<<"authority", "state">>} ELSE {}
StartFirewall(p) ==
  /\ Step(p, "start") /\ Goto(p, "verify host") /\ base' = [base EXCEPT !.active = TRUE]
  /\ job' = [job EXCEPT ![p].changed = @ \/ ~base.active, ![p].found = Standing]
  /\ UNCHANGED <<off, spent, stateVars>>

-----------------------------------------------------------------------------
(* verify_public_base()                                                    *)

Verifies(p, from, to, admitted) ==
  Read(p, from, to, admitted) /\ UNCHANGED <<job, off, spent, stateVars, base>>

VerifyHost(p) == Verifies(p, "verify host", "verify files", Platform /\ Dormant /\ Account /\ Subids)
VerifyFiles(p) ==
  Verifies(p, "verify files", "verify runtime",
           /\ Packages /\ (\A f \in FileName : PublicFile(f)) /\ (\A d \in BaseDirName : Directory(d))
           /\ Xdg /\ Units("system") /\ base.masked /\ Units("user") /\ base.usermasked)
VerifyRuntime(p) ==
  Verifies(p, "verify runtime", IF job[p].cmd = "enroll" THEN "ready" ELSE "ok",
           /\ Labels /\ Runtime /\ base.linger /\ base.enabled /\ base.active /\ base.firewall
           /\ Clean("firewall", {"service state", "preview"}, off))
\* admit_for_enrollment(): two independent admissions, and never a default.
Ready(p) == Verifies(p, "ready", "ok", Clean("ready", {"conformance", "artifacts"}, off))

-----------------------------------------------------------------------------
(* collect-rocky-preparation.py                                            *)

BothRanges == SetToSeq(OtherRanges("uid")) \o SetToSeq(OtherRanges("gid")) \o <<Selected, Selected>>
Observe(p) == Verifies(p, "observe", "observe rest", FirstReads(off, base))
ObserveRest(p) == Verifies(p, "observe rest", "ok", LastReads(off, base, Selected, BothRanges, EffectiveIds))
ObserveNative(p) == Verifies(p, "observe native", "ok", NativeAdmission(off, base))

-----------------------------------------------------------------------------
(* The commands.                                                           *)

BaseIsRight ==
  base = [files |-> [f \in FileName |-> "right"], dirs |-> [d \in BaseDirName |-> "right"],
          packages |-> 2, account |-> "right", uid |-> TRUE, gid |-> TRUE, masked |-> TRUE,
          usermasked |-> TRUE, xdg |-> TRUE, loaded |-> TRUE, manager |-> "right", linger |-> TRUE,
          label |-> "right", firewall |-> TRUE, enabled |-> TRUE, active |-> TRUE]

\* A command line with at most one flaw.  Its admission does not read the host, so the
\* flawed ones are tried on the untouched host only.
OneFlaw(flaws) == {{}} \cup {{f} : f \in IF spent.runs = 0 THEN flaws ELSE {}}
PlanDocument ==
  OneFlaw({"administrator"} \X AdministratorFlaw \cup {"inventory"} \X InventoryFlaw
            \cup {"firewall"} \X DocumentFlaw \cup {"plan"} \X PlanFlaw)
StateDocument == OneFlaw({"contract"} \X ContractFlaw \cup {"command"} \X CommandFlaw)

\* main(); an installation remembers in `flag' that it started on a finished base.
StartInstall(p) ==
  /\ \E doc \in PlanDocument :
       Start(p, "install", doc, BaseIsRight, AdmitInstallation(doc), "platform", Standing)
  /\ UNCHANGED <<base, stateVars>>
StartVerify(p) ==
  /\ \E doc \in PlanDocument, cmd \in {"verify", "enroll"} :
       Start(p, cmd, doc, FALSE, AdmitInstallation(doc), "verify host", Standing)
  /\ UNCHANGED <<base, stateVars>>
\* --plan by an ordinary user
StartPlan(p) ==
  /\ \E doc \in OneFlaw({"inventory"} \X InventoryFlaw \cup {"plan"} \X PlanFlaw) :
       Start(p, "plan", doc, FALSE, AdmitPlan(doc), "ok", Standing)
  /\ UNCHANGED <<base, stateVars>>
\* validate-production-contract.py
StartFacts(p) ==
  /\ \E doc \in OneFlaw({"inventory"} \X InventoryFlaw \cup {"facts"} \X FactsFlaw) :
       Start(p, "facts", doc, FALSE, AdmitFacts(doc), "ok", Standing)
  /\ UNCHANGED <<base, stateVars>>
\* collect-rocky-preparation.py
StartPreparation(p) ==
  /\ \E doc \in OneFlaw({"run"} \X RunFlaw) :
       Start(p, "prepare", doc, FALSE, AdmitRun("prepare", doc), "observe", Standing)
  /\ UNCHANGED <<base, stateVars>>
StartNative(p) ==
  /\ \E doc \in OneFlaw({"run"} \X NativeRunFlaw) :
       Start(p, "native", doc, FALSE, AdmitRun("native", doc), "observe native", Standing)
  /\ UNCHANGED <<base, stateVars>>
\* production-state.py
StartState(p) ==
  /\ \E doc \in StateDocument, cmd \in {"initialize", "publish", "validate", "namespace"}, flag \in BOOLEAN :
       Start(p, cmd, doc, flag, AdmitStateCommand(cmd, doc),
             IF cmd \in {"initialize", "publish"} THEN cmd ELSE "check", Standing)
  /\ UNCHANGED <<base, stateVars>>

-----------------------------------------------------------------------------
(* The rest of the world.                                                  *)

\* Native.run(), change(): a command that fails, times out or says too much is a refusal.
CommandFails(p) ==
  /\ p \in Running /\ pc[p] \notin StateStep /\ Fault /\ Goto(p, "refused")
  /\ UNCHANGED <<job, off, stateVars, base>>

Kill(p) ==
  /\ p \in Running /\ Fault /\ Goto(p, "killed")
  /\ job' = [job EXCEPT ![p].copied = <<>>]
  /\ temp' = Orphaned(temp, p) /\ marker' = Orphaned(marker, p)
  /\ UNCHANGED <<off, dirs, secrets, source, base>>

\* What is on tmpfs and in the kernel is gone, and systemd has read every unit again.
Reboot ==
  /\ Fault
  /\ pc' = [p \in Proc |-> IF pc[p] \in Ended THEN "idle" ELSE "killed"]
  /\ job' = [p \in Proc |-> NoJob]
  /\ temp' = IF temp.by = "none" THEN temp ELSE [temp EXCEPT !.by = "dead"]
  /\ marker' = IF marker.by = "none" THEN marker ELSE [marker EXCEPT !.by = "dead"]
  /\ secrets' = NoTree /\ dirs' = [dirs EXCEPT !["run"] = "absent"]
  /\ base' = [base EXCEPT !.loaded = TRUE, !.active = base.enabled,
                          !.firewall = @ /\ base.enabled,
                          !.manager = IF ~base.linger THEN "down"
                                      ELSE IF base.files["user drop-in"] = "right" THEN "right" ELSE "stale"]
  /\ UNCHANGED <<off, source>>

\* Deviations that the installer must not overlook.
BaseFlaw ==
  {"platform"} \X PlatformFlaw \cup {"authority"} \X AuthorityFlaw \cup {"services"} \X DormantFlaw
    \cup {"file"} \X FileName \cup {"dir"} \X BaseDirName \cup {"legacy"} \X {"entries", "masks", "storage"}
    \cup {"packages"} \X {"pin", "key shape", "key packet", "identity", "nevra", "header", "signature",
                          "verification", "repository", "architecture", "podman version", "postgresql series",
                          "haproxy identity", "haproxy binary", "haproxy features"}
    \cup {"account"} \X {"uid taken", "gid taken", "group", "identity", "groups", "sudo"}
    \cup {"subids"} \X {"untrusted file", "own entry"}
    \cup {"uid", "gid"} \X DOMAIN RangeOf \cup {"id"} \X DOMAIN IdOf
    \cup {"xdg"} \X {"link", "directory"} \cup {"system", "user"} \X {"unit active", "unit enabled"}
    \cup {"labels"} \X {"foreign rule", "drift", "populated store"}
    \cup {"runtime"} \X {"search path", "graphroot", "container", "podman info", "rootful", "oci runtime",
                         "network backend", "seccomp", "api socket", "remote service"}
    \cup {"firewall"} \X {"service state", "preview"} \cup {"ready"} \X {"conformance", "artifacts"}

InstallCommand(p) ==
  \/ InspectHost(p) \/ Detect(p) \/ Mask(p) \/ InstallPackages(p) \/ FindAccount(p) \/ CreateGroup(p)
  \/ CreateUser(p) \/ AddSubuid(p) \/ AddSubgid(p) \/ CheckDirectory(p) \/ MakeDirectory(p)
  \/ ChownDirectory(p) \/ CheckFile(p) \/ OpenFile(p) \/ WriteFile(p) \/ CheckLegacy(p)
  \/ RemoveLegacy(p) \/ TransferLegacy(p) \/ SetUpXdg(p) \/ LinkXdg(p) \/ Reload(p) \/ LabelStorage(p) \/ AddRule(p)
  \/ Restorecon(p) \/ EnableLinger(p) \/ StartManager(p) \/ MaskUser(p) \/ ApplyFirewall(p)
  \/ EnableFirewall(p) \/ StartFirewall(p)
  \/ VerifyHost(p) \/ VerifyFiles(p) \/ VerifyRuntime(p) \/ Ready(p)
  \/ Observe(p) \/ ObserveRest(p) \/ ObserveNative(p)

Init == CommandInit /\ StateInit /\ base \in {FreshBase, LegacyBase}

Next ==
  \/ \E p \in Proc :
       \/ StartInstall(p) \/ StartVerify(p) \/ StartPlan(p) \/ StartFacts(p) \/ StartState(p)
       \/ StartPreparation(p) \/ StartNative(p)
       \/ InstallCommand(p) \/ CommandFails(p) \/ Kill(p)
       \/ (StateCommand(p) /\ UNCHANGED base) \/ (Interrupt(p) /\ UNCHANGED base)
  \/ Reboot
  \/ (Deviate(StateFlaw \cup BaseFlaw \cup PreparationFlaw) /\ UNCHANGED <<base, stateVars>>)
  \/ (ReplaceSource /\ UNCHANGED base)

Spec == Init /\ [][Next]_baseVars

-----------------------------------------------------------------------------
(* Properties.                                                             *)

Identities(r) == r[1] .. r[1] + r[2] - 1
\* Deviations that are no objection to a finished base.
Harmless ==
  {"legacy"} \X {"entries", "masks", "storage"} \cup {"account"} \X {"uid taken", "gid taken"}
    \cup {<<"labels", "populated store">>} \cup {"uid", "gid"} \X DOMAIN RangeOf \cup {"id"} \X DOMAIN IdOf
OwnIdentities(stood) ==
  /\ \A k \in {"uid", "gid"}, n \in DOMAIN RangeOf :
       <<k, n>> \in stood => Identities(RangeOf[n]) \cap Identities(Selected) = {}
  /\ \A n \in DOMAIN IdOf : <<"id", n>> \in stood => IdOf[n] \notin Identities(Selected)
Admissible(cmd, stood) ==
  /\ stood \cap (BaseFlaw \ (Harmless \cup IF cmd = "enroll" THEN {} ELSE {"ready"} \X {"conformance", "artifacts"})) = {}
  /\ <<"authority", "state">> \notin stood /\ OwnIdentities(stood)
\* What the evidence of a prepared host may not have missed.
Prepared(stood) ==
  /\ base.account = "right" /\ base.packages = 2 /\ base.uid /\ base.gid /\ base.linger /\ base.manager # "down"
  /\ OwnIdentities(stood)
  /\ stood \cap (PreparationFlaw
       \cup {"platform"} \X (PlatformFlaw \ {"secret environment", "cpu", "hostname", "management peer"})
       \cup {"account"} \X {"identity", "groups", "sudo"} \cup {<<"subids", "own entry">>}
       \cup {"packages"} \X {"key shape", "key packet", "identity", "nevra", "header", "signature", "verification",
                             "repository", "architecture", "podman version"}
       \cup {"runtime"} \X {"graphroot", "podman info", "rootful", "oci runtime", "network backend", "seccomp",
                            "api socket", "remote service"}) = {}

\* A command that reports success has admitted flawless documents.  An installation or a
\* verification that succeeds stands on a finished base, in which the runtime account's
\* subordinate identities belong to no other account, and has overlooked no deviation and
\* no production state that was there when its verification began; the same holds of the
\* evidence of a prepared host and of what it is about; an initialization
\* leaves a whole marker, layout and tree of secrets (verify_public_base,
\* admit_for_enrollment, normalize_and_admit, initialize_production).
VerifiedIsTrue ==
  [][\A p \in Proc :
       pc'[p] = "ok" /\ (pc[p] # "ok" \/ job'[p] # job[p]) =>
         /\ job'[p].doc \subseteq IF Unprivileged(job'[p].cmd) THEN {<<"command", "not root">>} ELSE {}
         /\ job[p].cmd \in {"install", "verify", "enroll"} /\ pc[p] \notin Ended =>
              BaseIsRight' /\ Admissible(job[p].cmd, job[p].found)
         /\ job[p].cmd = "prepare" /\ pc[p] \notin Ended => Prepared(job[p].found)
         /\ job[p].cmd = "initialize" /\ pc[p] \notin Ended =>
              /\ marker'.whole /\ marker'.owned /\ secrets' # NoTree
              /\ \A d \in DirName : dirs'[d] = "right"
              /\ job[p].found \cap ({"state"} \X {"retired storage", "redirected ancestry", "marker"}
                                     \cup {"secrets"} \X SecretFlaw \cup {"dir"} \X Layout) = {}]_baseVars

\* An installation that starts on a host with a conflict (another platform, premature
\* authority, foreign services, a foreign file or directory, another pinned package)
\* changes nothing (install_public_base: conflicts are detected before anything is installed).
ConflictsChangeNothing ==
  \A p \in Running :
    job[p].cmd = "install" /\ job[p].changed =>
      /\ job[p].stood \cap ({"platform"} \X PlatformFlaw \cup {"authority"} \X (AuthorityFlaw \cup {"state"})
                             \cup {"services"} \X DormantFlaw \cup {"file"} \X FileName \cup {"dir"} \X (BaseDirName \ {"config"})
                             \cup {"packages"} \X {"pin"}) = {}
      /\ <<"dir", "config">> \in job[p].stood => job[p].legacy

\* What a killed or concurrent run leaves that no later run repairs.
Torn ==
  \/ \E f \in FileName : base.files[f] = "partial"
  \/ \E d \in BaseDirName : base.dirs[d] \in {"torn", "half"}
  \/ base.label = "policy" \/ base.manager = "stale"
\* An installation is refused only for a reason that lies outside of it: a deviation,
\* production state, a torn item, a command that failed, or another installation at the same
\* time that made an item between this one's check and its exclusive creation.  Everything
\* else that a killed or refused run leaves (some of the packages, the group without its
\* account, one of two subordinate ranges, unmasked units, a missing link, a table that the
\* reboot lost) is completed by the next run.
OnlyTornIsRefused ==
  [][\A p \in Proc :
       job[p].cmd = "install" /\ pc[p] \notin Ended /\ pc'[p] = "refused" =>
         off # {} \/ PrematureState \/ Torn \/ Taken(p) \/ CommandFails(p)]_baseVars

\* An installation that starts on a finished base changes nothing at all and reports
\* PUBLIC_BASE_UNCHANGED, after a reboot as well.
RepeatChangesNothing ==
  \A p \in Running : job[p].cmd = "install" /\ job[p].flag => ~job[p].changed

\* The tree of secrets is never seen incomplete, invalid, with one database identity for
\* both roles or with the active key among the retired ones, whatever the source did while
\* it was copied; a marker freezes a layout that is complete (publish_initial_secret_tree,
\* initialize_production).
StateIsWhole ==
  /\ secrets # NoTree =>
       /\ DOMAIN secrets = DOMAIN SecretFile
       /\ \A i \in DOMAIN secrets : secrets[i] # "malformed"
       /\ secrets[3] # secrets[4] /\ secrets[1] # secrets[2]
  /\ marker.by # "none" => \A d \in Layout : dirs[d] = "right"
=============================================================================
